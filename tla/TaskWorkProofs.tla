----------------------------- MODULE TaskWorkProofs -----------------------------
(***************************************************************************)
(* Theorems about TaskWork, for any number of sessions and processes: the  *)
(* types, that a task and its assignment agree, and that no assignment is  *)
(* silently forgotten.                                                     *)
(*                                                                         *)
(* While nothing is torn, one process at most is between two writes        *)
(* (Solo), the tables are what its writes so far make of tables that agree *)
(* (Stage), and the daemon is not about to accept a row of a task that has *)
(* been blocked since (Careful).  Kept is NotForgotten with the states     *)
(* between two writes, where a blocked row is about to be accepted.        *)
(***************************************************************************)
EXTENDS TaskWork, TLAPS

\* Sessions are where a row or a process needs one, only an accepted row has a
\* checkpoint, and only the daemon accepts.
GivenRow(o) ==
  /\ ActiveRow(o) => rows[o].session \in Sessions
  /\ rows[o].due # "null" <=> rows[o].state = "accepted"

GivenProc(p) ==
  /\ proc[p].at \in {"superseding", "inserting", "dispatching"} => p \in Dispatchers
  /\ proc[p].at \in {"superseding", "inserting", "dispatching", "publishing", "accepting"}
       => proc[p].session \in Sessions
  /\ proc[p].at \in {"accepting", "acceptingTask"} => p = Daemon
  /\ proc[p].at = "idle" => proc[p].session = NoSession
  /\ (proc[p].at \in {"resuming", "resumingRows"} /\ p \in Procs /\ proc[p].session \in Sessions)
       => p \in Dispatchers
  /\ p = Daemon => proc[p].at \in {"idle", "resuming", "resumingRows", "accepting", "acceptingTask"}

GivenBound ==
  \A o \in proc[Daemon].bound : ActiveRow(o) => rows[o].session = proc[Daemon].session

Given ==
  /\ \A o \in Dispatchers : GivenRow(o)
  /\ \A p \in Everyone : GivenProc(p)
  /\ GivenBound

Typed == TypeOK /\ Given

One == \A o, q \in Dispatchers : ActiveRow(o) /\ ActiveRow(q) => o = q
Over == \A o \in Dispatchers : ActiveRow(o) => status \in Active
Waits == status = "dispatched" => \E o \in Dispatchers : rows[o].state = "assigned"
Fits ==
  /\ Over /\ One /\ Waits
  /\ status = "blocked" => \A o \in Dispatchers : rows[o].state \in {"none", "blocked"}

\* What a process has left behind it between two writes.
StageOf(p) ==
  /\ Runs(p, "resumingRows") => (Over /\ One /\ Waits /\ status # "blocked")
  /\ Runs(p, "inserting") => (\A o \in Dispatchers : ~ActiveRow(o))
  /\ Runs(p, "dispatching") =>
       (/\ rows[p].state = "assigned" /\ rows[p].session = proc[p].session
        /\ \A o \in Dispatchers \ {p} : ~ActiveRow(o))
  /\ Runs(p, "reportingRows") => (One /\ status = "in_progress")
  /\ Runs(p, "blockingRows") => (One /\ status = "blocked")
  /\ Runs(p, "endingRows") => (status \in Terminal)
  /\ Runs(p, "acceptingTask") => (Over /\ One /\ status # "blocked")

Stage == \A p \in Everyone : StageOf(p)

Solo == \A p, q \in Everyone : (proc[p].at \in Middle /\ proc[q].at \in Middle) => p = q

Careful ==
  Runs(Daemon, "accepting") =>
    (status # "blocked" \/ \E p \in Procs : proc[p].at \in {"inserting", "dispatching"})

Consistent == ~torn => (Solo /\ Stage /\ (Whole => Fits) /\ Careful)

LookedAfter(o) ==
  \/ rows[o].due # "null"
  \/ rows[o].session \in prompts
  \/ \E p \in Procs : Runs(p, "publishing") /\ proc[p].session = rows[o].session
  \/ Runs(Daemon, "accepting") /\ o \in proc[Daemon].bound

Kept ==
  (/\ ~torn /\ ~forgotten /\ status \in {"dispatched", "in_progress"}
   /\ \A p \in Procs : proc[p].at \notin {"inserting", "dispatching"}) =>
     \A o \in Dispatchers : ActiveRow(o) =>
       \/ LookedAfter(o)
       \/ rows[o].state = "blocked" /\ \E p \in Everyone : proc[p].at \in {"resumingRows", "reportingRows"}

Inv == Typed /\ Consistent /\ Kept

\* What resuming makes of a row.
LEMMA AcceptedRow ==
  ASSUME NEW r \in Assignment
  PROVE  /\ Accepted(r) \in Assignment
         /\ Accepted(r).session = r.session
         /\ r.state \in {"assigned", "blocked"} =>
              Accepted(r).state = "accepted" /\ Accepted(r).due = "ahead"
         /\ r.state \notin {"assigned", "blocked"} => Accepted(r) = r
BY DEF Accepted, Assignment

\* A process goes on to its next write, and no other does anything.
LEMMA GoesTo ==
  ASSUME proc \in [Everyone -> Process], NEW p \in Everyone, NEW at \in Places, Goes(p, at)
  PROVE  /\ proc' \in [Everyone -> Process]
         /\ proc'[p].at = at /\ proc'[p].session = proc[p].session /\ proc'[p].bound = proc[p].bound
         /\ \A q \in Everyone \ {p} : proc'[q] = proc[q]
<1>1. PICK r \in Process : r = proc[p]
  OBVIOUS
<1>2. [r EXCEPT !.at = at] \in Process
  BY DEF Process
<1>3. proc' = [proc EXCEPT ![p] = [r EXCEPT !.at = at]]
  BY <1>1 DEF Goes
<1>4. [r EXCEPT !.at = at].at = at /\ [r EXCEPT !.at = at].session = r.session
      /\ [r EXCEPT !.at = at].bound = r.bound
  BY DEF Process
<1>5. QED
  BY <1>1, <1>2, <1>3, <1>4

\* A process has done.
LEMMA EndsIdle ==
  ASSUME proc \in [Everyone -> Process], NEW p \in Everyone, Ends(p)
  PROVE  /\ proc' \in [Everyone -> Process]
         /\ proc'[p] = Idle /\ Idle.at = "idle" /\ Idle.session = NoSession /\ Idle.bound = {}
         /\ \A q \in Everyone \ {p} : proc'[q] = proc[q]
<1>1. Idle \in Process /\ Idle.at = "idle" /\ Idle.session = NoSession /\ Idle.bound = {}
  BY DEF Idle, Process, Places
<1>2. QED
  BY <1>1 DEF Ends

\* A process begins.
LEMMA Begins ==
  ASSUME proc \in [Everyone -> Process], NEW p \in Everyone, NEW r \in Process,
         proc' = [proc EXCEPT ![p] = r]
  PROVE  /\ proc' \in [Everyone -> Process]
         /\ proc'[p] = r
         /\ \A q \in Everyone \ {p} : proc'[q] = proc[q]
OBVIOUS

\* A row is inserted: the process that does goes on, and the daemon has not found it.
LEMMA Inserted ==
  ASSUME Typed, NEW p \in Dispatchers, InsertsRow(p)
  PROVE  /\ proc' \in [Everyone -> Process]
         /\ proc'[p].at = "dispatching" /\ proc'[p].session = proc[p].session
         /\ proc'[Daemon].at = proc[Daemon].at /\ proc'[Daemon].session = proc[Daemon].session
         /\ proc'[Daemon].bound = proc[Daemon].bound \ {p}
         /\ \A q \in Everyone \ {p, Daemon} : proc'[q] = proc[q]
         /\ rows' \in [Dispatchers -> Assignment]
         /\ rows'[p].session = proc[p].session /\ rows'[p].state = "assigned" /\ rows'[p].due = "null"
         /\ \A o \in Dispatchers \ {p} : rows'[o] = rows[o]
<1>1. p \in Everyone /\ Daemon \in Everyone /\ p # Daemon
  BY ProcsAssumption DEF Everyone
<1>2. PICK r \in Process, d \in Process : r = proc[p] /\ d = proc[Daemon]
  BY <1>1 DEF Typed, TypeOK
<1>3. DEFINE r2 == [r EXCEPT !.at = "dispatching"]
             d2 == [d EXCEPT !.bound = @ \ {p}]
<1>4. r2 \in Process /\ d2 \in Process
  BY DEF Process, Places, Middle
<1>5. /\ r2.at = "dispatching" /\ r2.session = r.session
      /\ d2.at = d.at /\ d2.session = d.session /\ d2.bound = d.bound \ {p}
  BY DEF Process
<1>6. proc' = [proc EXCEPT ![p] = r2, ![Daemon] = d2]
  BY <1>1, <1>2 DEF InsertsRow
<1>7. proc[p].session \in Sessions
  BY <1>1 DEF InsertsRow, Runs, Typed, Given, GivenProc
<1>8. /\ rows' \in [Dispatchers -> Assignment]
      /\ rows'[p].session = proc[p].session /\ rows'[p].state = "assigned" /\ rows'[p].due = "null"
      /\ \A o \in Dispatchers \ {p} : rows'[o] = rows[o]
  BY <1>7 DEF InsertsRow, Typed, TypeOK, Assignment
<1>9. proc \in [Everyone -> Process]
  BY DEF Typed, TypeOK
<1>10. proc' \in [Everyone -> Process]
  BY <1>4, <1>6, <1>9, <1>1
<1>11. proc'[p] = r2 /\ proc'[Daemon] = d2 /\ \A q \in Everyone \ {p, Daemon} : proc'[q] = proc[q]
  BY <1>1, <1>6, <1>9
<1>12. QED
  BY <1>2, <1>5, <1>8, <1>10, <1>11

\* The task has one active row at most, but in the middle of a dispatch or an end.
LEMMA OneActive ==
  ASSUME Inv, ~torn, status \in {"dispatched", "in_progress"},
         \A q \in Procs : proc[q].at \notin {"inserting", "dispatching"}
  PROVE  One
<1>1. CASE Whole
  BY <1>1 DEF Inv, Consistent, Fits
<1>2. CASE ~Whole
  <2>1. PICK q \in Everyone : proc[q].at \in Middle
    BY <1>2 DEF Whole
  <2>2. StageOf(q) /\ GivenProc(q)
    BY DEF Inv, Consistent, Stage, Typed, Given
  <2>3. proc[q].at \notin {"inserting", "dispatching"}
    BY <2>2 DEF GivenProc, Everyone
  <2>4. QED
    BY <2>1, <2>2, <2>3 DEF StageOf, Runs, Middle, Terminal
<1>3. QED
  BY <1>1, <1>2

\* Every step keeps the invariant.
LEMMA InvStep ==
  ASSUME Inv, [Next]_vars
  PROVE  Inv'
<1>1. ASSUME NEW p \in Procs, NEW s \in Sessions, DispatchTask(p, s)
      PROVE  Inv'
  <2>1. proc \in [Everyone -> Process] /\ rows \in [Dispatchers -> Assignment] /\ Daemon \in Everyone
    BY DEF Inv, Typed, TypeOK, Everyone
  <2>2. /\ proc' \in [Everyone -> Process]
        /\ proc'[p].at = (IF status = "blocked" THEN "resuming" ELSE "superseding") /\ proc'[p].session = s /\ proc'[p].bound = {}
        /\ \A q \in Everyone \ {p} : proc'[q] = proc[q]
    <3> DEFINE r == [at |-> (IF status = "blocked" THEN "resuming" ELSE "superseding"), session |-> s, bound |-> {}]
    <3>1. r \in Process /\ p \in Everyone
      BY <1>1, <2>1 DEF Process, Places, First, Everyone
    <3>2. proc' = [proc EXCEPT ![p] = r]
      BY <1>1, <2>1 DEF DispatchTask
    <3>3. r.at = (IF status = "blocked" THEN "resuming" ELSE "superseding") /\ r.session = s /\ r.bound = {}
      OBVIOUS
    <3> HIDE DEF r
    <3>4. QED
      BY <1>1, <2>1, <3>1, <3>2, <3>3, Begins
  <2>3. /\ proc[p].at = "idle" /\ p \in Dispatchers
        /\ status' = status
        /\ rows' = rows
        /\ prompts' = prompts
        /\ recovery' = recovery
        /\ torn' = torn
        /\ forgotten' = forgotten
    BY <1>1 DEF DispatchTask, tables, stream, Runs, WritesTask, Tears, Renews, Between, Terminal
  <2>4. TypeOK'
    BY <2>1, <2>2, <2>3 DEF Inv, Typed, TypeOK, Given, GivenRow, GivenProc, Everyone, Statuses, Active, Terminal
  <2>5. Given'
    <3>1. ASSUME NEW q \in Dispatchers PROVE GivenRow(q)'
      BY <2>1, <2>2, <2>3 DEF Inv, Typed, Given, GivenRow, GivenProc, ActiveRow, Everyone
    <3>2. ASSUME NEW q \in Everyone PROVE GivenProc(q)'
      BY <2>1, <2>2, <2>3, ProcsAssumption, SessionsAssumption DEF Inv, Typed, Given, GivenProc, Everyone
    <3>3. GivenBound'
      BY <2>1, <2>2, <2>3, ProcsAssumption DEF Inv, Typed, TypeOK, Given, GivenBound, GivenProc, ActiveRow, Everyone, Process
    <3>4. QED
      BY <3>1, <3>2, <3>3 DEF Given
  <2>6. Consistent'
    <3>1. SUFFICES ASSUME ~torn'
                   PROVE  Solo' /\ Stage' /\ (Whole' => Fits') /\ Careful'
      BY DEF Consistent
    <3>2. ~torn /\ Solo /\ Stage /\ Careful /\ (Whole => Fits)
      BY <2>1, <2>2, <2>3, <3>1 DEF Inv, Consistent
    <3>3. Solo'
      BY <2>1, <2>2, <2>3, <3>1, <3>2 DEF Solo, Middle
    <3>4. Stage'
      <4>1. SUFFICES ASSUME NEW q \in Everyone PROVE StageOf(q)'
        BY DEF Stage
      <4>2. CASE q = p
        BY <2>1, <2>2, <2>3, <3>1, <3>2, <4>2, ProcsAssumption DEF Inv, Typed, Given, GivenRow, GivenProc, Stage, StageOf, Over, One, Waits, Whole, Fits, Middle, Runs, ActiveRow, Active, Terminal, Everyone
      <4>3. CASE q # p
        <5>1. StageOf(q) /\ proc'[q] = proc[q]
          BY <2>1, <2>2, <2>3, <3>2, <4>3 DEF Stage
        <5>2. QED
          BY <2>1, <2>2, <2>3, <5>1, ProcsAssumption DEF StageOf, Over, One, Waits, Runs, ActiveRow, Everyone
      <4>4. QED
        BY <4>2, <4>3
    <3>5. Whole' => Fits'
      BY <2>1, <2>2, <2>3, <3>1, <3>2, ProcsAssumption DEF Inv, Typed, Given, GivenRow, GivenProc, Solo, Stage, StageOf, Over, One, Waits, Whole, Fits, Middle, Runs, ActiveRow, Active, Terminal, Everyone
    <3>6. Careful'
      BY <2>1, <2>2, <2>3, <3>1, <3>2, ProcsAssumption DEF Inv, Typed, Given, GivenRow, GivenProc, Stage, StageOf, Careful, Runs, Everyone, Terminal, Active, Middle
    <3>7. QED
      BY <3>3, <3>4, <3>5, <3>6
  <2>7. Kept'
    <3>1. SUFFICES ASSUME ~torn', ~forgotten', status' \in {"dispatched", "in_progress"},
                          \A q \in Procs : proc'[q].at \notin {"inserting", "dispatching"},
                          NEW r \in Dispatchers, ActiveRow(r)'
                   PROVE  \/ LookedAfter(r)'
                          \/ rows'[r].state = "blocked" /\ \E q \in Everyone : proc'[q].at \in {"resumingRows", "reportingRows"}
      BY DEF Kept
    <3>2. QED
      BY <2>1, <2>2, <2>3, <3>1, <2>6, ProcsAssumption DEF Inv, Typed, Given, GivenRow, GivenProc, GivenBound, Consistent, Solo, Kept, LookedAfter, Stage, StageOf, Over, One, Waits, Whole, Fits, Middle, Runs, ActiveRow, Active, Terminal, Everyone
  <2>8. QED
    BY <2>4, <2>5, <2>6, <2>7 DEF Inv, Typed
<1>2. ASSUME NEW p \in Procs, NEW at \in {"reporting", "blocking", "ending"}, NEW s \in Sessions \cup {NoSession}, Checks(p, at, s)
      PROVE  Inv'
  <2>1. proc \in [Everyone -> Process] /\ rows \in [Dispatchers -> Assignment] /\ Daemon \in Everyone
    BY DEF Inv, Typed, TypeOK, Everyone
  <2>2. /\ proc' \in [Everyone -> Process]
        /\ proc'[p].at = at /\ proc'[p].session = s /\ proc'[p].bound = {}
        /\ \A q \in Everyone \ {p} : proc'[q] = proc[q]
    <3> DEFINE r == [at |-> at, session |-> s, bound |-> {}]
    <3>1. r \in Process /\ p \in Everyone
      BY <1>2, <2>1 DEF Process, Places, First, Everyone
    <3>2. proc' = [proc EXCEPT ![p] = r]
      BY <1>2, <2>1 DEF Checks
    <3>3. r.at = at /\ r.session = s /\ r.bound = {}
      OBVIOUS
    <3> HIDE DEF r
    <3>4. QED
      BY <1>2, <2>1, <3>1, <3>2, <3>3, Begins
  <2>3. /\ proc[p].at = "idle" /\ status \notin Terminal
        /\ status' = status
        /\ rows' = rows
        /\ prompts' = prompts
        /\ recovery' = recovery
        /\ torn' = torn
        /\ forgotten' = forgotten
    BY <1>2 DEF Checks, tables, stream, Runs, WritesTask, Tears, Renews, Between, Terminal
  <2>4. TypeOK'
    BY <2>1, <2>2, <2>3 DEF Inv, Typed, TypeOK, Given, GivenRow, GivenProc, Everyone, Statuses, Active, Terminal
  <2>5. Given'
    <3>1. ASSUME NEW q \in Dispatchers PROVE GivenRow(q)'
      BY <2>1, <2>2, <2>3 DEF Inv, Typed, Given, GivenRow, GivenProc, ActiveRow, Everyone
    <3>2. ASSUME NEW q \in Everyone PROVE GivenProc(q)'
      BY <2>1, <2>2, <2>3, ProcsAssumption, SessionsAssumption DEF Inv, Typed, Given, GivenProc, Everyone
    <3>3. GivenBound'
      BY <2>1, <2>2, <2>3, ProcsAssumption DEF Inv, Typed, TypeOK, Given, GivenBound, GivenProc, ActiveRow, Everyone, Process
    <3>4. QED
      BY <3>1, <3>2, <3>3 DEF Given
  <2>6. Consistent'
    <3>1. SUFFICES ASSUME ~torn'
                   PROVE  Solo' /\ Stage' /\ (Whole' => Fits') /\ Careful'
      BY DEF Consistent
    <3>2. ~torn /\ Solo /\ Stage /\ Careful /\ (Whole => Fits)
      BY <2>1, <2>2, <2>3, <3>1 DEF Inv, Consistent
    <3>3. Solo'
      BY <2>1, <2>2, <2>3, <3>1, <3>2 DEF Solo, Middle
    <3>4. Stage'
      <4>1. SUFFICES ASSUME NEW q \in Everyone PROVE StageOf(q)'
        BY DEF Stage
      <4>2. CASE q = p
        BY <2>1, <2>2, <2>3, <3>1, <3>2, <4>2, ProcsAssumption DEF Inv, Typed, Given, GivenRow, GivenProc, Stage, StageOf, Over, One, Waits, Whole, Fits, Middle, Runs, ActiveRow, Active, Terminal, Everyone
      <4>3. CASE q # p
        <5>1. StageOf(q) /\ proc'[q] = proc[q]
          BY <2>1, <2>2, <2>3, <3>2, <4>3 DEF Stage
        <5>2. QED
          BY <2>1, <2>2, <2>3, <5>1, ProcsAssumption DEF StageOf, Over, One, Waits, Runs, ActiveRow, Everyone
      <4>4. QED
        BY <4>2, <4>3
    <3>5. Whole' => Fits'
      BY <2>1, <2>2, <2>3, <3>1, <3>2, ProcsAssumption DEF Inv, Typed, Given, GivenRow, GivenProc, Solo, Stage, StageOf, Over, One, Waits, Whole, Fits, Middle, Runs, ActiveRow, Active, Terminal, Everyone
    <3>6. Careful'
      BY <2>1, <2>2, <2>3, <3>1, <3>2, ProcsAssumption DEF Inv, Typed, Given, GivenRow, GivenProc, Stage, StageOf, Careful, Runs, Everyone, Terminal, Active, Middle
    <3>7. QED
      BY <3>3, <3>4, <3>5, <3>6
  <2>7. Kept'
    <3>1. SUFFICES ASSUME ~torn', ~forgotten', status' \in {"dispatched", "in_progress"},
                          \A q \in Procs : proc'[q].at \notin {"inserting", "dispatching"},
                          NEW r \in Dispatchers, ActiveRow(r)'
                   PROVE  \/ LookedAfter(r)'
                          \/ rows'[r].state = "blocked" /\ \E q \in Everyone : proc'[q].at \in {"resumingRows", "reportingRows"}
      BY DEF Kept
    <3>2. QED
      BY <2>1, <2>2, <2>3, <3>1, <2>6, ProcsAssumption DEF Inv, Typed, Given, GivenRow, GivenProc, GivenBound, Consistent, Solo, Kept, LookedAfter, Stage, StageOf, Over, One, Waits, Whole, Fits, Middle, Runs, ActiveRow, Active, Terminal, Everyone
  <2>8. QED
    BY <2>4, <2>5, <2>6, <2>7 DEF Inv, Typed
<1>3. ASSUME NEW p \in Procs, CommentTask(p)
      PROVE  Inv'
  <2>1. proc \in [Everyone -> Process] /\ rows \in [Dispatchers -> Assignment] /\ Daemon \in Everyone
    BY DEF Inv, Typed, TypeOK, Everyone
  <2>2. /\ proc' \in [Everyone -> Process]
        /\ proc'[p].at = "resuming" /\ proc'[p].session = proc[p].session
        /\ proc'[p].bound = proc[p].bound
        /\ \A q \in Everyone \ {p} : proc'[q] = proc[q]
    BY <1>3, <2>1, GoesTo DEF CommentTask, Places, First, Middle, Everyone
  <2>3. /\ proc[p].at = "idle"
        /\ status' = status
        /\ rows' = rows
        /\ prompts' = prompts
        /\ recovery' = recovery
        /\ torn' = torn
        /\ forgotten' = forgotten
    BY <1>3 DEF CommentTask, tables, stream, Runs, WritesTask, Tears, Renews, Between, Terminal
  <2>4. TypeOK'
    BY <2>1, <2>2, <2>3 DEF Inv, Typed, TypeOK, Given, GivenRow, GivenProc, Everyone, Statuses, Active, Terminal
  <2>5. Given'
    <3>1. ASSUME NEW q \in Dispatchers PROVE GivenRow(q)'
      BY <2>1, <2>2, <2>3 DEF Inv, Typed, Given, GivenRow, GivenProc, ActiveRow, Everyone
    <3>2. ASSUME NEW q \in Everyone PROVE GivenProc(q)'
      BY <2>1, <2>2, <2>3, ProcsAssumption, SessionsAssumption DEF Inv, Typed, Given, GivenProc, Everyone
    <3>3. GivenBound'
      BY <2>1, <2>2, <2>3, ProcsAssumption DEF Inv, Typed, TypeOK, Given, GivenBound, GivenProc, ActiveRow, Everyone, Process
    <3>4. QED
      BY <3>1, <3>2, <3>3 DEF Given
  <2>6. Consistent'
    <3>1. SUFFICES ASSUME ~torn'
                   PROVE  Solo' /\ Stage' /\ (Whole' => Fits') /\ Careful'
      BY DEF Consistent
    <3>2. ~torn /\ Solo /\ Stage /\ Careful /\ (Whole => Fits)
      BY <2>1, <2>2, <2>3, <3>1 DEF Inv, Consistent
    <3>3. Solo'
      BY <2>1, <2>2, <2>3, <3>1, <3>2 DEF Solo, Middle
    <3>4. Stage'
      <4>1. SUFFICES ASSUME NEW q \in Everyone PROVE StageOf(q)'
        BY DEF Stage
      <4>2. CASE q = p
        BY <2>1, <2>2, <2>3, <3>1, <3>2, <4>2, ProcsAssumption DEF Inv, Typed, Given, GivenRow, GivenProc, Stage, StageOf, Over, One, Waits, Whole, Fits, Middle, Runs, ActiveRow, Active, Terminal, Everyone
      <4>3. CASE q # p
        <5>1. StageOf(q) /\ proc'[q] = proc[q]
          BY <2>1, <2>2, <2>3, <3>2, <4>3 DEF Stage
        <5>2. QED
          BY <2>1, <2>2, <2>3, <5>1, ProcsAssumption DEF StageOf, Over, One, Waits, Runs, ActiveRow, Everyone
      <4>4. QED
        BY <4>2, <4>3
    <3>5. Whole' => Fits'
      BY <2>1, <2>2, <2>3, <3>1, <3>2, ProcsAssumption DEF Inv, Typed, Given, GivenRow, GivenProc, Solo, Stage, StageOf, Over, One, Waits, Whole, Fits, Middle, Runs, ActiveRow, Active, Terminal, Everyone
    <3>6. Careful'
      BY <2>1, <2>2, <2>3, <3>1, <3>2, ProcsAssumption DEF Inv, Typed, Given, GivenRow, GivenProc, Stage, StageOf, Careful, Runs, Everyone, Terminal, Active, Middle
    <3>7. QED
      BY <3>3, <3>4, <3>5, <3>6
  <2>7. Kept'
    <3>1. SUFFICES ASSUME ~torn', ~forgotten', status' \in {"dispatched", "in_progress"},
                          \A q \in Procs : proc'[q].at \notin {"inserting", "dispatching"},
                          NEW r \in Dispatchers, ActiveRow(r)'
                   PROVE  \/ LookedAfter(r)'
                          \/ rows'[r].state = "blocked" /\ \E q \in Everyone : proc'[q].at \in {"resumingRows", "reportingRows"}
      BY DEF Kept
    <3>2. QED
      BY <2>1, <2>2, <2>3, <3>1, <2>6, ProcsAssumption DEF Inv, Typed, Given, GivenRow, GivenProc, GivenBound, Consistent, Solo, Kept, LookedAfter, Stage, StageOf, Over, One, Waits, Whole, Fits, Middle, Runs, ActiveRow, Active, Terminal, Everyone
  <2>8. QED
    BY <2>4, <2>5, <2>6, <2>7 DEF Inv, Typed
<1>4. ASSUME NEW p \in Everyone, dbAutoResumeBlockedTask(p)
      PROVE  Inv'
  <2>1. proc \in [Everyone -> Process] /\ rows \in [Dispatchers -> Assignment] /\ Daemon \in Everyone
    BY DEF Inv, Typed, TypeOK, Everyone
  <2>2. /\ proc' \in [Everyone -> Process]
        /\ proc'[p].at = "resumingRows" /\ proc'[p].session = proc[p].session
        /\ proc'[p].bound = proc[p].bound
        /\ \A q \in Everyone \ {p} : proc'[q] = proc[q]
    BY <1>4, <2>1, GoesTo DEF dbAutoResumeBlockedTask, Places, First, Middle, Everyone
  <2>3. /\ proc[p].at = "resuming"
        /\ status = "blocked" => status' = "in_progress"
        /\ status # "blocked" => status' = status
        /\ rows' = rows
        /\ prompts' = prompts
        /\ recovery' = recovery
        /\ torn' = (torn \/ \E q \in Everyone \ {p} : proc[q].at \in Middle)
        /\ forgotten' = forgotten
    BY <1>4 DEF dbAutoResumeBlockedTask, tables, stream, Runs, WritesTask, Tears, Renews, Between, Terminal
  <2>4. TypeOK'
    BY <2>1, <2>2, <2>3 DEF Inv, Typed, TypeOK, Given, GivenRow, GivenProc, Everyone, Statuses, Active, Terminal
  <2>5. Given'
    <3>1. ASSUME NEW q \in Dispatchers PROVE GivenRow(q)'
      BY <2>1, <2>2, <2>3 DEF Inv, Typed, Given, GivenRow, GivenProc, ActiveRow, Everyone
    <3>2. ASSUME NEW q \in Everyone PROVE GivenProc(q)'
      BY <2>1, <2>2, <2>3, ProcsAssumption, SessionsAssumption DEF Inv, Typed, Given, GivenProc, Everyone
    <3>3. GivenBound'
      BY <2>1, <2>2, <2>3, ProcsAssumption DEF Inv, Typed, TypeOK, Given, GivenBound, GivenProc, ActiveRow, Everyone, Process
    <3>4. QED
      BY <3>1, <3>2, <3>3 DEF Given
  <2>6. Consistent'
    <3>1. SUFFICES ASSUME ~torn'
                   PROVE  Solo' /\ Stage' /\ (Whole' => Fits') /\ Careful'
      BY DEF Consistent
    <3>2. \A q \in Everyone \ {p} : proc[q].at \notin Middle /\ proc'[q].at \notin Middle
      BY <2>1, <2>2, <2>3, <3>1, ProcsAssumption DEF Middle, Everyone
    <3>3. ~torn /\ StageOf(p) /\ Careful /\ Fits
      BY <2>1, <2>2, <2>3, <3>1, <3>2 DEF Inv, Consistent, Stage, Whole, First, Middle, Everyone
    <3>4. Solo'
      BY <2>1, <2>2, <2>3, <3>1, <3>2, <3>3 DEF Solo, Middle
    <3>5. Stage'
      <4>1. SUFFICES ASSUME NEW q \in Everyone PROVE StageOf(q)'
        BY DEF Stage
      <4>2. CASE q = p
        BY <2>1, <2>2, <2>3, <3>1, <3>2, <3>3, <4>2, ProcsAssumption DEF Inv, Typed, Given, GivenRow, GivenProc, Stage, StageOf, Over, One, Waits, Whole, Fits, Middle, Runs, ActiveRow, Active, Terminal, Everyone
      <4>3. CASE q # p
        BY <2>1, <2>2, <2>3, <3>1, <3>2, <3>3, <4>3 DEF Middle, StageOf, Runs
      <4>4. QED
        BY <4>2, <4>3
    <3>6. Whole' => Fits'
      BY <2>1, <2>2, <2>3, <3>1, <3>2, <3>3, ProcsAssumption DEF Inv, Typed, Given, GivenRow, GivenProc, Solo, Stage, StageOf, Over, One, Waits, Whole, Fits, Middle, Runs, ActiveRow, Active, Terminal, Everyone
    <3>7. Careful'
      BY <2>1, <2>2, <2>3, <3>1, <3>2, <3>3, ProcsAssumption DEF Inv, Typed, Given, GivenRow, GivenProc, Stage, StageOf, Careful, Runs, Everyone, Terminal, Active, Middle
    <3>8. QED
      BY <3>4, <3>5, <3>6, <3>7
  <2>7. Kept'
    <3>1. SUFFICES ASSUME ~torn', ~forgotten', status' \in {"dispatched", "in_progress"},
                          \A q \in Procs : proc'[q].at \notin {"inserting", "dispatching"},
                          NEW r \in Dispatchers, ActiveRow(r)'
                   PROVE  \/ LookedAfter(r)'
                          \/ rows'[r].state = "blocked" /\ \E q \in Everyone : proc'[q].at \in {"resumingRows", "reportingRows"}
      BY DEF Kept
    <3>2. /\ ~torn /\ StageOf(p) /\ (Whole => Fits)
          /\ \A q \in Everyone \ {p} : proc[q].at \notin Middle /\ proc'[q].at \notin Middle
      BY <2>1, <2>2, <2>3, <3>1, ProcsAssumption DEF Inv, Consistent, Stage, Everyone
    <3>3. (/\ ~forgotten /\ status \in {"dispatched", "in_progress"}
           /\ \A q \in Procs : proc[q].at \notin {"inserting", "dispatching"}) =>
             (ActiveRow(r) => \/ LookedAfter(r)
                              \/ rows[r].state = "blocked" /\ \E q \in Everyone : proc[q].at \in {"resumingRows", "reportingRows"})
      BY <3>2 DEF Inv, Kept
    <3>4. Fits
      BY <2>1, <2>2, <2>3, <3>2 DEF Whole, Middle
    <3>5. \A q \in Procs : proc[q].at \notin {"inserting", "dispatching"}
      BY <2>1, <2>2, <2>3, <3>2 DEF Middle, Everyone
    <3>6. QED
      BY <2>1, <2>2, <2>3, <3>1, <3>2, <3>3, <3>4, <3>5, ProcsAssumption DEF Fits, One, Over, Inv, Typed, Given, GivenRow, GivenProc, LookedAfter, Runs, ActiveRow, Everyone, Active, Terminal, Middle
  <2>8. QED
    BY <2>4, <2>5, <2>6, <2>7 DEF Inv, Typed
<1>5. ASSUME NEW p \in Everyone, ResumesRows(p)
      PROVE  Inv'
  <2>1. proc \in [Everyone -> Process] /\ rows \in [Dispatchers -> Assignment] /\ Daemon \in Everyone
    BY DEF Inv, Typed, TypeOK, Everyone
  <2>2. /\ proc' \in [Everyone -> Process]
        /\ \/ /\ p \in Dispatchers /\ proc[p].session \in Sessions
              /\ proc'[p].at = "superseding" /\ proc'[p].session = proc[p].session
              /\ proc'[p].bound = proc[p].bound
           \/ ~(p \in Procs /\ proc[p].session \in Sessions) /\ proc'[p].at = "idle" /\ proc'[p].session = NoSession /\ proc'[p].bound = {}
        /\ \A q \in Everyone \ {p} : proc'[q] = proc[q]
    <3>1. CASE p \in Procs /\ proc[p].session \in Sessions
      BY <1>5, <2>1, <3>1, GoesTo DEF ResumesRows, Places, First, Runs, Inv, Typed, Given, GivenProc, Everyone
    <3>2. CASE ~(p \in Procs /\ proc[p].session \in Sessions)
      BY <1>5, <2>1, <3>2, EndsIdle DEF ResumesRows
    <3>3. QED
      BY <3>1, <3>2
  <2>3. /\ rows' \in [Dispatchers -> Assignment]
        /\ \A o \in Dispatchers :
             /\ rows'[o].session = rows[o].session
             /\ rows[o].state = "blocked" => rows'[o].state = "accepted" /\ rows'[o].due = "ahead"
             /\ rows[o].state # "blocked" => rows'[o] = rows[o]
    BY <1>5, <2>1, AcceptedRow DEF ResumesRows
  <2>4. /\ proc[p].at = "resumingRows"
        /\ status' = status
        /\ prompts' = prompts
        /\ recovery' = recovery
        /\ torn' = (torn \/ \E q \in Everyone \ {p} : proc[q].at \in Middle)
        /\ forgotten' = (forgotten /\ \A o \in Dispatchers : rows[o].state # "blocked")
    BY <1>5 DEF ResumesRows, tables, stream, Runs, WritesTask, Tears, Renews, Between, Terminal
  <2>5. TypeOK'
    BY <2>1, <2>2, <2>3, <2>4 DEF Inv, Typed, TypeOK, Given, GivenRow, GivenProc, Everyone, Statuses, Active, Terminal
  <2>6. Given'
    <3>1. ASSUME NEW q \in Dispatchers PROVE GivenRow(q)'
      BY <2>1, <2>2, <2>3, <2>4 DEF Inv, Typed, Given, GivenRow, GivenProc, ActiveRow, Everyone
    <3>2. ASSUME NEW q \in Everyone PROVE GivenProc(q)'
      BY <2>1, <2>2, <2>3, <2>4, ProcsAssumption, SessionsAssumption DEF Inv, Typed, Given, GivenProc, Everyone
    <3>3. GivenBound'
      BY <2>1, <2>2, <2>3, <2>4, ProcsAssumption DEF Inv, Typed, TypeOK, Given, GivenBound, GivenProc, ActiveRow, Everyone, Process
    <3>4. QED
      BY <3>1, <3>2, <3>3 DEF Given
  <2>7. Consistent'
    <3>1. SUFFICES ASSUME ~torn'
                   PROVE  Solo' /\ Stage' /\ (Whole' => Fits') /\ Careful'
      BY DEF Consistent
    <3>2. \A q \in Everyone \ {p} : proc[q].at \notin Middle /\ proc'[q].at \notin Middle
      BY <2>1, <2>2, <2>3, <2>4, <3>1, ProcsAssumption DEF Middle, Everyone
    <3>3. ~torn /\ StageOf(p) /\ Careful
      BY <2>1, <2>2, <2>3, <2>4, <3>1, <3>2 DEF Inv, Consistent, Stage, Whole, First, Middle, Everyone
    <3>4. Solo'
      BY <2>1, <2>2, <2>3, <2>4, <3>1, <3>2, <3>3 DEF Solo, Middle
    <3>5. Stage'
      <4>1. SUFFICES ASSUME NEW q \in Everyone PROVE StageOf(q)'
        BY DEF Stage
      <4>2. CASE q = p
        BY <2>1, <2>2, <2>3, <2>4, <3>1, <3>2, <3>3, <4>2, ProcsAssumption DEF Inv, Typed, Given, GivenRow, GivenProc, Stage, StageOf, Over, One, Waits, Whole, Fits, Middle, Runs, ActiveRow, Active, Terminal, Everyone
      <4>3. CASE q # p
        BY <2>1, <2>2, <2>3, <2>4, <3>1, <3>2, <3>3, <4>3 DEF Middle, StageOf, Runs
      <4>4. QED
        BY <4>2, <4>3
    <3>6. Whole' => Fits'
      BY <2>1, <2>2, <2>3, <2>4, <3>1, <3>2, <3>3, ProcsAssumption DEF Inv, Typed, Given, GivenRow, GivenProc, Solo, Stage, StageOf, Over, One, Waits, Whole, Fits, Middle, Runs, ActiveRow, Active, Terminal, Everyone
    <3>7. Careful'
      BY <2>1, <2>2, <2>3, <2>4, <3>1, <3>2, <3>3, ProcsAssumption DEF Inv, Typed, Given, GivenRow, GivenProc, Stage, StageOf, Careful, Runs, Everyone, Terminal, Active, Middle
    <3>8. QED
      BY <3>4, <3>5, <3>6, <3>7
  <2>8. Kept'
    <3>1. SUFFICES ASSUME ~torn', ~forgotten', status' \in {"dispatched", "in_progress"},
                          \A q \in Procs : proc'[q].at \notin {"inserting", "dispatching"},
                          NEW r \in Dispatchers, ActiveRow(r)'
                   PROVE  \/ LookedAfter(r)'
                          \/ rows'[r].state = "blocked" /\ \E q \in Everyone : proc'[q].at \in {"resumingRows", "reportingRows"}
      BY DEF Kept
    <3>2. /\ ~torn /\ StageOf(p) /\ (Whole => Fits)
          /\ \A q \in Everyone \ {p} : proc[q].at \notin Middle /\ proc'[q].at \notin Middle
      BY <2>1, <2>2, <2>3, <2>4, <3>1, ProcsAssumption DEF Inv, Consistent, Stage, Everyone
    <3>3. (/\ ~forgotten /\ status \in {"dispatched", "in_progress"}
           /\ \A q \in Procs : proc[q].at \notin {"inserting", "dispatching"}) =>
             (ActiveRow(r) => \/ LookedAfter(r)
                              \/ rows[r].state = "blocked" /\ \E q \in Everyone : proc[q].at \in {"resumingRows", "reportingRows"})
      BY <3>2 DEF Inv, Kept
    <3>4. CASE rows[r].state = "blocked"
      BY <2>1, <2>2, <2>3, <2>4, <3>4 DEF LookedAfter
    <3>5. CASE rows[r].state # "blocked"
      <4>1. rows'[r] = rows[r] /\ ActiveRow(r)
        BY <2>1, <2>2, <2>3, <2>4, <3>1, <3>5 DEF ActiveRow
      <4>2. ~forgotten
        BY <2>1, <2>2, <2>3, <2>4, <3>1, <3>2, <3>5, <4>1 DEF StageOf, One, Runs, ActiveRow
      <4>3. \A q \in Procs : proc[q].at \notin {"inserting", "dispatching"}
        BY <2>1, <2>2, <2>3, <2>4, <3>2 DEF Middle, Everyone
      <4>4. LookedAfter(r)
        BY <2>1, <2>2, <2>3, <2>4, <3>1, <3>3, <3>5, <4>1, <4>2, <4>3
      <4>5. QED
        BY <2>1, <2>2, <2>3, <2>4, <4>1, <4>4, ProcsAssumption DEF LookedAfter, Runs, Everyone
    <3>6. QED
      BY <3>4, <3>5
  <2>9. QED
    BY <2>5, <2>6, <2>7, <2>8 DEF Inv, Typed
<1>6. ASSUME NEW p \in Procs, dbDispatchTask(p)
      PROVE  Inv'
  <2>1. proc \in [Everyone -> Process] /\ rows \in [Dispatchers -> Assignment] /\ Daemon \in Everyone
    BY DEF Inv, Typed, TypeOK, Everyone
  <2>2. /\ proc' \in [Everyone -> Process]
        /\ proc'[p].at = "inserting" /\ proc'[p].session = proc[p].session
        /\ proc'[p].bound = proc[p].bound
        /\ \A q \in Everyone \ {p} : proc'[q] = proc[q]
    BY <1>6, <2>1, GoesTo DEF dbDispatchTask, Places, First, Middle, Everyone
  <2>3. rows' \in [Dispatchers -> Assignment] /\ \A o \in Dispatchers : rows'[o].state = "none" /\ rows'[o].due = "null"
    BY <1>6 DEF dbDispatchTask, NoRow, Assignment
  <2>4. /\ proc[p].at = "superseding"
        /\ status' = status
        /\ prompts' = prompts
        /\ recovery' = recovery
        /\ torn' = (\E q \in Everyone \ {p} : proc[q].at \in Middle)
        /\ forgotten' = forgotten
    BY <1>6 DEF dbDispatchTask, tables, stream, Runs, WritesTask, Tears, Renews, Between, Terminal
  <2>5. TypeOK'
    BY <2>1, <2>2, <2>3, <2>4 DEF Inv, Typed, TypeOK, Given, GivenRow, GivenProc, Everyone, Statuses, Active, Terminal
  <2>6. Given'
    <3>1. ASSUME NEW q \in Dispatchers PROVE GivenRow(q)'
      BY <2>1, <2>2, <2>3, <2>4 DEF Inv, Typed, Given, GivenRow, GivenProc, ActiveRow, Everyone
    <3>2. ASSUME NEW q \in Everyone PROVE GivenProc(q)'
      BY <2>1, <2>2, <2>3, <2>4, ProcsAssumption, SessionsAssumption DEF Inv, Typed, Given, GivenProc, Everyone
    <3>3. GivenBound'
      BY <2>1, <2>2, <2>3, <2>4, ProcsAssumption DEF Inv, Typed, TypeOK, Given, GivenBound, GivenProc, ActiveRow, Everyone, Process
    <3>4. QED
      BY <3>1, <3>2, <3>3 DEF Given
  <2>7. Consistent'
    <3>1. SUFFICES ASSUME ~torn'
                   PROVE  Solo' /\ Stage' /\ (Whole' => Fits') /\ Careful'
      BY DEF Consistent
    <3>2. \A q \in Everyone \ {p} : proc[q].at \notin Middle /\ proc'[q].at \notin Middle
      BY <2>1, <2>2, <2>3, <2>4, <3>1, ProcsAssumption DEF Middle, Everyone
    <3>3. Solo'
      BY <2>1, <2>2, <2>3, <2>4, <3>1, <3>2 DEF Solo, Middle
    <3>4. Stage'
      <4>1. SUFFICES ASSUME NEW q \in Everyone PROVE StageOf(q)'
        BY DEF Stage
      <4>2. CASE q = p
        BY <2>1, <2>2, <2>3, <2>4, <3>1, <3>2, <4>2, ProcsAssumption DEF Inv, Typed, Given, GivenRow, GivenProc, Consistent, Stage, StageOf, Over, One, Waits, Whole, Fits, Middle, Runs, ActiveRow, Active, Terminal, Everyone
      <4>3. CASE q # p
        BY <2>1, <2>2, <2>3, <2>4, <3>1, <3>2, <4>3 DEF Middle, StageOf, Runs
      <4>4. QED
        BY <4>2, <4>3
    <3>5. Whole' => Fits'
      BY <2>1, <2>2, <2>3, <2>4, <3>1, <3>2, ProcsAssumption DEF Inv, Typed, Given, GivenRow, GivenProc, Consistent, Solo, Stage, StageOf, Over, One, Waits, Whole, Fits, Middle, Runs, ActiveRow, Active, Terminal, Everyone
    <3>6. Careful'
      BY <2>1, <2>2, <2>3, <2>4, <3>1, <3>2, ProcsAssumption DEF Inv, Typed, Given, GivenRow, GivenProc, Consistent, Stage, StageOf, Careful, Runs, Everyone, Terminal, Active, Middle
    <3>7. QED
      BY <3>3, <3>4, <3>5, <3>6
  <2>8. Kept'
    <3>1. SUFFICES ASSUME ~torn', ~forgotten', status' \in {"dispatched", "in_progress"},
                          \A q \in Procs : proc'[q].at \notin {"inserting", "dispatching"},
                          NEW r \in Dispatchers, ActiveRow(r)'
                   PROVE  \/ LookedAfter(r)'
                          \/ rows'[r].state = "blocked" /\ \E q \in Everyone : proc'[q].at \in {"resumingRows", "reportingRows"}
      BY DEF Kept
    <3>2. QED
      BY <2>1, <2>2, <2>3, <2>4, <3>1, <2>7, ProcsAssumption DEF Inv, Typed, Given, GivenRow, GivenProc, GivenBound, Consistent, Solo, Kept, LookedAfter, Stage, StageOf, Over, One, Waits, Whole, Fits, Middle, Runs, ActiveRow, Active, Terminal, Everyone
  <2>9. QED
    BY <2>5, <2>6, <2>7, <2>8 DEF Inv, Typed
<1>7. ASSUME NEW p \in Procs, InsertsRow(p)
      PROVE  Inv'
  <2>1. proc \in [Everyone -> Process] /\ rows \in [Dispatchers -> Assignment] /\ Daemon \in Everyone
    BY DEF Inv, Typed, TypeOK, Everyone
  <2>2. p \in Dispatchers
    BY <1>7, <2>1 DEF InsertsRow, Runs, Everyone, Inv, Typed, Given, GivenProc
  <2>3. /\ proc' \in [Everyone -> Process]
        /\ proc'[p].at = "dispatching" /\ proc'[p].session = proc[p].session
        /\ proc'[Daemon].at = proc[Daemon].at /\ proc'[Daemon].session = proc[Daemon].session
        /\ proc'[Daemon].bound = proc[Daemon].bound \ {p}
        /\ \A q \in Everyone \ {p, Daemon} : proc'[q] = proc[q]
        /\ rows' \in [Dispatchers -> Assignment]
        /\ rows'[p].session = proc[p].session /\ rows'[p].state = "assigned" /\ rows'[p].due = "null"
        /\ \A o \in Dispatchers \ {p} : rows'[o] = rows[o]
    BY <1>7, <2>1, <2>2, Inserted DEF Inv
  <2>4. /\ proc[p].at = "inserting"
        /\ status' = status
        /\ prompts' = prompts
        /\ recovery' = recovery
        /\ torn' = (torn \/ \E q \in Everyone \ {p} : proc[q].at \in Middle)
        /\ forgotten' = forgotten
    BY <1>7 DEF InsertsRow, tables, stream, Runs, WritesTask, Tears, Renews, Between, Terminal
  <2>5. TypeOK'
    BY <2>1, <2>2, <2>3, <2>4 DEF Inv, Typed, TypeOK, Given, GivenRow, GivenProc, Everyone, Statuses, Active, Terminal
  <2>6. Given'
    <3>1. ASSUME NEW q \in Dispatchers PROVE GivenRow(q)'
      BY <2>1, <2>2, <2>3, <2>4 DEF Inv, Typed, Given, GivenRow, GivenProc, ActiveRow, Everyone
    <3>2. ASSUME NEW q \in Everyone PROVE GivenProc(q)'
      BY <2>1, <2>2, <2>3, <2>4, ProcsAssumption, SessionsAssumption DEF Inv, Typed, Given, GivenProc, Everyone
    <3>3. GivenBound'
      BY <2>1, <2>2, <2>3, <2>4, ProcsAssumption DEF Inv, Typed, TypeOK, Given, GivenBound, GivenProc, ActiveRow, Everyone, Process
    <3>4. QED
      BY <3>1, <3>2, <3>3 DEF Given
  <2>7. Consistent'
    <3>1. SUFFICES ASSUME ~torn'
                   PROVE  Solo' /\ Stage' /\ (Whole' => Fits') /\ Careful'
      BY DEF Consistent
    <3>2. \A q \in Everyone \ {p} : proc[q].at \notin Middle /\ proc'[q].at \notin Middle
      BY <2>1, <2>2, <2>3, <2>4, <3>1, ProcsAssumption DEF Middle, Everyone
    <3>3. ~torn /\ StageOf(p) /\ Careful
      BY <2>1, <2>2, <2>3, <2>4, <3>1, <3>2 DEF Inv, Consistent, Stage, Whole, First, Middle, Everyone
    <3>4. Solo'
      BY <2>1, <2>2, <2>3, <2>4, <3>1, <3>2, <3>3 DEF Solo, Middle
    <3>5. Stage'
      <4>1. SUFFICES ASSUME NEW q \in Everyone PROVE StageOf(q)'
        BY DEF Stage
      <4>2. CASE q = p
        BY <2>1, <2>2, <2>3, <2>4, <3>1, <3>2, <3>3, <4>2, ProcsAssumption DEF Inv, Typed, Given, GivenRow, GivenProc, Stage, StageOf, Over, One, Waits, Whole, Fits, Middle, Runs, ActiveRow, Active, Terminal, Everyone
      <4>3. CASE q # p
        BY <2>1, <2>2, <2>3, <2>4, <3>1, <3>2, <3>3, <4>3 DEF Middle, StageOf, Runs
      <4>4. QED
        BY <4>2, <4>3
    <3>6. Whole' => Fits'
      BY <2>1, <2>2, <2>3, <2>4, <3>1, <3>2, <3>3, ProcsAssumption DEF Inv, Typed, Given, GivenRow, GivenProc, Solo, Stage, StageOf, Over, One, Waits, Whole, Fits, Middle, Runs, ActiveRow, Active, Terminal, Everyone
    <3>7. Careful'
      BY <2>1, <2>2, <2>3, <2>4, <3>1, <3>2, <3>3, ProcsAssumption DEF Inv, Typed, Given, GivenRow, GivenProc, Stage, StageOf, Careful, Runs, Everyone, Terminal, Active, Middle
    <3>8. QED
      BY <3>4, <3>5, <3>6, <3>7
  <2>8. Kept'
    <3>1. SUFFICES ASSUME ~torn', ~forgotten', status' \in {"dispatched", "in_progress"},
                          \A q \in Procs : proc'[q].at \notin {"inserting", "dispatching"},
                          NEW r \in Dispatchers, ActiveRow(r)'
                   PROVE  \/ LookedAfter(r)'
                          \/ rows'[r].state = "blocked" /\ \E q \in Everyone : proc'[q].at \in {"resumingRows", "reportingRows"}
      BY DEF Kept
    <3>2. QED
      BY <2>1, <2>2, <2>3, <2>4, <3>1, <2>7, ProcsAssumption DEF Inv, Typed, Given, GivenRow, GivenProc, GivenBound, Consistent, Solo, Kept, LookedAfter, Stage, StageOf, Over, One, Waits, Whole, Fits, Middle, Runs, ActiveRow, Active, Terminal, Everyone
  <2>9. QED
    BY <2>5, <2>6, <2>7, <2>8 DEF Inv, Typed
<1>8. ASSUME NEW p \in Procs, WritesDispatched(p)
      PROVE  Inv'
  <2>1. proc \in [Everyone -> Process] /\ rows \in [Dispatchers -> Assignment] /\ Daemon \in Everyone
    BY DEF Inv, Typed, TypeOK, Everyone
  <2>2. /\ proc' \in [Everyone -> Process]
        /\ proc'[p].at = "publishing" /\ proc'[p].session = proc[p].session
        /\ proc'[p].bound = proc[p].bound
        /\ \A q \in Everyone \ {p} : proc'[q] = proc[q]
    BY <1>8, <2>1, GoesTo DEF WritesDispatched, Places, First, Middle, Everyone
  <2>3. /\ proc[p].at = "dispatching"
        /\ status' = "dispatched"
        /\ rows' = rows
        /\ prompts' = prompts
        /\ recovery' = recovery
        /\ torn' = (torn \/ \E q \in Everyone \ {p} : proc[q].at \in Middle)
        /\ forgotten' = FALSE
    BY <1>8 DEF WritesDispatched, tables, stream, Runs, WritesTask, Tears, Renews, Between, Terminal
  <2>4. TypeOK'
    BY <2>1, <2>2, <2>3 DEF Inv, Typed, TypeOK, Given, GivenRow, GivenProc, Everyone, Statuses, Active, Terminal
  <2>5. Given'
    <3>1. ASSUME NEW q \in Dispatchers PROVE GivenRow(q)'
      BY <2>1, <2>2, <2>3 DEF Inv, Typed, Given, GivenRow, GivenProc, ActiveRow, Everyone
    <3>2. ASSUME NEW q \in Everyone PROVE GivenProc(q)'
      BY <2>1, <2>2, <2>3, ProcsAssumption, SessionsAssumption DEF Inv, Typed, Given, GivenProc, Everyone
    <3>3. GivenBound'
      BY <2>1, <2>2, <2>3, ProcsAssumption DEF Inv, Typed, TypeOK, Given, GivenBound, GivenProc, ActiveRow, Everyone, Process
    <3>4. QED
      BY <3>1, <3>2, <3>3 DEF Given
  <2>6. Consistent'
    <3>1. SUFFICES ASSUME ~torn'
                   PROVE  Solo' /\ Stage' /\ (Whole' => Fits') /\ Careful'
      BY DEF Consistent
    <3>2. \A q \in Everyone \ {p} : proc[q].at \notin Middle /\ proc'[q].at \notin Middle
      BY <2>1, <2>2, <2>3, <3>1, ProcsAssumption DEF Middle, Everyone
    <3>3. ~torn /\ StageOf(p) /\ Careful
      BY <2>1, <2>2, <2>3, <3>1, <3>2 DEF Inv, Consistent, Stage, Whole, First, Middle, Everyone
    <3>4. Solo'
      BY <2>1, <2>2, <2>3, <3>1, <3>2, <3>3 DEF Solo, Middle
    <3>5. Stage'
      <4>1. SUFFICES ASSUME NEW q \in Everyone PROVE StageOf(q)'
        BY DEF Stage
      <4>2. CASE q = p
        BY <2>1, <2>2, <2>3, <3>1, <3>2, <3>3, <4>2, ProcsAssumption DEF Inv, Typed, Given, GivenRow, GivenProc, Stage, StageOf, Over, One, Waits, Whole, Fits, Middle, Runs, ActiveRow, Active, Terminal, Everyone
      <4>3. CASE q # p
        BY <2>1, <2>2, <2>3, <3>1, <3>2, <3>3, <4>3 DEF Middle, StageOf, Runs
      <4>4. QED
        BY <4>2, <4>3
    <3>6. Whole' => Fits'
      BY <2>1, <2>2, <2>3, <3>1, <3>2, <3>3, ProcsAssumption DEF Inv, Typed, Given, GivenRow, GivenProc, Solo, Stage, StageOf, Over, One, Waits, Whole, Fits, Middle, Runs, ActiveRow, Active, Terminal, Everyone
    <3>7. Careful'
      BY <2>1, <2>2, <2>3, <3>1, <3>2, <3>3, ProcsAssumption DEF Inv, Typed, Given, GivenRow, GivenProc, Stage, StageOf, Careful, Runs, Everyone, Terminal, Active, Middle
    <3>8. QED
      BY <3>4, <3>5, <3>6, <3>7
  <2>7. Kept'
    <3>1. SUFFICES ASSUME ~torn', ~forgotten', status' \in {"dispatched", "in_progress"},
                          \A q \in Procs : proc'[q].at \notin {"inserting", "dispatching"},
                          NEW r \in Dispatchers, ActiveRow(r)'
                   PROVE  \/ LookedAfter(r)'
                          \/ rows'[r].state = "blocked" /\ \E q \in Everyone : proc'[q].at \in {"resumingRows", "reportingRows"}
      BY DEF Kept
    <3>2. /\ ~torn /\ StageOf(p) /\ (Whole => Fits)
          /\ \A q \in Everyone \ {p} : proc[q].at \notin Middle /\ proc'[q].at \notin Middle
      BY <2>1, <2>2, <2>3, <3>1, ProcsAssumption DEF Inv, Consistent, Stage, Everyone
    <3>3. (/\ ~forgotten /\ status \in {"dispatched", "in_progress"}
           /\ \A q \in Procs : proc[q].at \notin {"inserting", "dispatching"}) =>
             (ActiveRow(r) => \/ LookedAfter(r)
                              \/ rows[r].state = "blocked" /\ \E q \in Everyone : proc[q].at \in {"resumingRows", "reportingRows"})
      BY <3>2 DEF Inv, Kept
    <3>4. QED
      BY <2>1, <2>2, <2>3, <3>1, <3>2, <3>3, ProcsAssumption DEF StageOf, One, Over, Inv, Typed, Given, GivenRow, GivenProc, LookedAfter, Runs, ActiveRow, Everyone, Active, Terminal, Middle
  <2>8. QED
    BY <2>4, <2>5, <2>6, <2>7 DEF Inv, Typed
<1>9. ASSUME NEW p \in Procs, PublishTaskSessionPrompt(p)
      PROVE  Inv'
  <2>1. proc \in [Everyone -> Process] /\ rows \in [Dispatchers -> Assignment] /\ Daemon \in Everyone
    BY DEF Inv, Typed, TypeOK, Everyone
  <2>2. /\ proc' \in [Everyone -> Process]
        /\ proc'[p].at = "idle" /\ proc'[p].bound = {} /\ proc'[p].session = NoSession
        /\ \A q \in Everyone \ {p} : proc'[q] = proc[q]
    BY <1>9, <2>1, EndsIdle DEF PublishTaskSessionPrompt, Everyone
  <2>3. /\ proc[p].at = "publishing"
        /\ status' = status
        /\ rows' = rows
        /\ prompts' = prompts \cup {proc[p].session}
        /\ recovery' = recovery
        /\ torn' = torn
        /\ forgotten' = forgotten
    BY <1>9, <2>1 DEF PublishTaskSessionPrompt, tables, stream, Runs, WritesTask, Tears, Renews, Between, Terminal
  <2>4. TypeOK'
    BY <2>1, <2>2, <2>3 DEF Inv, Typed, TypeOK, Given, GivenRow, GivenProc, Everyone, Statuses, Active, Terminal
  <2>5. Given'
    <3>1. ASSUME NEW q \in Dispatchers PROVE GivenRow(q)'
      BY <2>1, <2>2, <2>3 DEF Inv, Typed, Given, GivenRow, GivenProc, ActiveRow, Everyone
    <3>2. ASSUME NEW q \in Everyone PROVE GivenProc(q)'
      BY <2>1, <2>2, <2>3, ProcsAssumption, SessionsAssumption DEF Inv, Typed, Given, GivenProc, Everyone
    <3>3. GivenBound'
      BY <2>1, <2>2, <2>3, ProcsAssumption DEF Inv, Typed, TypeOK, Given, GivenBound, GivenProc, ActiveRow, Everyone, Process
    <3>4. QED
      BY <3>1, <3>2, <3>3 DEF Given
  <2>6. Consistent'
    <3>1. SUFFICES ASSUME ~torn'
                   PROVE  Solo' /\ Stage' /\ (Whole' => Fits') /\ Careful'
      BY DEF Consistent
    <3>2. ~torn /\ Solo /\ Stage /\ Careful /\ (Whole => Fits)
      BY <2>1, <2>2, <2>3, <3>1 DEF Inv, Consistent
    <3>3. Solo'
      BY <2>1, <2>2, <2>3, <3>1, <3>2 DEF Solo, Middle
    <3>4. Stage'
      <4>1. SUFFICES ASSUME NEW q \in Everyone PROVE StageOf(q)'
        BY DEF Stage
      <4>2. CASE q = p
        BY <2>1, <2>2, <2>3, <3>1, <3>2, <4>2, ProcsAssumption DEF Inv, Typed, Given, GivenRow, GivenProc, Stage, StageOf, Over, One, Waits, Whole, Fits, Middle, Runs, ActiveRow, Active, Terminal, Everyone
      <4>3. CASE q # p
        <5>1. StageOf(q) /\ proc'[q] = proc[q]
          BY <2>1, <2>2, <2>3, <3>2, <4>3 DEF Stage
        <5>2. QED
          BY <2>1, <2>2, <2>3, <5>1, ProcsAssumption DEF StageOf, Over, One, Waits, Runs, ActiveRow, Everyone
      <4>4. QED
        BY <4>2, <4>3
    <3>5. Whole' => Fits'
      BY <2>1, <2>2, <2>3, <3>1, <3>2, ProcsAssumption DEF Inv, Typed, Given, GivenRow, GivenProc, Solo, Stage, StageOf, Over, One, Waits, Whole, Fits, Middle, Runs, ActiveRow, Active, Terminal, Everyone
    <3>6. Careful'
      BY <2>1, <2>2, <2>3, <3>1, <3>2, ProcsAssumption DEF Inv, Typed, Given, GivenRow, GivenProc, Stage, StageOf, Careful, Runs, Everyone, Terminal, Active, Middle
    <3>7. QED
      BY <3>3, <3>4, <3>5, <3>6
  <2>7. Kept'
    <3>1. SUFFICES ASSUME ~torn', ~forgotten', status' \in {"dispatched", "in_progress"},
                          \A q \in Procs : proc'[q].at \notin {"inserting", "dispatching"},
                          NEW r \in Dispatchers, ActiveRow(r)'
                   PROVE  \/ LookedAfter(r)'
                          \/ rows'[r].state = "blocked" /\ \E q \in Everyone : proc'[q].at \in {"resumingRows", "reportingRows"}
      BY DEF Kept
    <3>2. QED
      BY <2>1, <2>2, <2>3, <3>1, <2>6, ProcsAssumption DEF Inv, Typed, Given, GivenRow, GivenProc, GivenBound, Consistent, Solo, Kept, LookedAfter, Stage, StageOf, Over, One, Waits, Whole, Fits, Middle, Runs, ActiveRow, Active, Terminal, Everyone
  <2>8. QED
    BY <2>4, <2>5, <2>6, <2>7 DEF Inv, Typed
<1>10. ASSUME NEW p \in Procs, dbReportTaskProgress(p)
      PROVE  Inv'
  <2>1. proc \in [Everyone -> Process] /\ rows \in [Dispatchers -> Assignment] /\ Daemon \in Everyone
    BY DEF Inv, Typed, TypeOK, Everyone
  <2>2. /\ proc' \in [Everyone -> Process]
        /\ proc'[p].at = "reportingRows" /\ proc'[p].session = proc[p].session
        /\ proc'[p].bound = proc[p].bound
        /\ \A q \in Everyone \ {p} : proc'[q] = proc[q]
    BY <1>10, <2>1, GoesTo DEF dbReportTaskProgress, WritesTask, Places, First, Middle, Everyone
  <2>3. /\ proc[p].at = "reporting"
        /\ status' = "in_progress"
        /\ rows' = rows
        /\ prompts' = prompts
        /\ recovery' = recovery
        /\ torn' = (torn \/ \E q \in Everyone \ {p} : proc[q].at \in Middle)
        /\ forgotten' = forgotten
    BY <1>10 DEF dbReportTaskProgress, tables, stream, Runs, WritesTask, Tears, Renews, Between, Terminal
  <2>4. TypeOK'
    BY <2>1, <2>2, <2>3 DEF Inv, Typed, TypeOK, Given, GivenRow, GivenProc, Everyone, Statuses, Active, Terminal
  <2>5. Given'
    <3>1. ASSUME NEW q \in Dispatchers PROVE GivenRow(q)'
      BY <2>1, <2>2, <2>3 DEF Inv, Typed, Given, GivenRow, GivenProc, ActiveRow, Everyone
    <3>2. ASSUME NEW q \in Everyone PROVE GivenProc(q)'
      BY <2>1, <2>2, <2>3, ProcsAssumption, SessionsAssumption DEF Inv, Typed, Given, GivenProc, Everyone
    <3>3. GivenBound'
      BY <2>1, <2>2, <2>3, ProcsAssumption DEF Inv, Typed, TypeOK, Given, GivenBound, GivenProc, ActiveRow, Everyone, Process
    <3>4. QED
      BY <3>1, <3>2, <3>3 DEF Given
  <2>6. Consistent'
    <3>1. SUFFICES ASSUME ~torn'
                   PROVE  Solo' /\ Stage' /\ (Whole' => Fits') /\ Careful'
      BY DEF Consistent
    <3>2. \A q \in Everyone \ {p} : proc[q].at \notin Middle /\ proc'[q].at \notin Middle
      BY <2>1, <2>2, <2>3, <3>1, ProcsAssumption DEF Middle, Everyone
    <3>3. ~torn /\ StageOf(p) /\ Careful /\ Fits
      BY <2>1, <2>2, <2>3, <3>1, <3>2 DEF Inv, Consistent, Stage, Whole, First, Middle, Everyone
    <3>4. Solo'
      BY <2>1, <2>2, <2>3, <3>1, <3>2, <3>3 DEF Solo, Middle
    <3>5. Stage'
      <4>1. SUFFICES ASSUME NEW q \in Everyone PROVE StageOf(q)'
        BY DEF Stage
      <4>2. CASE q = p
        BY <2>1, <2>2, <2>3, <3>1, <3>2, <3>3, <4>2, ProcsAssumption DEF Inv, Typed, Given, GivenRow, GivenProc, Stage, StageOf, Over, One, Waits, Whole, Fits, Middle, Runs, ActiveRow, Active, Terminal, Everyone
      <4>3. CASE q # p
        BY <2>1, <2>2, <2>3, <3>1, <3>2, <3>3, <4>3 DEF Middle, StageOf, Runs
      <4>4. QED
        BY <4>2, <4>3
    <3>6. Whole' => Fits'
      BY <2>1, <2>2, <2>3, <3>1, <3>2, <3>3, ProcsAssumption DEF Inv, Typed, Given, GivenRow, GivenProc, Solo, Stage, StageOf, Over, One, Waits, Whole, Fits, Middle, Runs, ActiveRow, Active, Terminal, Everyone
    <3>7. Careful'
      BY <2>1, <2>2, <2>3, <3>1, <3>2, <3>3, ProcsAssumption DEF Inv, Typed, Given, GivenRow, GivenProc, Stage, StageOf, Careful, Runs, Everyone, Terminal, Active, Middle
    <3>8. QED
      BY <3>4, <3>5, <3>6, <3>7
  <2>7. Kept'
    <3>1. SUFFICES ASSUME ~torn', ~forgotten', status' \in {"dispatched", "in_progress"},
                          \A q \in Procs : proc'[q].at \notin {"inserting", "dispatching"},
                          NEW r \in Dispatchers, ActiveRow(r)'
                   PROVE  \/ LookedAfter(r)'
                          \/ rows'[r].state = "blocked" /\ \E q \in Everyone : proc'[q].at \in {"resumingRows", "reportingRows"}
      BY DEF Kept
    <3>2. /\ ~torn /\ StageOf(p) /\ (Whole => Fits)
          /\ \A q \in Everyone \ {p} : proc[q].at \notin Middle /\ proc'[q].at \notin Middle
      BY <2>1, <2>2, <2>3, <3>1, ProcsAssumption DEF Inv, Consistent, Stage, Everyone
    <3>3. (/\ ~forgotten /\ status \in {"dispatched", "in_progress"}
           /\ \A q \in Procs : proc[q].at \notin {"inserting", "dispatching"}) =>
             (ActiveRow(r) => \/ LookedAfter(r)
                              \/ rows[r].state = "blocked" /\ \E q \in Everyone : proc[q].at \in {"resumingRows", "reportingRows"})
      BY <3>2 DEF Inv, Kept
    <3>4. Fits
      BY <2>1, <2>2, <2>3, <3>2 DEF Whole, Middle
    <3>5. \A q \in Procs : proc[q].at \notin {"inserting", "dispatching"}
      BY <2>1, <2>2, <2>3, <3>2 DEF Middle, Everyone
    <3>6. QED
      BY <2>1, <2>2, <2>3, <3>1, <3>2, <3>3, <3>4, <3>5, ProcsAssumption DEF Fits, One, Over, Inv, Typed, Given, GivenRow, GivenProc, LookedAfter, Runs, ActiveRow, Everyone, Active, Terminal, Middle
  <2>8. QED
    BY <2>4, <2>5, <2>6, <2>7 DEF Inv, Typed
<1>11. ASSUME NEW p \in Procs, ReportsRows(p)
      PROVE  Inv'
  <2>1. proc \in [Everyone -> Process] /\ rows \in [Dispatchers -> Assignment] /\ Daemon \in Everyone
    BY DEF Inv, Typed, TypeOK, Everyone
  <2>2. /\ proc' \in [Everyone -> Process]
        /\ proc'[p].at = "idle" /\ proc'[p].bound = {} /\ proc'[p].session = NoSession
        /\ \A q \in Everyone \ {p} : proc'[q] = proc[q]
    BY <1>11, <2>1, EndsIdle DEF ReportsRows, Reported, Everyone
  <2>3. /\ rows' \in [Dispatchers -> Assignment]
        /\ \A o \in Dispatchers :
             /\ rows'[o].session = rows[o].session
             /\ o \in Reported(p) => ActiveRow(o) /\ rows'[o].state = "accepted" /\ rows'[o].due = "ahead"
             /\ o \notin Reported(p) => rows'[o] = rows[o]
    <3>1. SUFFICES ASSUME NEW o \in Dispatchers
                   PROVE  /\ rows'[o] \in Assignment /\ rows'[o].session = rows[o].session
                          /\ o \in Reported(p) => ActiveRow(o) /\ rows'[o].state = "accepted" /\ rows'[o].due = "ahead"
                          /\ o \notin Reported(p) => rows'[o] = rows[o]
      BY <1>11 DEF ReportsRows
    <3>2. PICK r \in Assignment : r = rows[o]
      BY <2>1
    <3>3. rows'[o] = IF o \in Reported(p) THEN [r EXCEPT !.state = "accepted", !.due = "ahead"] ELSE r
      BY <1>11, <3>2 DEF ReportsRows
    <3>4. [r EXCEPT !.state = "accepted", !.due = "ahead"] \in Assignment
      BY DEF Assignment
    <3>5. QED
      BY <3>2, <3>3, <3>4 DEF Assignment, Reported
  <2>4. /\ proc[p].at = "reportingRows"
        /\ status' = status
        /\ prompts' = prompts
        /\ recovery' = recovery
        /\ torn' = (torn \/ \E q \in Everyone \ {p} : proc[q].at \in Middle)
        /\ forgotten' = IF \E o \in Dispatchers \ Reported(p) : rows[o].state = "blocked" THEN TRUE ELSE forgotten /\ Reported(p) = {}
    BY <1>11, <2>1 DEF ReportsRows, tables, stream, Runs, WritesTask, Tears, Renews, Between, Terminal
  <2>5. TypeOK'
    BY <2>1, <2>2, <2>3, <2>4 DEF Inv, Typed, TypeOK, Given, GivenRow, GivenProc, Everyone, Statuses, Active, Terminal
  <2>6. Given'
    <3>1. ASSUME NEW q \in Dispatchers PROVE GivenRow(q)'
      BY <2>1, <2>2, <2>3, <2>4 DEF Inv, Typed, Given, GivenRow, GivenProc, ActiveRow, Everyone
    <3>2. ASSUME NEW q \in Everyone PROVE GivenProc(q)'
      BY <2>1, <2>2, <2>3, <2>4, ProcsAssumption, SessionsAssumption DEF Inv, Typed, Given, GivenProc, Everyone
    <3>3. GivenBound'
      BY <2>1, <2>2, <2>3, <2>4, ProcsAssumption DEF Inv, Typed, TypeOK, Given, GivenBound, GivenProc, ActiveRow, Everyone, Process
    <3>4. QED
      BY <3>1, <3>2, <3>3 DEF Given
  <2>7. Consistent'
    <3>1. SUFFICES ASSUME ~torn'
                   PROVE  Solo' /\ Stage' /\ (Whole' => Fits') /\ Careful'
      BY DEF Consistent
    <3>2. \A q \in Everyone \ {p} : proc[q].at \notin Middle /\ proc'[q].at \notin Middle
      BY <2>1, <2>2, <2>3, <2>4, <3>1, ProcsAssumption DEF Middle, Everyone
    <3>3. ~torn /\ StageOf(p) /\ Careful
      BY <2>1, <2>2, <2>3, <2>4, <3>1, <3>2 DEF Inv, Consistent, Stage, Whole, First, Middle, Everyone
    <3>4. Solo'
      BY <2>1, <2>2, <2>3, <2>4, <3>1, <3>2, <3>3 DEF Solo, Middle
    <3>5. Stage'
      <4>1. SUFFICES ASSUME NEW q \in Everyone PROVE StageOf(q)'
        BY DEF Stage
      <4>2. CASE q = p
        BY <2>1, <2>2, <2>3, <2>4, <3>1, <3>2, <3>3, <4>2, ProcsAssumption DEF Inv, Typed, Given, GivenRow, GivenProc, Stage, StageOf, Over, One, Waits, Whole, Fits, Middle, Runs, ActiveRow, Active, Terminal, Everyone
      <4>3. CASE q # p
        BY <2>1, <2>2, <2>3, <2>4, <3>1, <3>2, <3>3, <4>3 DEF Middle, StageOf, Runs
      <4>4. QED
        BY <4>2, <4>3
    <3>6. Whole' => Fits'
      BY <2>1, <2>2, <2>3, <2>4, <3>1, <3>2, <3>3, ProcsAssumption DEF Inv, Typed, Given, GivenRow, GivenProc, Solo, Stage, StageOf, Over, One, Waits, Whole, Fits, Middle, Runs, ActiveRow, Active, Terminal, Everyone
    <3>7. Careful'
      BY <2>1, <2>2, <2>3, <2>4, <3>1, <3>2, <3>3, ProcsAssumption DEF Inv, Typed, Given, GivenRow, GivenProc, Stage, StageOf, Careful, Runs, Everyone, Terminal, Active, Middle
    <3>8. QED
      BY <3>4, <3>5, <3>6, <3>7
  <2>8. Kept'
    <3>1. SUFFICES ASSUME ~torn', ~forgotten', status' \in {"dispatched", "in_progress"},
                          \A q \in Procs : proc'[q].at \notin {"inserting", "dispatching"},
                          NEW r \in Dispatchers, ActiveRow(r)'
                   PROVE  \/ LookedAfter(r)'
                          \/ rows'[r].state = "blocked" /\ \E q \in Everyone : proc'[q].at \in {"resumingRows", "reportingRows"}
      BY DEF Kept
    <3>2. /\ ~torn /\ StageOf(p) /\ (Whole => Fits)
          /\ \A q \in Everyone \ {p} : proc[q].at \notin Middle /\ proc'[q].at \notin Middle
      BY <2>1, <2>2, <2>3, <2>4, <3>1, ProcsAssumption DEF Inv, Consistent, Stage, Everyone
    <3>3. (/\ ~forgotten /\ status \in {"dispatched", "in_progress"}
           /\ \A q \in Procs : proc[q].at \notin {"inserting", "dispatching"}) =>
             (ActiveRow(r) => \/ LookedAfter(r)
                              \/ rows[r].state = "blocked" /\ \E q \in Everyone : proc[q].at \in {"resumingRows", "reportingRows"})
      BY <3>2 DEF Inv, Kept
    <3>4. CASE r \in Reported(p)
      BY <2>1, <2>2, <2>3, <2>4, <3>4 DEF LookedAfter
    <3>5. CASE r \notin Reported(p)
      <4>1. rows'[r] = rows[r] /\ ActiveRow(r)
        BY <2>1, <2>2, <2>3, <2>4, <3>1, <3>5 DEF ActiveRow
      <4>2. Reported(p) \subseteq Dispatchers
        BY DEF Reported
      <4>3. Reported(p) = {}
        BY <2>1, <2>2, <2>3, <2>4, <3>2, <3>5, <4>1, <4>2 DEF StageOf, One, Runs
      <4>4. ~forgotten /\ rows[r].state # "blocked"
        BY <2>1, <2>2, <2>3, <2>4, <3>1, <3>5, <4>3
      <4>5. \A q \in Procs : proc[q].at \notin {"inserting", "dispatching"}
        BY <2>1, <2>2, <2>3, <2>4, <3>2 DEF Middle, Everyone
      <4>6. LookedAfter(r)
        BY <2>1, <2>2, <2>3, <2>4, <3>1, <3>3, <4>1, <4>4, <4>5
      <4>7. QED
        BY <2>1, <2>2, <2>3, <2>4, <4>1, <4>6, ProcsAssumption DEF LookedAfter, Runs, Everyone
    <3>6. QED
      BY <3>4, <3>5
  <2>9. QED
    BY <2>5, <2>6, <2>7, <2>8 DEF Inv, Typed
<1>12. ASSUME NEW p \in Procs, dbBlockTask(p)
      PROVE  Inv'
  <2>1. proc \in [Everyone -> Process] /\ rows \in [Dispatchers -> Assignment] /\ Daemon \in Everyone
    BY DEF Inv, Typed, TypeOK, Everyone
  <2>2. /\ proc' \in [Everyone -> Process]
        /\ proc'[p].at = "blockingRows" /\ proc'[p].session = proc[p].session
        /\ proc'[p].bound = proc[p].bound
        /\ \A q \in Everyone \ {p} : proc'[q] = proc[q]
    BY <1>12, <2>1, GoesTo DEF dbBlockTask, WritesTask, Places, First, Middle, Everyone
  <2>3. /\ proc[p].at = "blocking"
        /\ status' = "blocked"
        /\ rows' = rows
        /\ prompts' = prompts
        /\ recovery' = recovery
        /\ torn' = (torn \/ (\E q \in Everyone \ {p} : proc[q].at \in Middle) \/ proc[Daemon].at = "accepting")
        /\ forgotten' = forgotten
    BY <1>12 DEF dbBlockTask, tables, stream, Runs, WritesTask, Tears, Renews, Between, Terminal
  <2>4. TypeOK'
    BY <2>1, <2>2, <2>3 DEF Inv, Typed, TypeOK, Given, GivenRow, GivenProc, Everyone, Statuses, Active, Terminal
  <2>5. Given'
    <3>1. ASSUME NEW q \in Dispatchers PROVE GivenRow(q)'
      BY <2>1, <2>2, <2>3 DEF Inv, Typed, Given, GivenRow, GivenProc, ActiveRow, Everyone
    <3>2. ASSUME NEW q \in Everyone PROVE GivenProc(q)'
      BY <2>1, <2>2, <2>3, ProcsAssumption, SessionsAssumption DEF Inv, Typed, Given, GivenProc, Everyone
    <3>3. GivenBound'
      BY <2>1, <2>2, <2>3, ProcsAssumption DEF Inv, Typed, TypeOK, Given, GivenBound, GivenProc, ActiveRow, Everyone, Process
    <3>4. QED
      BY <3>1, <3>2, <3>3 DEF Given
  <2>6. Consistent'
    <3>1. SUFFICES ASSUME ~torn'
                   PROVE  Solo' /\ Stage' /\ (Whole' => Fits') /\ Careful'
      BY DEF Consistent
    <3>2. \A q \in Everyone \ {p} : proc[q].at \notin Middle /\ proc'[q].at \notin Middle
      BY <2>1, <2>2, <2>3, <3>1, ProcsAssumption DEF Middle, Everyone
    <3>3. ~torn /\ StageOf(p) /\ Careful /\ Fits
      BY <2>1, <2>2, <2>3, <3>1, <3>2 DEF Inv, Consistent, Stage, Whole, First, Middle, Everyone
    <3>4. Solo'
      BY <2>1, <2>2, <2>3, <3>1, <3>2, <3>3 DEF Solo, Middle
    <3>5. Stage'
      <4>1. SUFFICES ASSUME NEW q \in Everyone PROVE StageOf(q)'
        BY DEF Stage
      <4>2. CASE q = p
        BY <2>1, <2>2, <2>3, <3>1, <3>2, <3>3, <4>2, ProcsAssumption DEF Inv, Typed, Given, GivenRow, GivenProc, Stage, StageOf, Over, One, Waits, Whole, Fits, Middle, Runs, ActiveRow, Active, Terminal, Everyone
      <4>3. CASE q # p
        BY <2>1, <2>2, <2>3, <3>1, <3>2, <3>3, <4>3 DEF Middle, StageOf, Runs
      <4>4. QED
        BY <4>2, <4>3
    <3>6. Whole' => Fits'
      BY <2>1, <2>2, <2>3, <3>1, <3>2, <3>3, ProcsAssumption DEF Inv, Typed, Given, GivenRow, GivenProc, Solo, Stage, StageOf, Over, One, Waits, Whole, Fits, Middle, Runs, ActiveRow, Active, Terminal, Everyone
    <3>7. Careful'
      BY <2>1, <2>2, <2>3, <3>1, <3>2, <3>3, ProcsAssumption DEF Inv, Typed, Given, GivenRow, GivenProc, Stage, StageOf, Careful, Runs, Everyone, Terminal, Active, Middle
    <3>8. QED
      BY <3>4, <3>5, <3>6, <3>7
  <2>7. Kept'
    <3>1. SUFFICES ASSUME ~torn', ~forgotten', status' \in {"dispatched", "in_progress"},
                          \A q \in Procs : proc'[q].at \notin {"inserting", "dispatching"},
                          NEW r \in Dispatchers, ActiveRow(r)'
                   PROVE  \/ LookedAfter(r)'
                          \/ rows'[r].state = "blocked" /\ \E q \in Everyone : proc'[q].at \in {"resumingRows", "reportingRows"}
      BY DEF Kept
    <3>2. QED
      BY <2>1, <2>2, <2>3, <3>1, <2>6, ProcsAssumption DEF Inv, Typed, Given, GivenRow, GivenProc, GivenBound, Consistent, Solo, Kept, LookedAfter, Stage, StageOf, Over, One, Waits, Whole, Fits, Middle, Runs, ActiveRow, Active, Terminal, Everyone
  <2>8. QED
    BY <2>4, <2>5, <2>6, <2>7 DEF Inv, Typed
<1>13. ASSUME NEW p \in Procs, BlocksRows(p)
      PROVE  Inv'
  <2>1. proc \in [Everyone -> Process] /\ rows \in [Dispatchers -> Assignment] /\ Daemon \in Everyone
    BY DEF Inv, Typed, TypeOK, Everyone
  <2>2. /\ proc' \in [Everyone -> Process]
        /\ proc'[p].at = "idle" /\ proc'[p].bound = {} /\ proc'[p].session = NoSession
        /\ \A q \in Everyone \ {p} : proc'[q] = proc[q]
    BY <1>13, <2>1, EndsIdle DEF BlocksRows, Everyone
  <2>3. /\ rows' \in [Dispatchers -> Assignment]
        /\ \A o \in Dispatchers :
             /\ rows'[o].session = rows[o].session
             /\ ActiveRow(o) => rows'[o].state = "blocked" /\ rows'[o].due = "null"
             /\ ~ActiveRow(o) => rows'[o] = rows[o]
    <3>1. SUFFICES ASSUME NEW o \in Dispatchers
                   PROVE  /\ rows'[o] \in Assignment /\ rows'[o].session = rows[o].session
                          /\ ActiveRow(o) => rows'[o].state = "blocked" /\ rows'[o].due = "null"
                          /\ ~ActiveRow(o) => rows'[o] = rows[o]
      BY <1>13 DEF BlocksRows
    <3>2. PICK r \in Assignment : r = rows[o]
      BY <2>1
    <3>3. rows'[o] = IF ActiveRow(o) THEN [r EXCEPT !.state = "blocked", !.due = "null"] ELSE r
      BY <1>13, <3>2 DEF BlocksRows
    <3>4. [r EXCEPT !.state = "blocked", !.due = "null"] \in Assignment
      BY DEF Assignment
    <3>5. QED
      BY <3>2, <3>3, <3>4 DEF Assignment
  <2>4. /\ proc[p].at = "blockingRows"
        /\ status' = status
        /\ prompts' = prompts
        /\ recovery' = recovery
        /\ torn' = (torn \/ \E q \in Everyone \ {p} : proc[q].at \in Middle)
        /\ forgotten' = forgotten
    BY <1>13, <2>1 DEF BlocksRows, tables, stream, Runs, WritesTask, Tears, Renews, Between, Terminal
  <2>5. TypeOK'
    BY <2>1, <2>2, <2>3, <2>4 DEF Inv, Typed, TypeOK, Given, GivenRow, GivenProc, Everyone, Statuses, Active, Terminal
  <2>6. Given'
    <3>1. ASSUME NEW q \in Dispatchers PROVE GivenRow(q)'
      BY <2>1, <2>2, <2>3, <2>4 DEF Inv, Typed, Given, GivenRow, GivenProc, ActiveRow, Everyone
    <3>2. ASSUME NEW q \in Everyone PROVE GivenProc(q)'
      BY <2>1, <2>2, <2>3, <2>4, ProcsAssumption, SessionsAssumption DEF Inv, Typed, Given, GivenProc, Everyone
    <3>3. GivenBound'
      BY <2>1, <2>2, <2>3, <2>4, ProcsAssumption DEF Inv, Typed, TypeOK, Given, GivenBound, GivenProc, ActiveRow, Everyone, Process
    <3>4. QED
      BY <3>1, <3>2, <3>3 DEF Given
  <2>7. Consistent'
    <3>1. SUFFICES ASSUME ~torn'
                   PROVE  Solo' /\ Stage' /\ (Whole' => Fits') /\ Careful'
      BY DEF Consistent
    <3>2. \A q \in Everyone \ {p} : proc[q].at \notin Middle /\ proc'[q].at \notin Middle
      BY <2>1, <2>2, <2>3, <2>4, <3>1, ProcsAssumption DEF Middle, Everyone
    <3>3. ~torn /\ StageOf(p) /\ Careful
      BY <2>1, <2>2, <2>3, <2>4, <3>1, <3>2 DEF Inv, Consistent, Stage, Whole, First, Middle, Everyone
    <3>4. Solo'
      BY <2>1, <2>2, <2>3, <2>4, <3>1, <3>2, <3>3 DEF Solo, Middle
    <3>5. Stage'
      <4>1. SUFFICES ASSUME NEW q \in Everyone PROVE StageOf(q)'
        BY DEF Stage
      <4>2. CASE q = p
        BY <2>1, <2>2, <2>3, <2>4, <3>1, <3>2, <3>3, <4>2, ProcsAssumption DEF Inv, Typed, Given, GivenRow, GivenProc, Stage, StageOf, Over, One, Waits, Whole, Fits, Middle, Runs, ActiveRow, Active, Terminal, Everyone
      <4>3. CASE q # p
        BY <2>1, <2>2, <2>3, <2>4, <3>1, <3>2, <3>3, <4>3 DEF Middle, StageOf, Runs
      <4>4. QED
        BY <4>2, <4>3
    <3>6. Whole' => Fits'
      BY <2>1, <2>2, <2>3, <2>4, <3>1, <3>2, <3>3, ProcsAssumption DEF Inv, Typed, Given, GivenRow, GivenProc, Solo, Stage, StageOf, Over, One, Waits, Whole, Fits, Middle, Runs, ActiveRow, Active, Terminal, Everyone
    <3>7. Careful'
      BY <2>1, <2>2, <2>3, <2>4, <3>1, <3>2, <3>3, ProcsAssumption DEF Inv, Typed, Given, GivenRow, GivenProc, Stage, StageOf, Careful, Runs, Everyone, Terminal, Active, Middle
    <3>8. QED
      BY <3>4, <3>5, <3>6, <3>7
  <2>8. Kept'
    <3>1. SUFFICES ASSUME ~torn', ~forgotten', status' \in {"dispatched", "in_progress"},
                          \A q \in Procs : proc'[q].at \notin {"inserting", "dispatching"},
                          NEW r \in Dispatchers, ActiveRow(r)'
                   PROVE  \/ LookedAfter(r)'
                          \/ rows'[r].state = "blocked" /\ \E q \in Everyone : proc'[q].at \in {"resumingRows", "reportingRows"}
      BY DEF Kept
    <3>2. /\ ~torn /\ StageOf(p) /\ (Whole => Fits)
          /\ \A q \in Everyone \ {p} : proc[q].at \notin Middle /\ proc'[q].at \notin Middle
      BY <2>1, <2>2, <2>3, <2>4, <3>1, ProcsAssumption DEF Inv, Consistent, Stage, Everyone
    <3>3. (/\ ~forgotten /\ status \in {"dispatched", "in_progress"}
           /\ \A q \in Procs : proc[q].at \notin {"inserting", "dispatching"}) =>
             (ActiveRow(r) => \/ LookedAfter(r)
                              \/ rows[r].state = "blocked" /\ \E q \in Everyone : proc[q].at \in {"resumingRows", "reportingRows"})
      BY <3>2 DEF Inv, Kept
    <3>4. QED
      BY <2>1, <2>2, <2>3, <2>4, <3>1, <3>2, <3>3, ProcsAssumption DEF StageOf, One, Over, Inv, Typed, Given, GivenRow, GivenProc, LookedAfter, Runs, ActiveRow, Everyone, Active, Terminal, Middle
  <2>9. QED
    BY <2>5, <2>6, <2>7, <2>8 DEF Inv, Typed
<1>14. ASSUME NEW p \in Procs, dbCompleteTask(p) \/ dbFailTask(p)
      PROVE  Inv'
  <2>1. proc \in [Everyone -> Process] /\ rows \in [Dispatchers -> Assignment] /\ Daemon \in Everyone
    BY DEF Inv, Typed, TypeOK, Everyone
  <2>2. /\ proc' \in [Everyone -> Process]
        /\ proc'[p].at = "endingRows" /\ proc'[p].session = proc[p].session
        /\ proc'[p].bound = proc[p].bound
        /\ \A q \in Everyone \ {p} : proc'[q] = proc[q]
    BY <1>14, <2>1, GoesTo DEF dbCompleteTask, dbFailTask, EndsTask, WritesTask, Places, First, Middle, Everyone
  <2>3. /\ proc[p].at = "ending"
        /\ status' \in Terminal
        /\ rows' = rows
        /\ prompts' = prompts
        /\ recovery' = recovery
        /\ torn' = (\E q \in Everyone \ {p} : proc[q].at \in Middle)
        /\ forgotten' = forgotten
    BY <1>14 DEF dbCompleteTask, dbFailTask, EndsTask, tables, stream, Runs, WritesTask, Tears, Renews, Between, Terminal
  <2>4. TypeOK'
    BY <2>1, <2>2, <2>3 DEF Inv, Typed, TypeOK, Given, GivenRow, GivenProc, Everyone, Statuses, Active, Terminal
  <2>5. Given'
    <3>1. ASSUME NEW q \in Dispatchers PROVE GivenRow(q)'
      BY <2>1, <2>2, <2>3 DEF Inv, Typed, Given, GivenRow, GivenProc, ActiveRow, Everyone
    <3>2. ASSUME NEW q \in Everyone PROVE GivenProc(q)'
      BY <2>1, <2>2, <2>3, ProcsAssumption, SessionsAssumption DEF Inv, Typed, Given, GivenProc, Everyone
    <3>3. GivenBound'
      BY <2>1, <2>2, <2>3, ProcsAssumption DEF Inv, Typed, TypeOK, Given, GivenBound, GivenProc, ActiveRow, Everyone, Process
    <3>4. QED
      BY <3>1, <3>2, <3>3 DEF Given
  <2>6. Consistent'
    <3>1. SUFFICES ASSUME ~torn'
                   PROVE  Solo' /\ Stage' /\ (Whole' => Fits') /\ Careful'
      BY DEF Consistent
    <3>2. \A q \in Everyone \ {p} : proc[q].at \notin Middle /\ proc'[q].at \notin Middle
      BY <2>1, <2>2, <2>3, <3>1, ProcsAssumption DEF Middle, Everyone
    <3>3. Solo'
      BY <2>1, <2>2, <2>3, <3>1, <3>2 DEF Solo, Middle
    <3>4. Stage'
      <4>1. SUFFICES ASSUME NEW q \in Everyone PROVE StageOf(q)'
        BY DEF Stage
      <4>2. CASE q = p
        BY <2>1, <2>2, <2>3, <3>1, <3>2, <4>2, ProcsAssumption DEF Inv, Typed, Given, GivenRow, GivenProc, Consistent, Stage, StageOf, Over, One, Waits, Whole, Fits, Middle, Runs, ActiveRow, Active, Terminal, Everyone
      <4>3. CASE q # p
        BY <2>1, <2>2, <2>3, <3>1, <3>2, <4>3 DEF Middle, StageOf, Runs
      <4>4. QED
        BY <4>2, <4>3
    <3>5. Whole' => Fits'
      BY <2>1, <2>2, <2>3, <3>1, <3>2, ProcsAssumption DEF Inv, Typed, Given, GivenRow, GivenProc, Consistent, Solo, Stage, StageOf, Over, One, Waits, Whole, Fits, Middle, Runs, ActiveRow, Active, Terminal, Everyone
    <3>6. Careful'
      BY <2>1, <2>2, <2>3, <3>1, <3>2, ProcsAssumption DEF Inv, Typed, Given, GivenRow, GivenProc, Consistent, Stage, StageOf, Careful, Runs, Everyone, Terminal, Active, Middle
    <3>7. QED
      BY <3>3, <3>4, <3>5, <3>6
  <2>7. Kept'
    <3>1. SUFFICES ASSUME ~torn', ~forgotten', status' \in {"dispatched", "in_progress"},
                          \A q \in Procs : proc'[q].at \notin {"inserting", "dispatching"},
                          NEW r \in Dispatchers, ActiveRow(r)'
                   PROVE  \/ LookedAfter(r)'
                          \/ rows'[r].state = "blocked" /\ \E q \in Everyone : proc'[q].at \in {"resumingRows", "reportingRows"}
      BY DEF Kept
    <3>2. QED
      BY <2>1, <2>2, <2>3, <3>1, <2>6, ProcsAssumption DEF Inv, Typed, Given, GivenRow, GivenProc, GivenBound, Consistent, Solo, Kept, LookedAfter, Stage, StageOf, Over, One, Waits, Whole, Fits, Middle, Runs, ActiveRow, Active, Terminal, Everyone
  <2>8. QED
    BY <2>4, <2>5, <2>6, <2>7 DEF Inv, Typed
<1>15. ASSUME NEW p \in Procs, EndsRows(p)
      PROVE  Inv'
  <2>1. proc \in [Everyone -> Process] /\ rows \in [Dispatchers -> Assignment] /\ Daemon \in Everyone
    BY DEF Inv, Typed, TypeOK, Everyone
  <2>2. /\ proc' \in [Everyone -> Process]
        /\ proc'[p].at = "idle" /\ proc'[p].bound = {} /\ proc'[p].session = NoSession
        /\ \A q \in Everyone \ {p} : proc'[q] = proc[q]
    BY <1>15, <2>1, EndsIdle DEF EndsRows, Everyone
  <2>3. rows' \in [Dispatchers -> Assignment] /\ \A o \in Dispatchers : rows'[o].state = "none" /\ rows'[o].due = "null"
    BY <1>15 DEF EndsRows, NoRow, Assignment
  <2>4. /\ proc[p].at = "endingRows"
        /\ status' = status
        /\ prompts' = prompts
        /\ recovery' = recovery
        /\ torn' = (torn \/ \E q \in Everyone \ {p} : proc[q].at \in Middle)
        /\ forgotten' = forgotten
    BY <1>15, <2>1 DEF EndsRows, tables, stream, Runs, WritesTask, Tears, Renews, Between, Terminal
  <2>5. TypeOK'
    BY <2>1, <2>2, <2>3, <2>4 DEF Inv, Typed, TypeOK, Given, GivenRow, GivenProc, Everyone, Statuses, Active, Terminal
  <2>6. Given'
    <3>1. ASSUME NEW q \in Dispatchers PROVE GivenRow(q)'
      BY <2>1, <2>2, <2>3, <2>4 DEF Inv, Typed, Given, GivenRow, GivenProc, ActiveRow, Everyone
    <3>2. ASSUME NEW q \in Everyone PROVE GivenProc(q)'
      BY <2>1, <2>2, <2>3, <2>4, ProcsAssumption, SessionsAssumption DEF Inv, Typed, Given, GivenProc, Everyone
    <3>3. GivenBound'
      BY <2>1, <2>2, <2>3, <2>4, ProcsAssumption DEF Inv, Typed, TypeOK, Given, GivenBound, GivenProc, ActiveRow, Everyone, Process
    <3>4. QED
      BY <3>1, <3>2, <3>3 DEF Given
  <2>7. Consistent'
    <3>1. SUFFICES ASSUME ~torn'
                   PROVE  Solo' /\ Stage' /\ (Whole' => Fits') /\ Careful'
      BY DEF Consistent
    <3>2. \A q \in Everyone \ {p} : proc[q].at \notin Middle /\ proc'[q].at \notin Middle
      BY <2>1, <2>2, <2>3, <2>4, <3>1, ProcsAssumption DEF Middle, Everyone
    <3>3. ~torn /\ StageOf(p) /\ Careful
      BY <2>1, <2>2, <2>3, <2>4, <3>1, <3>2 DEF Inv, Consistent, Stage, Whole, First, Middle, Everyone
    <3>4. Solo'
      BY <2>1, <2>2, <2>3, <2>4, <3>1, <3>2, <3>3 DEF Solo, Middle
    <3>5. Stage'
      <4>1. SUFFICES ASSUME NEW q \in Everyone PROVE StageOf(q)'
        BY DEF Stage
      <4>2. CASE q = p
        BY <2>1, <2>2, <2>3, <2>4, <3>1, <3>2, <3>3, <4>2, ProcsAssumption DEF Inv, Typed, Given, GivenRow, GivenProc, Stage, StageOf, Over, One, Waits, Whole, Fits, Middle, Runs, ActiveRow, Active, Terminal, Everyone
      <4>3. CASE q # p
        BY <2>1, <2>2, <2>3, <2>4, <3>1, <3>2, <3>3, <4>3 DEF Middle, StageOf, Runs
      <4>4. QED
        BY <4>2, <4>3
    <3>6. Whole' => Fits'
      BY <2>1, <2>2, <2>3, <2>4, <3>1, <3>2, <3>3, ProcsAssumption DEF Inv, Typed, Given, GivenRow, GivenProc, Solo, Stage, StageOf, Over, One, Waits, Whole, Fits, Middle, Runs, ActiveRow, Active, Terminal, Everyone
    <3>7. Careful'
      BY <2>1, <2>2, <2>3, <2>4, <3>1, <3>2, <3>3, ProcsAssumption DEF Inv, Typed, Given, GivenRow, GivenProc, Stage, StageOf, Careful, Runs, Everyone, Terminal, Active, Middle
    <3>8. QED
      BY <3>4, <3>5, <3>6, <3>7
  <2>8. Kept'
    <3>1. SUFFICES ASSUME ~torn', ~forgotten', status' \in {"dispatched", "in_progress"},
                          \A q \in Procs : proc'[q].at \notin {"inserting", "dispatching"},
                          NEW r \in Dispatchers, ActiveRow(r)'
                   PROVE  \/ LookedAfter(r)'
                          \/ rows'[r].state = "blocked" /\ \E q \in Everyone : proc'[q].at \in {"resumingRows", "reportingRows"}
      BY DEF Kept
    <3>2. QED
      BY <2>1, <2>2, <2>3, <2>4, <3>1, <2>7, ProcsAssumption DEF Inv, Typed, Given, GivenRow, GivenProc, GivenBound, Consistent, Solo, Kept, LookedAfter, Stage, StageOf, Over, One, Waits, Whole, Fits, Middle, Runs, ActiveRow, Active, Terminal, Everyone
  <2>9. QED
    BY <2>5, <2>6, <2>7, <2>8 DEF Inv, Typed
<1>16. ASSUME NEW p \in Everyone, Crash(p)
      PROVE  Inv'
  <2>1. proc \in [Everyone -> Process] /\ rows \in [Dispatchers -> Assignment] /\ Daemon \in Everyone
    BY DEF Inv, Typed, TypeOK, Everyone
  <2>2. /\ proc' \in [Everyone -> Process]
        /\ proc'[p].at = "idle" /\ proc'[p].bound = {} /\ proc'[p].session = NoSession
        /\ \A q \in Everyone \ {p} : proc'[q] = proc[q]
    BY <1>16, <2>1, EndsIdle DEF Crash, Awaited, Everyone
  <2>3. /\ proc[p].at # "idle"
        /\ status' = status
        /\ rows' = rows
        /\ prompts' = prompts
        /\ recovery' = recovery
        /\ torn' = (torn \/ proc[p].at \in Middle)
        /\ forgotten' = (forgotten \/ (proc[p].at \in {"publishing", "accepting"} /\ (\E o \in Dispatchers : ActiveRow(o) /\ rows[o].session = proc[p].session /\ rows[o].due = "null")))
    BY <1>16, <2>1 DEF Crash, Awaited, tables, stream, Runs, WritesTask, Tears, Renews, Between, Terminal
  <2>4. TypeOK'
    BY <2>1, <2>2, <2>3 DEF Inv, Typed, TypeOK, Given, GivenRow, GivenProc, Everyone, Statuses, Active, Terminal
  <2>5. Given'
    <3>1. ASSUME NEW q \in Dispatchers PROVE GivenRow(q)'
      BY <2>1, <2>2, <2>3 DEF Inv, Typed, Given, GivenRow, GivenProc, ActiveRow, Everyone
    <3>2. ASSUME NEW q \in Everyone PROVE GivenProc(q)'
      BY <2>1, <2>2, <2>3, ProcsAssumption, SessionsAssumption DEF Inv, Typed, Given, GivenProc, Everyone
    <3>3. GivenBound'
      BY <2>1, <2>2, <2>3, ProcsAssumption DEF Inv, Typed, TypeOK, Given, GivenBound, GivenProc, ActiveRow, Everyone, Process
    <3>4. QED
      BY <3>1, <3>2, <3>3 DEF Given
  <2>6. Consistent'
    <3>1. SUFFICES ASSUME ~torn'
                   PROVE  Solo' /\ Stage' /\ (Whole' => Fits') /\ Careful'
      BY DEF Consistent
    <3>2. ~torn /\ Solo /\ Stage /\ Careful /\ (Whole => Fits)
      BY <2>1, <2>2, <2>3, <3>1 DEF Inv, Consistent
    <3>3. Solo'
      BY <2>1, <2>2, <2>3, <3>1, <3>2 DEF Solo, Middle
    <3>4. Stage'
      <4>1. SUFFICES ASSUME NEW q \in Everyone PROVE StageOf(q)'
        BY DEF Stage
      <4>2. CASE q = p
        BY <2>1, <2>2, <2>3, <3>1, <3>2, <4>2, ProcsAssumption DEF Inv, Typed, Given, GivenRow, GivenProc, Stage, StageOf, Over, One, Waits, Whole, Fits, Middle, Runs, ActiveRow, Active, Terminal, Everyone
      <4>3. CASE q # p
        <5>1. StageOf(q) /\ proc'[q] = proc[q]
          BY <2>1, <2>2, <2>3, <3>2, <4>3 DEF Stage
        <5>2. QED
          BY <2>1, <2>2, <2>3, <5>1, ProcsAssumption DEF StageOf, Over, One, Waits, Runs, ActiveRow, Everyone
      <4>4. QED
        BY <4>2, <4>3
    <3>5. Whole' => Fits'
      <4>1. ASSUME Whole' PROVE Whole
        <5>1. proc[p].at \notin Middle
          BY <2>3, <3>1
        <5>2. \A q \in Everyone \ {p} : proc[q].at \notin Middle
          BY <2>2, <4>1 DEF Whole
        <5>3. QED
          BY <5>1, <5>2 DEF Whole
      <4>2. Fits => Fits'
        BY <2>3 DEF Fits, Over, One, Waits, ActiveRow
      <4>3. QED
        BY <3>2, <4>1, <4>2
    <3>6. Careful'
      BY <2>1, <2>2, <2>3, <3>1, <3>2, ProcsAssumption DEF Inv, Typed, Given, GivenRow, GivenProc, Stage, StageOf, Careful, Runs, Everyone, Terminal, Active, Middle
    <3>7. QED
      BY <3>3, <3>4, <3>5, <3>6
  <2>7. Kept'
    <3>1. SUFFICES ASSUME ~torn', ~forgotten', status' \in {"dispatched", "in_progress"},
                          \A q \in Procs : proc'[q].at \notin {"inserting", "dispatching"},
                          NEW r \in Dispatchers, ActiveRow(r)'
                   PROVE  \/ LookedAfter(r)'
                          \/ rows'[r].state = "blocked" /\ \E q \in Everyone : proc'[q].at \in {"resumingRows", "reportingRows"}
      BY DEF Kept
    <3>2. ~torn /\ ~forgotten /\ proc[p].at \notin Middle
      BY <2>1, <2>2, <2>3, <3>1
    <3>3. (/\ ~forgotten /\ status \in {"dispatched", "in_progress"}
           /\ \A q \in Procs : proc[q].at \notin {"inserting", "dispatching"}) =>
             (ActiveRow(r) => \/ LookedAfter(r)
                              \/ rows[r].state = "blocked" /\ \E q \in Everyone : proc[q].at \in {"resumingRows", "reportingRows"})
      BY <3>2 DEF Inv, Kept
    <3>4. \A q \in Procs : proc[q].at \notin {"inserting", "dispatching"}
      BY <2>1, <2>2, <2>3, <3>1, <3>2 DEF Middle, Everyone
    <3>5. ActiveRow(r)
      BY <2>1, <2>2, <2>3, <3>1 DEF ActiveRow
    <3>6. CASE LookedAfter(r)
      <4>1. CASE rows[r].due # "null" \/ rows[r].session \in prompts
        BY <2>1, <2>2, <2>3, <4>1 DEF LookedAfter
      <4>2. CASE rows[r].due = "null"
        <5>1. ~(proc[p].at \in {"publishing", "accepting"} /\ proc[p].session = rows[r].session)
          BY <2>1, <2>2, <2>3, <3>1, <3>5, <4>2
        <5>2. ASSUME NEW q \in Procs, Runs(q, "publishing"), proc[q].session = rows[r].session
              PROVE  LookedAfter(r)'
          BY <2>1, <2>2, <2>3, <5>1, <5>2 DEF LookedAfter, Runs, Everyone
        <5>3. ASSUME Runs(Daemon, "accepting"), r \in proc[Daemon].bound
              PROVE  LookedAfter(r)'
          <6>1. rows[r].session = proc[Daemon].session
            BY <3>5, <5>3 DEF Inv, Typed, Given, GivenBound
          <6>2. p # Daemon
            BY <5>1, <5>3, <6>1 DEF Runs
          <6>3. QED
            BY <2>1, <2>2, <2>3, <5>3, <6>2 DEF LookedAfter, Runs, Everyone
        <5>4. QED
          BY <2>1, <2>2, <2>3, <3>6, <4>2, <5>2, <5>3 DEF LookedAfter
      <4>3. QED
        BY <4>1, <4>2
    <3>7. CASE rows[r].state = "blocked" /\ \E q \in Everyone : proc[q].at \in {"resumingRows", "reportingRows"}
      <4>1. PICK q \in Everyone : proc[q].at \in {"resumingRows", "reportingRows"}
        BY <3>7
      <4>2. q # p
        BY <3>2, <4>1 DEF Middle
      <4>3. QED
        BY <2>1, <2>2, <2>3, <3>7, <4>1, <4>2
    <3>8. QED
      BY <2>1, <2>2, <2>3, <3>1, <3>2, <3>3, <3>4, <3>5, <3>6, <3>7
  <2>8. QED
    BY <2>4, <2>5, <2>6, <2>7 DEF Inv, Typed
<1>17. ASSUME NEW s \in Sessions, dbMarkTaskAcceptedForSession(s)
      PROVE  Inv'
  <2>1. proc \in [Everyone -> Process] /\ rows \in [Dispatchers -> Assignment] /\ Daemon \in Everyone
    BY DEF Inv, Typed, TypeOK, Everyone
  <2>2. /\ proc' \in [Everyone -> Process]
        /\ \A q \in Everyone \ {Daemon} : proc'[q] = proc[q]
        /\ \/ proc' = proc /\ ~(status \in Active /\ \E o \in Dispatchers : ActiveRow(o) /\ rows[o].session = s)
           \/ \E o \in Dispatchers :
                /\ ActiveRow(o) /\ rows[o].session = s /\ status \in Active
                /\ proc'[Daemon].at = (IF status = "blocked" THEN "resuming" ELSE "accepting")
                /\ proc'[Daemon].session = s /\ proc'[Daemon].bound = {o}
    <3>1. ASSUME NEW o \in BoundRows(s), status \in Active,
                 proc' = [proc EXCEPT ![Daemon] =
                   [at |-> IF status = "blocked" THEN "resuming" ELSE "accepting",
                    session |-> s, bound |-> {o}]]
          PROVE  /\ proc' \in [Everyone -> Process]
                 /\ \A q \in Everyone \ {Daemon} : proc'[q] = proc[q]
                 /\ proc'[Daemon].at = (IF status = "blocked" THEN "resuming" ELSE "accepting")
                 /\ proc'[Daemon].session = s /\ proc'[Daemon].bound = {o}
      <4> DEFINE r == [at |-> IF status = "blocked" THEN "resuming" ELSE "accepting",
                       session |-> s, bound |-> {o}]
      <4>1. r \in Process
        BY DEF Process, Places, First, BoundRows
      <4>2. proc' = [proc EXCEPT ![Daemon] = r]
        BY <3>1
      <4>3. /\ r.at = (IF status = "blocked" THEN "resuming" ELSE "accepting")
            /\ r.session = s /\ r.bound = {o}
        OBVIOUS
      <4> HIDE DEF r
      <4>4. QED
        BY <1>17, <2>1, <4>1, <4>2, <4>3, Begins
    <3>2. QED
      BY <1>17, <2>1, <3>1 DEF dbMarkTaskAcceptedForSession, BoundRows
  <2>3. /\ proc[Daemon].at = "idle" /\ s \in prompts
        /\ status' = status
        /\ rows' = rows
        /\ prompts' = prompts \ {s}
        /\ recovery' = recovery
        /\ torn' = torn
        /\ forgotten' = forgotten
    BY <1>17 DEF dbMarkTaskAcceptedForSession, BoundRows, tables, stream, Runs, WritesTask, Tears, Renews, Between, Terminal
  <2>4. TypeOK'
    BY <2>1, <2>2, <2>3 DEF Inv, Typed, TypeOK, Given, GivenRow, GivenProc, Everyone, Statuses, Active, Terminal
  <2>5. Given'
    <3>1. ASSUME NEW q \in Dispatchers PROVE GivenRow(q)'
      BY <2>1, <2>2, <2>3 DEF Inv, Typed, Given, GivenRow, GivenProc, ActiveRow, Everyone
    <3>2. ASSUME NEW q \in Everyone PROVE GivenProc(q)'
      BY <2>1, <2>2, <2>3, ProcsAssumption, SessionsAssumption DEF Inv, Typed, Given, GivenProc, Everyone
    <3>3. GivenBound'
      BY <2>1, <2>2, <2>3, ProcsAssumption DEF Inv, Typed, TypeOK, Given, GivenBound, GivenProc, ActiveRow, Everyone, Process
    <3>4. QED
      BY <3>1, <3>2, <3>3 DEF Given
  <2>6. Consistent'
    <3>1. SUFFICES ASSUME ~torn'
                   PROVE  Solo' /\ Stage' /\ (Whole' => Fits') /\ Careful'
      BY DEF Consistent
    <3>2. ~torn /\ Solo /\ Stage /\ Careful /\ (Whole => Fits)
      BY <2>1, <2>2, <2>3, <3>1 DEF Inv, Consistent
    <3>3. Solo'
      BY <2>1, <2>2, <2>3, <3>1, <3>2 DEF Solo, Middle
    <3>4. Stage'
      <4>1. SUFFICES ASSUME NEW q \in Everyone PROVE StageOf(q)'
        BY DEF Stage
      <4>2. StageOf(q)
        BY <3>2 DEF Stage
      <4>3. QED
        BY <2>1, <2>2, <2>3, <4>2, ProcsAssumption DEF StageOf, Over, One, Waits, Runs, ActiveRow, Everyone
    <3>5. Whole' => Fits'
      BY <2>1, <2>2, <2>3, <3>1, <3>2, ProcsAssumption DEF Inv, Typed, Given, GivenRow, GivenProc, Solo, Stage, StageOf, Over, One, Waits, Whole, Fits, Middle, Runs, ActiveRow, Active, Terminal, Everyone
    <3>6. Careful'
      BY <2>1, <2>2, <2>3, <3>1, <3>2, ProcsAssumption DEF Inv, Typed, Given, GivenRow, GivenProc, Stage, StageOf, Careful, Runs, Everyone, Terminal, Active, Middle
    <3>7. QED
      BY <3>3, <3>4, <3>5, <3>6
  <2>7. Kept'
    <3>1. SUFFICES ASSUME ~torn', ~forgotten', status' \in {"dispatched", "in_progress"},
                          \A q \in Procs : proc'[q].at \notin {"inserting", "dispatching"},
                          NEW r \in Dispatchers, ActiveRow(r)'
                   PROVE  \/ LookedAfter(r)'
                          \/ rows'[r].state = "blocked" /\ \E q \in Everyone : proc'[q].at \in {"resumingRows", "reportingRows"}
      BY DEF Kept
    <3>2. QED
      BY <2>1, <2>2, <2>3, <3>1, <2>6, ProcsAssumption DEF Inv, Typed, Given, GivenRow, GivenProc, GivenBound, Consistent, Solo, Kept, LookedAfter, Stage, StageOf, Over, One, Waits, Whole, Fits, Middle, Runs, ActiveRow, Active, Terminal, Everyone
  <2>8. QED
    BY <2>4, <2>5, <2>6, <2>7 DEF Inv, Typed
<1>18. ASSUME AcceptsRow
      PROVE  Inv'
  <2>1. proc \in [Everyone -> Process] /\ rows \in [Dispatchers -> Assignment] /\ Daemon \in Everyone
    BY DEF Inv, Typed, TypeOK, Everyone
  <2>2. /\ proc' \in [Everyone -> Process]
        /\ proc'[Daemon].at = "acceptingTask" /\ proc'[Daemon].session = proc[Daemon].session
        /\ proc'[Daemon].bound = proc[Daemon].bound
        /\ \A q \in Everyone \ {Daemon} : proc'[q] = proc[q]
    BY <1>18, <2>1, GoesTo DEF AcceptsRow, Places, First, Middle, Everyone
  <2>3. /\ rows' \in [Dispatchers -> Assignment]
        /\ \A o \in Dispatchers :
             /\ rows'[o].session = rows[o].session
             /\ o \in proc[Daemon].bound /\ rows[o].state \in {"assigned", "blocked"} => rows'[o].state = "accepted" /\ rows'[o].due = "ahead"
             /\ ~(o \in proc[Daemon].bound /\ rows[o].state \in {"assigned", "blocked"}) => rows'[o] = rows[o]
    BY <1>18, <2>1, AcceptedRow DEF AcceptsRow
  <2>4. /\ proc[Daemon].at = "accepting"
        /\ status' = status
        /\ prompts' = prompts
        /\ recovery' = recovery
        /\ torn' = (torn \/ \E q \in Everyone \ {Daemon} : proc[q].at \in Middle)
        /\ forgotten' = (forgotten /\ \A o \in proc[Daemon].bound : ~ActiveRow(o))
    BY <1>18 DEF AcceptsRow, tables, stream, Runs, WritesTask, Tears, Renews, Between, Terminal
  <2>5. TypeOK'
    BY <2>1, <2>2, <2>3, <2>4 DEF Inv, Typed, TypeOK, Given, GivenRow, GivenProc, Everyone, Statuses, Active, Terminal
  <2>6. Given'
    <3>1. ASSUME NEW q \in Dispatchers PROVE GivenRow(q)'
      BY <2>1, <2>2, <2>3, <2>4 DEF Inv, Typed, Given, GivenRow, GivenProc, ActiveRow, Everyone
    <3>2. ASSUME NEW q \in Everyone PROVE GivenProc(q)'
      BY <2>1, <2>2, <2>3, <2>4, ProcsAssumption, SessionsAssumption DEF Inv, Typed, Given, GivenProc, Everyone
    <3>3. GivenBound'
      BY <2>1, <2>2, <2>3, <2>4, ProcsAssumption DEF Inv, Typed, TypeOK, Given, GivenBound, GivenProc, ActiveRow, Everyone, Process
    <3>4. QED
      BY <3>1, <3>2, <3>3 DEF Given
  <2>7. Consistent'
    <3>1. SUFFICES ASSUME ~torn'
                   PROVE  Solo' /\ Stage' /\ (Whole' => Fits') /\ Careful'
      BY DEF Consistent
    <3>2. \A q \in Everyone \ {Daemon} : proc[q].at \notin Middle /\ proc'[q].at \notin Middle
      BY <2>1, <2>2, <2>3, <2>4, <3>1, ProcsAssumption DEF Middle, Everyone
    <3>3. ~torn /\ StageOf(Daemon) /\ Careful /\ Fits
      BY <2>1, <2>2, <2>3, <2>4, <3>1, <3>2 DEF Inv, Consistent, Stage, Whole, First, Middle, Everyone
    <3>4. Solo'
      BY <2>1, <2>2, <2>3, <2>4, <3>1, <3>2, <3>3 DEF Solo, Middle
    <3>5. Stage'
      <4>1. SUFFICES ASSUME NEW q \in Everyone PROVE StageOf(q)'
        BY DEF Stage
      <4>2. CASE q = Daemon
        <5>1. status' # "blocked"
          BY <2>1, <2>2, <2>3, <2>4, <3>2, <3>3, ProcsAssumption DEF Careful, Runs, Middle, Everyone
        <5>2. \A o \in Dispatchers : ActiveRow(o)' => ActiveRow(o)
          BY <2>1, <2>2, <2>3, <2>4 DEF ActiveRow
        <5>3. Over' /\ One'
          BY <2>1, <2>2, <2>3, <2>4, <3>3, <5>2 DEF Over, One, Fits
        <5>4. QED
          BY <2>1, <2>2, <2>3, <2>4, <4>2, <5>1, <5>3 DEF StageOf, Runs
      <4>3. CASE q # Daemon
        BY <2>1, <2>2, <2>3, <2>4, <3>1, <3>2, <3>3, <4>3 DEF Middle, StageOf, Runs
      <4>4. QED
        BY <4>2, <4>3
    <3>6. Whole' => Fits'
      BY <2>1, <2>2, <2>3, <2>4, <3>1, <3>2, <3>3, ProcsAssumption DEF Inv, Typed, Given, GivenRow, GivenProc, Solo, Stage, StageOf, Over, One, Waits, Whole, Fits, Middle, Runs, ActiveRow, Active, Terminal, Everyone
    <3>7. Careful'
      BY <2>1, <2>2, <2>3, <2>4, <3>1, <3>2, <3>3, ProcsAssumption DEF Inv, Typed, Given, GivenRow, GivenProc, Stage, StageOf, Careful, Runs, Everyone, Terminal, Active, Middle
    <3>8. QED
      BY <3>4, <3>5, <3>6, <3>7
  <2>8. Kept'
    <3>1. SUFFICES ASSUME ~torn', ~forgotten', status' \in {"dispatched", "in_progress"},
                          \A q \in Procs : proc'[q].at \notin {"inserting", "dispatching"},
                          NEW r \in Dispatchers, ActiveRow(r)'
                   PROVE  \/ LookedAfter(r)'
                          \/ rows'[r].state = "blocked" /\ \E q \in Everyone : proc'[q].at \in {"resumingRows", "reportingRows"}
      BY DEF Kept
    <3>2. /\ ~torn /\ StageOf(Daemon) /\ (Whole => Fits)
          /\ \A q \in Everyone \ {Daemon} : proc[q].at \notin Middle /\ proc'[q].at \notin Middle
      BY <2>1, <2>2, <2>3, <2>4, <3>1, ProcsAssumption DEF Inv, Consistent, Stage, Everyone
    <3>3. (/\ ~forgotten /\ status \in {"dispatched", "in_progress"}
           /\ \A q \in Procs : proc[q].at \notin {"inserting", "dispatching"}) =>
             (ActiveRow(r) => \/ LookedAfter(r)
                              \/ rows[r].state = "blocked" /\ \E q \in Everyone : proc[q].at \in {"resumingRows", "reportingRows"})
      BY <3>2 DEF Inv, Kept
    <3>4. Fits
      BY <2>1, <2>2, <2>3, <2>4, <3>2 DEF Whole, Middle
    <3>5. \A q \in Procs : proc[q].at \notin {"inserting", "dispatching"}
      BY <2>1, <2>2, <2>3, <2>4, <3>2 DEF Middle, Everyone
    <3>6. proc[Daemon].bound \subseteq Dispatchers
      BY <2>1 DEF Process
    <3>7. CASE r \in proc[Daemon].bound
      <4>1. rows[r].state \in {"assigned", "accepted", "blocked"}
        BY <2>1, <2>2, <2>3, <2>4, <3>1, <3>7 DEF Assignment, ActiveRow
      <4>2. CASE rows[r].state = "accepted"
        BY <2>1, <2>2, <2>3, <2>4, <3>1, <4>2 DEF Inv, Typed, Given, GivenRow, LookedAfter
      <4>3. CASE rows[r].state # "accepted"
        BY <2>1, <2>2, <2>3, <2>4, <3>1, <3>7, <4>1, <4>3 DEF LookedAfter
      <4>4. QED
        BY <4>2, <4>3
    <3>8. CASE r \notin proc[Daemon].bound
      <4>1. rows'[r] = rows[r] /\ ActiveRow(r)
        BY <2>1, <2>2, <2>3, <2>4, <3>1, <3>8 DEF ActiveRow
      <4>2. ~forgotten
        BY <2>1, <2>2, <2>3, <2>4, <3>1, <3>4, <3>6, <3>8, <4>1 DEF Fits, One
      <4>3. LookedAfter(r)
        BY <2>1, <2>2, <2>3, <2>4, <3>1, <3>2, <3>3, <3>5, <4>1, <4>2 DEF Middle
      <4>4. QED
        BY <2>1, <2>2, <2>3, <2>4, <3>8, <4>1, <4>3, ProcsAssumption DEF LookedAfter, Runs, Everyone
    <3>9. QED
      BY <3>7, <3>8
  <2>9. QED
    BY <2>5, <2>6, <2>7, <2>8 DEF Inv, Typed
<1>19. ASSUME AcceptsTask
      PROVE  Inv'
  <2>1. proc \in [Everyone -> Process] /\ rows \in [Dispatchers -> Assignment] /\ Daemon \in Everyone
    BY DEF Inv, Typed, TypeOK, Everyone
  <2>2. /\ proc' \in [Everyone -> Process]
        /\ proc'[Daemon].at = "idle" /\ proc'[Daemon].bound = {} /\ proc'[Daemon].session = NoSession
        /\ \A q \in Everyone \ {Daemon} : proc'[q] = proc[q]
    BY <1>19, <2>1, EndsIdle DEF AcceptsTask, Everyone
  <2>3. /\ proc[Daemon].at = "acceptingTask"
        /\ status = "dispatched" => status' = "in_progress"
        /\ status # "dispatched" => status' = status
        /\ rows' = rows
        /\ prompts' = prompts
        /\ recovery' = recovery
        /\ torn' = (torn \/ \E q \in Everyone \ {Daemon} : proc[q].at \in Middle)
        /\ forgotten' = forgotten
    BY <1>19, <2>1 DEF AcceptsTask, tables, stream, Runs, WritesTask, Tears, Renews, Between, Terminal
  <2>4. TypeOK'
    BY <2>1, <2>2, <2>3 DEF Inv, Typed, TypeOK, Given, GivenRow, GivenProc, Everyone, Statuses, Active, Terminal
  <2>5. Given'
    <3>1. ASSUME NEW q \in Dispatchers PROVE GivenRow(q)'
      BY <2>1, <2>2, <2>3 DEF Inv, Typed, Given, GivenRow, GivenProc, ActiveRow, Everyone
    <3>2. ASSUME NEW q \in Everyone PROVE GivenProc(q)'
      BY <2>1, <2>2, <2>3, ProcsAssumption, SessionsAssumption DEF Inv, Typed, Given, GivenProc, Everyone
    <3>3. GivenBound'
      BY <2>1, <2>2, <2>3, ProcsAssumption DEF Inv, Typed, TypeOK, Given, GivenBound, GivenProc, ActiveRow, Everyone, Process
    <3>4. QED
      BY <3>1, <3>2, <3>3 DEF Given
  <2>6. Consistent'
    <3>1. SUFFICES ASSUME ~torn'
                   PROVE  Solo' /\ Stage' /\ (Whole' => Fits') /\ Careful'
      BY DEF Consistent
    <3>2. \A q \in Everyone \ {Daemon} : proc[q].at \notin Middle /\ proc'[q].at \notin Middle
      BY <2>1, <2>2, <2>3, <3>1, ProcsAssumption DEF Middle, Everyone
    <3>3. ~torn /\ StageOf(Daemon) /\ Careful
      BY <2>1, <2>2, <2>3, <3>1, <3>2 DEF Inv, Consistent, Stage, Whole, First, Middle, Everyone
    <3>4. Solo'
      BY <2>1, <2>2, <2>3, <3>1, <3>2, <3>3 DEF Solo, Middle
    <3>5. Stage'
      <4>1. SUFFICES ASSUME NEW q \in Everyone PROVE StageOf(q)'
        BY DEF Stage
      <4>2. CASE q = Daemon
        BY <2>1, <2>2, <2>3, <3>1, <3>2, <3>3, <4>2, ProcsAssumption DEF Inv, Typed, Given, GivenRow, GivenProc, Stage, StageOf, Over, One, Waits, Whole, Fits, Middle, Runs, ActiveRow, Active, Terminal, Everyone
      <4>3. CASE q # Daemon
        BY <2>1, <2>2, <2>3, <3>1, <3>2, <3>3, <4>3 DEF Middle, StageOf, Runs
      <4>4. QED
        BY <4>2, <4>3
    <3>6. Whole' => Fits'
      BY <2>1, <2>2, <2>3, <3>1, <3>2, <3>3, ProcsAssumption DEF Inv, Typed, Given, GivenRow, GivenProc, Solo, Stage, StageOf, Over, One, Waits, Whole, Fits, Middle, Runs, ActiveRow, Active, Terminal, Everyone
    <3>7. Careful'
      BY <2>1, <2>2, <2>3, <3>1, <3>2, <3>3, ProcsAssumption DEF Inv, Typed, Given, GivenRow, GivenProc, Stage, StageOf, Careful, Runs, Everyone, Terminal, Active, Middle
    <3>8. QED
      BY <3>4, <3>5, <3>6, <3>7
  <2>7. Kept'
    <3>1. SUFFICES ASSUME ~torn', ~forgotten', status' \in {"dispatched", "in_progress"},
                          \A q \in Procs : proc'[q].at \notin {"inserting", "dispatching"},
                          NEW r \in Dispatchers, ActiveRow(r)'
                   PROVE  \/ LookedAfter(r)'
                          \/ rows'[r].state = "blocked" /\ \E q \in Everyone : proc'[q].at \in {"resumingRows", "reportingRows"}
      BY DEF Kept
    <3>2. /\ ~torn /\ StageOf(Daemon) /\ (Whole => Fits)
          /\ \A q \in Everyone \ {Daemon} : proc[q].at \notin Middle /\ proc'[q].at \notin Middle
      BY <2>1, <2>2, <2>3, <3>1, ProcsAssumption DEF Inv, Consistent, Stage, Everyone
    <3>3. (/\ ~forgotten /\ status \in {"dispatched", "in_progress"}
           /\ \A q \in Procs : proc[q].at \notin {"inserting", "dispatching"}) =>
             (ActiveRow(r) => \/ LookedAfter(r)
                              \/ rows[r].state = "blocked" /\ \E q \in Everyone : proc[q].at \in {"resumingRows", "reportingRows"})
      BY <3>2 DEF Inv, Kept
    <3>4. QED
      BY <2>1, <2>2, <2>3, <3>1, <3>2, <3>3, ProcsAssumption DEF StageOf, One, Over, Inv, Typed, Given, GivenRow, GivenProc, LookedAfter, Runs, ActiveRow, Everyone, Active, Terminal, Middle
  <2>8. QED
    BY <2>4, <2>5, <2>6, <2>7 DEF Inv, Typed
<1>20. ASSUME NEW s \in Sessions, PromptLost(s)
      PROVE  Inv'
  <2>1. proc \in [Everyone -> Process] /\ rows \in [Dispatchers -> Assignment] /\ Daemon \in Everyone
    BY DEF Inv, Typed, TypeOK, Everyone
  <2>2. /\ proc' = proc
        /\ status' = status
        /\ rows' = rows
        /\ prompts' = prompts \ {s}
        /\ recovery' = recovery
        /\ torn' = torn
        /\ forgotten' = (forgotten \/ (\E o \in Dispatchers : ActiveRow(o) /\ rows[o].session = s /\ rows[o].due = "null"))
    BY <1>20 DEF PromptLost, Awaited, tables, stream, Runs, WritesTask, Tears, Renews, Between, Terminal
  <2>3. TypeOK'
    BY <2>1, <2>2 DEF Inv, Typed, TypeOK, Given, GivenRow, GivenProc, Everyone, Statuses, Active, Terminal
  <2>4. Given'
    <3>1. ASSUME NEW q \in Dispatchers PROVE GivenRow(q)'
      BY <2>1, <2>2 DEF Inv, Typed, Given, GivenRow, GivenProc, ActiveRow, Everyone
    <3>2. ASSUME NEW q \in Everyone PROVE GivenProc(q)'
      BY <2>1, <2>2, ProcsAssumption, SessionsAssumption DEF Inv, Typed, Given, GivenProc, Everyone
    <3>3. GivenBound'
      BY <2>1, <2>2, ProcsAssumption DEF Inv, Typed, TypeOK, Given, GivenBound, GivenProc, ActiveRow, Everyone, Process
    <3>4. QED
      BY <3>1, <3>2, <3>3 DEF Given
  <2>5. Consistent'
    <3>1. SUFFICES ASSUME ~torn'
                   PROVE  Solo' /\ Stage' /\ (Whole' => Fits') /\ Careful'
      BY DEF Consistent
    <3>2. ~torn /\ Solo /\ Stage /\ Careful /\ (Whole => Fits)
      BY <2>1, <2>2, <3>1 DEF Inv, Consistent
    <3>3. Solo'
      BY <2>1, <2>2, <3>1, <3>2 DEF Solo, Middle
    <3>4. Stage'
      <4>1. SUFFICES ASSUME NEW q \in Everyone PROVE StageOf(q)'
        BY DEF Stage
      <4>2. StageOf(q)
        BY <3>2 DEF Stage
      <4>3. QED
        BY <2>1, <2>2, <4>2, ProcsAssumption DEF StageOf, Over, One, Waits, Runs, ActiveRow, Everyone
    <3>5. Whole' => Fits'
      BY <2>1, <2>2, <3>1, <3>2, ProcsAssumption DEF Inv, Typed, Given, GivenRow, GivenProc, Solo, Stage, StageOf, Over, One, Waits, Whole, Fits, Middle, Runs, ActiveRow, Active, Terminal, Everyone
    <3>6. Careful'
      BY <2>1, <2>2, <3>1, <3>2, ProcsAssumption DEF Inv, Typed, Given, GivenRow, GivenProc, Stage, StageOf, Careful, Runs, Everyone, Terminal, Active, Middle
    <3>7. QED
      BY <3>3, <3>4, <3>5, <3>6
  <2>6. Kept'
    <3>1. SUFFICES ASSUME ~torn', ~forgotten', status' \in {"dispatched", "in_progress"},
                          \A q \in Procs : proc'[q].at \notin {"inserting", "dispatching"},
                          NEW r \in Dispatchers, ActiveRow(r)'
                   PROVE  \/ LookedAfter(r)'
                          \/ rows'[r].state = "blocked" /\ \E q \in Everyone : proc'[q].at \in {"resumingRows", "reportingRows"}
      BY DEF Kept
    <3>2. (/\ ~forgotten /\ status \in {"dispatched", "in_progress"}
           /\ \A q \in Procs : proc[q].at \notin {"inserting", "dispatching"}) =>
             (ActiveRow(r) => \/ LookedAfter(r)
                              \/ rows[r].state = "blocked" /\ \E q \in Everyone : proc[q].at \in {"resumingRows", "reportingRows"})
      BY <2>1, <2>2, <3>1 DEF Inv, Kept
    <3>3. One
      BY <2>1, <2>2, <3>1, OneActive
    <3>4. QED
      BY <2>1, <2>2, <3>1, <3>2, <3>3 DEF One, Inv, Typed, Given, GivenRow, GivenProc, LookedAfter, Runs, ActiveRow, Everyone, Active, Terminal, Middle
  <2>7. QED
    BY <2>3, <2>4, <2>5, <2>6 DEF Inv, Typed
<1>21. ASSUME NEW s \in Sessions, PublishTaskResume(s)
      PROVE  Inv'
  <2>1. proc \in [Everyone -> Process] /\ rows \in [Dispatchers -> Assignment] /\ Daemon \in Everyone
    BY DEF Inv, Typed, TypeOK, Everyone
  <2>2. /\ proc' = proc
        /\ status' = status
        /\ rows' = rows
        /\ prompts' = prompts \cup {s}
        /\ recovery' = "none"
        /\ torn' = torn
        /\ forgotten' = (forgotten /\ ~(\E o \in Dispatchers : ActiveRow(o) /\ rows[o].session = s /\ rows[o].due = "null"))
    BY <1>21 DEF PublishTaskResume, Awaited, tables, stream, Runs, WritesTask, Tears, Renews, Between, Terminal
  <2>3. TypeOK'
    BY <2>1, <2>2 DEF Inv, Typed, TypeOK, Given, GivenRow, GivenProc, Everyone, Statuses, Active, Terminal
  <2>4. Given'
    <3>1. ASSUME NEW q \in Dispatchers PROVE GivenRow(q)'
      BY <2>1, <2>2 DEF Inv, Typed, Given, GivenRow, GivenProc, ActiveRow, Everyone
    <3>2. ASSUME NEW q \in Everyone PROVE GivenProc(q)'
      BY <2>1, <2>2, ProcsAssumption, SessionsAssumption DEF Inv, Typed, Given, GivenProc, Everyone
    <3>3. GivenBound'
      BY <2>1, <2>2, ProcsAssumption DEF Inv, Typed, TypeOK, Given, GivenBound, GivenProc, ActiveRow, Everyone, Process
    <3>4. QED
      BY <3>1, <3>2, <3>3 DEF Given
  <2>5. Consistent'
    <3>1. SUFFICES ASSUME ~torn'
                   PROVE  Solo' /\ Stage' /\ (Whole' => Fits') /\ Careful'
      BY DEF Consistent
    <3>2. ~torn /\ Solo /\ Stage /\ Careful /\ (Whole => Fits)
      BY <2>1, <2>2, <3>1 DEF Inv, Consistent
    <3>3. Solo'
      BY <2>1, <2>2, <3>1, <3>2 DEF Solo, Middle
    <3>4. Stage'
      <4>1. SUFFICES ASSUME NEW q \in Everyone PROVE StageOf(q)'
        BY DEF Stage
      <4>2. StageOf(q)
        BY <3>2 DEF Stage
      <4>3. QED
        BY <2>1, <2>2, <4>2, ProcsAssumption DEF StageOf, Over, One, Waits, Runs, ActiveRow, Everyone
    <3>5. Whole' => Fits'
      BY <2>1, <2>2, <3>1, <3>2, ProcsAssumption DEF Inv, Typed, Given, GivenRow, GivenProc, Solo, Stage, StageOf, Over, One, Waits, Whole, Fits, Middle, Runs, ActiveRow, Active, Terminal, Everyone
    <3>6. Careful'
      BY <2>1, <2>2, <3>1, <3>2, ProcsAssumption DEF Inv, Typed, Given, GivenRow, GivenProc, Stage, StageOf, Careful, Runs, Everyone, Terminal, Active, Middle
    <3>7. QED
      BY <3>3, <3>4, <3>5, <3>6
  <2>6. Kept'
    <3>1. SUFFICES ASSUME ~torn', ~forgotten', status' \in {"dispatched", "in_progress"},
                          \A q \in Procs : proc'[q].at \notin {"inserting", "dispatching"},
                          NEW r \in Dispatchers, ActiveRow(r)'
                   PROVE  \/ LookedAfter(r)'
                          \/ rows'[r].state = "blocked" /\ \E q \in Everyone : proc'[q].at \in {"resumingRows", "reportingRows"}
      BY DEF Kept
    <3>2. (/\ ~forgotten /\ status \in {"dispatched", "in_progress"}
           /\ \A q \in Procs : proc[q].at \notin {"inserting", "dispatching"}) =>
             (ActiveRow(r) => \/ LookedAfter(r)
                              \/ rows[r].state = "blocked" /\ \E q \in Everyone : proc[q].at \in {"resumingRows", "reportingRows"})
      BY <2>1, <2>2, <3>1 DEF Inv, Kept
    <3>3. One
      BY <2>1, <2>2, <3>1, OneActive
    <3>4. QED
      BY <2>1, <2>2, <3>1, <3>2, <3>3 DEF One, Inv, Typed, Given, GivenRow, GivenProc, LookedAfter, Runs, ActiveRow, Everyone, Active, Terminal, Middle
  <2>7. QED
    BY <2>3, <2>4, <2>5, <2>6 DEF Inv, Typed
<1>22. ASSUME NEW o \in Dispatchers, CheckpointPasses(o) \/ dbRegisterTaskCheckpointMiss(o)
      PROVE  Inv'
  <2>1. proc \in [Everyone -> Process] /\ rows \in [Dispatchers -> Assignment] /\ Daemon \in Everyone
    BY DEF Inv, Typed, TypeOK, Everyone
  <2>2. /\ rows' \in [Dispatchers -> Assignment]
        /\ \A q \in Dispatchers :
             /\ rows'[q].session = rows[q].session
             /\ rows'[q].state = rows[q].state
             /\ (rows'[q].due = rows[q].due \/ (rows'[q].due # "null" /\ rows[q].due # "null"))
    <3>1. PICK r \in Assignment : r = rows[o]
      BY <2>1
    <3>2. rows' = [rows EXCEPT ![o] = [r EXCEPT !.due = "past"]] \/ rows' = [rows EXCEPT ![o] = [r EXCEPT !.due = "ahead"]]
      BY <1>22, <3>1 DEF CheckpointPasses, dbRegisterTaskCheckpointMiss
    <3>3. r.due # "null"
      BY <1>22, <3>1 DEF CheckpointPasses, dbRegisterTaskCheckpointMiss
    <3>4. QED
      BY <2>1, <3>1, <3>2, <3>3 DEF Assignment
  <2>3. /\ proc' = proc
        /\ status' = status
        /\ prompts' = prompts
        /\ recovery' = recovery
        /\ torn' = torn
        /\ forgotten' = forgotten
    BY <1>22 DEF CheckpointPasses, dbRegisterTaskCheckpointMiss, tables, stream, Runs, WritesTask, Tears, Renews, Between, Terminal
  <2>4. TypeOK'
    BY <2>1, <2>2, <2>3 DEF Inv, Typed, TypeOK, Given, GivenRow, GivenProc, Everyone, Statuses, Active, Terminal
  <2>5. Given'
    <3>1. ASSUME NEW q \in Dispatchers PROVE GivenRow(q)'
      BY <2>1, <2>2, <2>3 DEF Inv, Typed, Given, GivenRow, GivenProc, ActiveRow, Everyone
    <3>2. ASSUME NEW q \in Everyone PROVE GivenProc(q)'
      BY <2>1, <2>2, <2>3, ProcsAssumption, SessionsAssumption DEF Inv, Typed, Given, GivenProc, Everyone
    <3>3. GivenBound'
      BY <2>1, <2>2, <2>3, ProcsAssumption DEF Inv, Typed, TypeOK, Given, GivenBound, GivenProc, ActiveRow, Everyone, Process
    <3>4. QED
      BY <3>1, <3>2, <3>3 DEF Given
  <2>6. Consistent'
    <3>1. SUFFICES ASSUME ~torn'
                   PROVE  Solo' /\ Stage' /\ (Whole' => Fits') /\ Careful'
      BY DEF Consistent
    <3>2. ~torn /\ Solo /\ Stage /\ Careful /\ (Whole => Fits)
      BY <2>1, <2>2, <2>3, <3>1 DEF Inv, Consistent
    <3>3. Solo'
      BY <2>1, <2>2, <2>3, <3>1, <3>2 DEF Solo, Middle
    <3>4. Stage'
      <4>1. SUFFICES ASSUME NEW q \in Everyone PROVE StageOf(q)'
        BY DEF Stage
      <4>2. StageOf(q)
        BY <3>2 DEF Stage
      <4>3. QED
        BY <2>1, <2>2, <2>3, <4>2, ProcsAssumption DEF StageOf, Over, One, Waits, Runs, ActiveRow, Everyone, Inv, Typed, Given, GivenProc
    <3>5. Whole' => Fits'
      BY <2>1, <2>2, <2>3, <3>1, <3>2, ProcsAssumption DEF Inv, Typed, Given, GivenRow, GivenProc, Solo, Stage, StageOf, Over, One, Waits, Whole, Fits, Middle, Runs, ActiveRow, Active, Terminal, Everyone
    <3>6. Careful'
      BY <2>1, <2>2, <2>3, <3>1, <3>2, ProcsAssumption DEF Inv, Typed, Given, GivenRow, GivenProc, Stage, StageOf, Careful, Runs, Everyone, Terminal, Active, Middle
    <3>7. QED
      BY <3>3, <3>4, <3>5, <3>6
  <2>7. Kept'
    <3>1. SUFFICES ASSUME ~torn', ~forgotten', status' \in {"dispatched", "in_progress"},
                          \A q \in Procs : proc'[q].at \notin {"inserting", "dispatching"},
                          NEW r \in Dispatchers, ActiveRow(r)'
                   PROVE  \/ LookedAfter(r)'
                          \/ rows'[r].state = "blocked" /\ \E q \in Everyone : proc'[q].at \in {"resumingRows", "reportingRows"}
      BY DEF Kept
    <3>2. QED
      BY <2>1, <2>2, <2>3, <3>1, <2>6, ProcsAssumption DEF Inv, Typed, Given, GivenRow, GivenProc, GivenBound, Consistent, Solo, Kept, LookedAfter, Stage, StageOf, Over, One, Waits, Whole, Fits, Middle, Runs, ActiveRow, Active, Terminal, Everyone
  <2>8. QED
    BY <2>4, <2>5, <2>6, <2>7 DEF Inv, Typed
<1>23. ASSUME RecoveryLists \/ RecoverActiveTask
      PROVE  Inv'
  <2>1. proc \in [Everyone -> Process] /\ rows \in [Dispatchers -> Assignment] /\ Daemon \in Everyone
    BY DEF Inv, Typed, TypeOK, Everyone
  <2>2. /\ proc' = proc
        /\ status' = status
        /\ rows' = rows
        /\ prompts' = prompts
        /\ recovery' \in {"none", "listed"} \cup {rows[o].session : o \in {q \in Dispatchers : ActiveRow(q)}}
        /\ torn' = torn
        /\ forgotten' = forgotten
    BY <1>23 DEF RecoveryLists, RecoverActiveTask, tables, stream, Runs, WritesTask, Tears, Renews, Between, Terminal
  <2>3. TypeOK'
    BY <2>1, <2>2 DEF Inv, Typed, TypeOK, Given, GivenRow, GivenProc, Everyone, Statuses, Active, Terminal
  <2>4. Given'
    <3>1. ASSUME NEW q \in Dispatchers PROVE GivenRow(q)'
      BY <2>1, <2>2 DEF Inv, Typed, Given, GivenRow, GivenProc, ActiveRow, Everyone
    <3>2. ASSUME NEW q \in Everyone PROVE GivenProc(q)'
      BY <2>1, <2>2, ProcsAssumption, SessionsAssumption DEF Inv, Typed, Given, GivenProc, Everyone
    <3>3. GivenBound'
      BY <2>1, <2>2, ProcsAssumption DEF Inv, Typed, TypeOK, Given, GivenBound, GivenProc, ActiveRow, Everyone, Process
    <3>4. QED
      BY <3>1, <3>2, <3>3 DEF Given
  <2>5. Consistent'
    <3>1. SUFFICES ASSUME ~torn'
                   PROVE  Solo' /\ Stage' /\ (Whole' => Fits') /\ Careful'
      BY DEF Consistent
    <3>2. ~torn /\ Solo /\ Stage /\ Careful /\ (Whole => Fits)
      BY <2>1, <2>2, <3>1 DEF Inv, Consistent
    <3>3. Solo'
      BY <2>1, <2>2, <3>1, <3>2 DEF Solo, Middle
    <3>4. Stage'
      <4>1. SUFFICES ASSUME NEW q \in Everyone PROVE StageOf(q)'
        BY DEF Stage
      <4>2. StageOf(q)
        BY <3>2 DEF Stage
      <4>3. QED
        BY <2>1, <2>2, <4>2, ProcsAssumption DEF StageOf, Over, One, Waits, Runs, ActiveRow, Everyone
    <3>5. Whole' => Fits'
      BY <2>1, <2>2, <3>1, <3>2, ProcsAssumption DEF Inv, Typed, Given, GivenRow, GivenProc, Solo, Stage, StageOf, Over, One, Waits, Whole, Fits, Middle, Runs, ActiveRow, Active, Terminal, Everyone
    <3>6. Careful'
      BY <2>1, <2>2, <3>1, <3>2, ProcsAssumption DEF Inv, Typed, Given, GivenRow, GivenProc, Stage, StageOf, Careful, Runs, Everyone, Terminal, Active, Middle
    <3>7. QED
      BY <3>3, <3>4, <3>5, <3>6
  <2>6. Kept'
    <3>1. SUFFICES ASSUME ~torn', ~forgotten', status' \in {"dispatched", "in_progress"},
                          \A q \in Procs : proc'[q].at \notin {"inserting", "dispatching"},
                          NEW r \in Dispatchers, ActiveRow(r)'
                   PROVE  \/ LookedAfter(r)'
                          \/ rows'[r].state = "blocked" /\ \E q \in Everyone : proc'[q].at \in {"resumingRows", "reportingRows"}
      BY DEF Kept
    <3>2. QED
      BY <2>1, <2>2, <3>1, <2>5, ProcsAssumption DEF Inv, Typed, Given, GivenRow, GivenProc, GivenBound, Consistent, Solo, Kept, LookedAfter, Stage, StageOf, Over, One, Waits, Whole, Fits, Middle, Runs, ActiveRow, Active, Terminal, Everyone
  <2>7. QED
    BY <2>3, <2>4, <2>5, <2>6 DEF Inv, Typed
<1>24. CASE UNCHANGED vars
  BY <1>24 DEF vars, tables, stream, Inv, Typed, TypeOK, Given, GivenRow, GivenProc, GivenBound, ActiveRow, Consistent, Solo, Stage, StageOf, Over, One, Waits, Whole, Fits, Careful, Runs, Kept, LookedAfter, Active
<1>25. QED
  BY <1>1, <1>2, <1>3, <1>4, <1>5, <1>6, <1>7, <1>8, <1>9, <1>10, <1>11, <1>12, <1>13, <1>14, <1>15, <1>16, <1>17, <1>18, <1>19, <1>20, <1>21, <1>22, <1>23, <1>24
  DEF Next, CommandStarts, CommandGoesOn, Resumes, GoesOn, Runtime, Checkpoints, Everyone

\* The invariant holds at the beginning.
LEMMA InvInit == Init => Inv
<1> SUFFICES ASSUME Init
             PROVE  Inv
  OBVIOUS
<1>1. NoRow \in Assignment /\ NoRow.state = "none" /\ NoRow.due = "null"
  BY DEF NoRow, Assignment
<1>2. Idle \in Process /\ Idle.at = "idle" /\ Idle.session = NoSession /\ Idle.bound = {}
  BY DEF Idle, Process, Places
<1>3. /\ \A o \in Dispatchers : rows[o].state = "none" /\ rows[o].due = "null"
      /\ \A p \in Everyone : proc[p].at = "idle" /\ proc[p].session = NoSession /\ proc[p].bound = {}
      /\ Daemon \in Everyone
  BY <1>1, <1>2 DEF Init, Everyone
<1>4. TypeOK
  BY <1>1, <1>2 DEF Init, TypeOK, Statuses
<1>5. Given
  BY <1>3, SessionsAssumption DEF Given, GivenRow, GivenProc, GivenBound, ActiveRow
<1>6. Consistent
  BY <1>3 DEF Init, Consistent, Solo, Stage, StageOf, Whole, Fits, One, Over, Waits, Careful, Runs, Middle, ActiveRow
<1>7. Kept
  BY DEF Init, Kept
<1>8. QED
  BY <1>4, <1>5, <1>6, <1>7 DEF Inv, Typed

\* The invariant of the theorems below holds.
LEMMA Invariant == Spec => []Inv
<1>1. Inv /\ [Next]_vars => Inv'
  BY InvStep
<1>2. QED
  BY InvInit, <1>1, PTL DEF Spec

\* The tables and the processes hold what they are declared to hold.
THEOREM TypeCorrect == Spec => []TypeOK
<1>1. Inv => TypeOK
  BY DEF Inv, Typed
<1>2. QED
  BY <1>1, Invariant, PTL

\* A task and its rows tell the same story whenever nobody is between two writes,
\* whoever dispatches, reports, blocks, completes, accepts and recovers it in
\* processes of their own, unless writes have fallen between those of another
\* function or a process has ended between its own (task-db.ts).
THEOREM RowsFit == Spec => []RowFitsTask
<1>1. Inv => RowFitsTask
  BY DEF Inv, Consistent, Fits, One, Over, Waits, RowFitsTask
<1>2. QED
  BY <1>1, Invariant, PTL

\* An active task that is not blocked has a checkpoint, a prompt on its way, or
\* a recorded reason why nobody looks after it.
THEOREM NoneForgotten == Spec => []NotForgotten
<1>1. Inv => NotForgotten
  <2>1. SUFFICES ASSUME Inv, status \in {"dispatched", "in_progress"}, Whole, ~torn, ~forgotten,
                        NEW o \in Dispatchers, ActiveRow(o)
                 PROVE  LookedAfter(o)
    BY DEF NotForgotten, LookedAfter
  <2>2. \A p \in Procs : proc[p].at \notin {"inserting", "dispatching"}
    BY <2>1 DEF Whole, Middle, Everyone
  <2>3. QED
    BY <2>1, <2>2 DEF Inv, Kept, Whole, Middle
<1>2. QED
  BY <1>1, Invariant, PTL

================================================================================
