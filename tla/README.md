# Otto in TLA+

Otto is a daemon that turns chat messages, timers and events into prompts for long-lived agent
sessions. These modules specify its concurrent core: how a prompt reaches a daemon, how it finds or
starts the runtime of its session in a bounded pool, how the runtime's queue decides when the
provider gets it, which daemon runs the periodic work, how schedules and events become prompts, and
how tasks and workflows advance while commands, sessions and daemons change the same tables. TLC
checks them on small instances and TLAPS proves the main results for every instance. Paths are
relative to the repository (`src/...`); `PROJECT.json` maps each definition to its lines.

## Inventory

| Component | State | Operations | Talks to |
|---|---|---|---|
| Prompt stream (`src/omni/session-stream.ts`) | stream SESSION_PROMPTS (work queue in memory, max_age 60 s), consumer `otto-prompts` (ack_wait 300 s) | ensure, publish, deliver, ack, nak | every publisher; the pull loops |
| Pull loop (`src/runtime/prompt-subscription.ts`, `src/bot.ts`) | running, the consumer iterator | run, health check, ack then handle, stop | stream; dispatcher |
| Dispatcher (`src/runtime/session-dispatcher.ts`) | streamingSessions, startReservations, pendingStarts, stashedMessages, pendingStartSessions, startingSessions, debounce and deferred starts | handlePrompt, abort, model change, recoverIdleGap, shutdownAll, drainPendingStarts | launcher, queue, event loop (all share its maps) |
| Launcher (`src/runtime/session-launcher.ts`) | none of its own | startRuntimeSession | maps of the dispatcher, provider |
| Delivery queue (`src/runtime/delivery-queue.ts`, `src/delivery-barriers.ts`) | the session object: pendingMessages, pushMessage, pendingWake, turnActive, interrupted | the message generator, wake-ups, the interrupt decision | task database; provider |
| Event loop (`src/runtime/host-event-loop.ts`) | the same session object: toolRunning, currentToolSafety, compacting, done | one handler per provider event, watchdogs, the final release | provider; dispatcher's maps and stash |
| Leader election (`src/leader/index.ts`, `src/daemon.ts`) | a KV key with a TTL, a renewal timer | acquire, renew, watch, release | heartbeat, cron and checkpoint runners |
| Runtime subscriptions (`src/runtime/host-subscriptions.ts`) | none | task, abort and model-changed events | dispatcher, queue |
| Cron runner (`src/cron/runner.ts`) | one timer, a processing flag, table cron_jobs | due jobs, manual run, refresh, commands | leader, prompts |
| Trigger runner (`src/triggers/runner.ts`) | subscriptions with a copy of their triggers, table triggers | rebuild, event, fire, retry, commands | every topic, prompts |
| Tasks (`src/tasks/service.ts`, `task-db.ts`) | tables tasks, task_assignments, task_dependencies, task_launch_plans | dispatch, report, block, complete, depend, recover, checkpoints | prompts, dispatcher's barriers, workflows |
| Workflows (`src/workflows/service.ts`) | tables of runs, nodes, edges and attempts | release, skip, cancel, archive, attach, copy, reconcile | tasks |
| Heartbeat, ephemeral reaper | timers, database rows | fire, expire | publish prompts |
| Approvals (`src/approval/service.ts`) | pending requests | ask, answer, time out | channels, NATS |
| Fusion | database rows | review, failover | prompts, event loop |
| Providers (Claude, Codex, Pi) | a child process or SDK query | one turn per prompt, interrupt | queue, event loop |
| Gateway, router, contacts, permissions, traces, CLI, TUI, SDK, web | database rows, I/O | conversions and queries | - |

Node runs all of one daemon on one thread, so the interleaving is that of the code between two
awaits; across daemons it is that of NATS requests, and across the processes of the command line
that of their statements on one SQLite file. What is hard in this code, and tested little:

- entries of maps are kept by session NAME while a name may have two runtimes at a time (one ends,
  one begins), so a late `finally` or `catch` acts on its successor's entry;
- slots of the pool are counted by names too, and given back on some ten different paths;
- the session object is written by four parties (dispatcher, generator, event loop, task events) with
  awaits between reading and writing;
- the provider runs ahead of the loop that learns of its tools and turns;
- acknowledgement comes before handling, with two timeouts of the stream racing each other;
- a lease is renewed without looking at who holds it;
- a job, a trigger or a task is read, something is awaited, and the row is written from what was read;
- commands on tasks and workflows check in one statement and write in the next, two tables or a list of
  nodes one after the other, without a transaction; a write may wait seconds for the lock of the file, and
  the process may end in between; nothing but the next command repairs what they left.

`PROJECT.json` lists these hazards one by one, with their lines and the properties that cover them.

## Modules

- **SessionDispatcher** - the dispatcher with its launcher, the end of the event loop and the stash.
  An *incarnation* is one call of `startStreamingSession` with the runtime it creates; the record
  `inc[i]` holds where its coroutine stands (`phase`) and what matters of its session object. One
  action per way a prompt goes (`PromptPushed`, `PromptSteers`, `PromptRestarts`,
  `PromptChangesModel`, `PromptReplacesDone`, `PromptStashed`, `PromptColdStarts`), per continuation
  of a start, per end of a runtime and per control operation. The helpers of the pool
  (`reserveRuntimeSessionStart`, `ReleaseSlot`, `drainPendingStarts`, ...) are functions of a record
  of four variables, `Now`, so that a handler that calls three of them in a row is one action, and so
  that they can be reasoned about one at a time. The array `pendingStarts` is the set of starts that
  wait, each with the set `ahead` of those before it: same order, and proofs need no sequences.
  Turns are abstract: a turn takes some of the oldest prompts of the queue.
- **DeliveryQueue** - one runtime seen from inside: queue, barriers, generator, wake-ups, the event
  loop's handlers, and a provider that emits events the loop handles later. Aborts and restarts by
  the dispatcher are not here but in SessionDispatcher. A prompt accepted by native steering in the
  middle of a turn never enters the queue and is not in this module. Of the provider only the
  contract counts: one terminal event per turn, tools and compactions within, an interrupt that may
  come too late. `answered`, `cut` and `asked` are history variables of the properties.
- **PromptStream** - stream, consumer and the pull loop of each daemon, with crashes, shutdowns, lost
  acks, failed ensures and server restarts that lose the memory stream. One tick is 60 s.
- **LeaderElection** - the lease, which is only the time the key has left because the code never
  compares its value; start-up, vacancy poll, renewal puts in flight, release, crash. `freed` records
  that a daemon which was shut down deleted the key of another.
- **Mailbox** - the abstract promise of a live session, without queue, generator or provider: an
  accepted prompt waits until a turn takes it, turns come one at a time and end as a whole, an
  answered prompt comes back only if an interrupt was asked for, and a session that closes leaves
  what waits to its successor unless it was aborted. DeliveryQueue implements it
  (`ImplementsMailbox`, an INSTANCE with a refinement mapping).
- **SlotPool** - the abstract promise of the pool, without handlers, reservations or continuations: a
  counting semaphore with an interactive and a background lane and one queue. A step gives slots back,
  serves at once the starts whose turn it is, and lets at most one more ask, which gets a slot or waits as
  the last; no start waits beside a slot of its lane. SessionDispatcher implements it where
  `SettledGap = FALSE` (`ImplementsSlotPool`): `held` is the names in use with those whose continuation
  will reserve a slot again (`Claims`), `queue` the waiting starts with their lanes and order (`QueueOf`).
- **CronRunner** - the jobs table, the one timer of the leading daemon, and `executeJob` twice at a
  time: for the timer, which has the processing flag, and for a manual run, which has none. An
  execution is a snapshot of the row with a place (`publishing`, `answered`, `refused`): the prompt
  may be stored or not, and the daemon may learn of it or not. `calculateNextRun` keeps the three
  kinds of schedule, `SetTimeout` the longest delay of the JavaScript engine. Commands change rows at
  any time and signal the leader, or their signal is lost.
- **TriggerRunner** - the subscriptions of one daemon as asynchronous generators: `closing` is one
  whose `return()` waits behind its pending `next()` and that still gets an event; each has its own
  copy of its triggers and of when they fired. Every topic is rebuilt on a refresh; a failed stream
  comes back with the list it had.
- **TaskLaunch** - which tasks may start. Each process is in the middle of one command (`proc`), with
  what it has read and goes by; a step is one write, or the reads before it: the check of a status and its
  UPDATE, the list of the dependents and their UPDATE, the deletion of a launch plan and the UPDATE that
  makes the task active, the checks of a new dependency and its INSERT. Dependencies, launch plans,
  completion with the launch of the dependents one by one, edits of dependencies, recovery. Histories say
  who gave a plan up (`stranded`), whose completion went no further (`unheard`), which dependency its check
  could not see (`blind`), and which was inserted after the completion that it was read before (`late`).
- **TaskWork** - what a dispatched task goes through: its assignments with their checkpoints, the
  dispatch in each process, the prompts in the stream, the runtime that takes one, reports by anybody,
  blocks, the checkpoint sweep, recovery. Dispatch, report, block, end, resume and bootstrap write the task
  and its assignments by one statement each, and each statement is a step: `Middle` are the places between.
  `rows` are the active rows by the process that inserted them: a process supersedes what is active before
  it inserts, but two at a time leave two. `torn` says that a write fell between the writes of another
  function, or that a process ended there; `forgotten`, that nobody looks after the assignment.
- **Workflows** - one run: the nodes with their predecessors, kinds and release modes, the task each
  has and had (`owner`, `attempt`), and processes that are about to write what they derived from what they
  read. Every UPDATE names its row and nothing that was read of it, so it writes over whatever the row is by
  then. A pass of the reconcile loop lists the nodes (`plan`), visits one after the other, in any order, and
  writes those that differ; the run's status is derived from the nodes in one step and written in the next;
  an attempt is checked, counted, inserted and bound in four. A node that stays pending may be written again
  (the code compares the keys it waits for). Histories: `drifted`, `late`, `taken`, `early`.
- **MCSessionDispatcher, MCDeliveryQueue, MCPromptStream, MCLeaderElection, MCCronRunner,
  MCTriggerRunner, MCTaskLaunch, MCTaskWork, MCWorkflows** - the instances for TLC:
  symmetry sets, the barriers of the prompts, schedules and workflow graphs, the restricted next-state relation `LanesNext`, and the
  loop of `drainPendingStarts` as the code writes it.
- **SessionDispatcherProofs, DeliveryQueueProofs, PromptStreamProofs, LeaderElectionProofs,
  TaskLaunchProofs, TaskWorkProofs, WorkflowsProofs** - the theorems about the module of that name,
  with their proofs; **RunnerProofs** - those about TriggerRunner and CronRunner.

The runtime of SessionDispatcher and the queue of DeliveryQueue are two views of the same session
object; PromptStream ends where SessionDispatcher's prompts begin (`HandlePrompt` is `Accepts`).
CronRunner has one runner at a time, which is what LeaderElection shows; TriggerRunner has no leader
in the code, every daemon runs one. What CronRunner, TriggerRunner and TaskWork publish goes into
PromptStream; TaskWork loses prompts where PromptStream drops them. TaskLaunch sees a dispatched task
as active, TaskWork sees a task that may start; Workflows sees of both the status alone.

## Runs

| Run | What it asks | Instance |
|---|---|---|
| `dispatcher` | the pool never counts more than its maximum (`PoolBound`); no free slot with a start waiting for it (`WorkConserving`); no leaked reservation (`ReservationsOwned`); no name that swallows prompts for ever (`NoStaleStartIndex`) | 2 names, 3 incarnations, 2 prompts, 1 slot; about 565,000 states |
| `dispatcher_lanes` | waiting starts are admitted in order (`AdmittedInOrder`); the pool is a semaphore with two lanes that keeps the reserve and leaves no slot idle (`ImplementsSlotPool`); the closed form of `drainPendingStarts` is the loop of the code (`DrainIsTheLoop`) | cold starts and aborts of 4 names in both lanes, 2 slots, 1 reserved |
| `queue` | no prompt falls out of the queue (`KeptUntilAnswered`) or waits for a wake-up that nobody sends (`NoLostWakeup`), and the queue is a mailbox (`ImplementsMailbox`) | an immediate, an after_response and an after_task prompt and a fusion revision; the provider 2 events ahead; about 860,000 states |
| `queue_live` | every queued prompt gets its turn, or the runtime ends (`EveryPromptServed`) | an after_response prompt, an after_task prompt that comes from the task itself, a revision |
| `prompt_stream` | a prompt is handled once at most (`HandledOnce`), and the pull loop survives any two faults and a poison payload (`HandledAfterFaults`) | 2 daemons, 2 prompts, 2 faults |
| `leader` | one daemon runs the runners (`AtMostOneRunner`), with a lease that outlives the work (`LeaderHoldsLease`), and somebody runs them again (`AlwaysLedAgain`) | 3 daemons, lease 3, renewal 1, one renewal lost in a row, 3 faults |
| `leader_release` | the documented claim that only one daemon runs the work (`OnlyOneRuns`), violated | 3 daemons, one shutdown |
| `task_launch` | nobody waits for what is done (`WaitsForUndone`), no plan of a task that may start is left lying (`NoStrandedPlan`), no circle (`NoCircle`) | 2 tasks that may depend on each other, 2 processes that end anywhere; about 2,850,000 states |
| `task_work` | task and assignments agree (`RowFitsTask`), an assignment is never silently forgotten (`NotForgotten`), and is taken up in the end (`AssignmentTakenUp`) | 2 sessions, 2 processes of which one dispatches, the daemon; 2 of the three busy at a time; about 145,000 states |
| `cron` | the timer is never late (`TimerCoversJobs`), publishes a run time once (`FiresOnce`), and what an edit sets stays (`NextFitsSchedule`) | 2 jobs of any of 4 schedules, 2 daemons, 1 fault, 1 command, time 0 to 2 |
| `triggers` | what is enabled is listened to once (`ListensToEnabled`), and a crowd of events does not get past a cooldown (`CooldownKept`) | 2 triggers, 2 topics, 3 subscriptions, 1 command, 2 faults |
| `workflows` | the passes reach every node, and the run (`Settled`), a run that goes on is never stuck (`NotStuck`), one task works on a node at a time (`OneAttempt`), what is over stays so (`OverStays`) | 2 graphs of 2 nodes with a gate, a manual and an optional node, 2 tasks, 2 processes |

Why the bounds are enough. In the pool the conflicts are between two incarnations of one name and one
other name that wants the slot, with a third incarnation that is started while the first has not yet
ended; more names only lengthen the queue, which `dispatcher_lanes` does. In the queue the conflicts
are between the turn that runs and one prompt that arrives, with a second in the queue behind it. In
the stream a prompt, a poison prompt, a daemon that fails and one that takes over. Three daemons are a
leader, a successor and a rival. Two faults are one fault and one during the recovery from it. In the
tables two processes are a command and the one it does not see; two tasks are the shortest circle, and
a task with its dependent; two sessions are the one that is replaced and its successor, and a report of
nobody is the stranger's. Of the two processes of `task_work` one dispatches: two dispatches at a time are
`torn` from their second write on, and the theorems cover them. `AtMostTwo` (MCTaskWork) lets two processes
be busy, and one where the tables are torn, which is what becomes of a torn task. `AtMostTwo` (MCWorkflows)
lets both be at work as long as nothing has happened to the run (`Mishaps`), one afterwards, none after two
mishaps: every race of two processes, and what one process makes of its outcome. Two nodes are a node with
its predecessor; passes that list them in one state and write in another need no third for a change to
need a second pass. A
job needs a second one for the timer to choose from, and time 2 lets an interval of 1 fire twice and
the longest delay be exceeded by a schedule of 3. A third subscription is the one that is rebuilt while
two others of the same topics have not ended. `MaxFaults`, `MaxLost`, `MaxEvents`, `MaxCommands`,
`MaxEdits`, `MaxBacklog`, `Horizon`, `ByHand`, `Awaited` and the sets of prompts, each sent once, are
the only bounds; no counter needs another.

### Where the code departs from its documentation

`leader_release` is the one run that expects a violation: any daemon that is shut down deletes the
leader's key (`findings` in `PROJECT.json` quotes the lines). The models contain other divergences,
which the passing properties name as their exceptions:

- After an abort or restart, the `finally` of the old event loop (`host-event-loop.ts:1629`) removes
  the map entry of the new runtime; its slot goes to another session and more runtimes than
  `docs/architecture.mdx` allows are live. `PoolBound` holds all the same: the pool counts names, and
  the lost runtime is in none of its maps.
- A second shutdown of a name replaces the stash of the first (`host-session.ts:133`), and its
  prompts are lost, though the next session is said to drain them.
- An interrupt requested while `turn.start` is traced, or while the terminal event is still being
  handled, reaches no turn, but its flag makes the generator keep prompts that have been answered and
  send them again; Mailbox allows it once an interrupt was `asked` for.
- `max_age` (60 s) drops an unacknowledged prompt before `ack_wait` (300 s) would redeliver it, which
  `session-stream.ts` promises. It is also why `HandledOnce` holds when an ack is lost.
- A manual run of a cron job writes the next run time, or deletes a one-shot job, though
  `docs/guides/cron-jobs.mdx` says that it leaves the schedule alone; and it writes it from what it
  read before it published, over an edit made meanwhile (`overwritten`).
- After a change of the trigger table the old subscription gets one more event, besides the new one,
  and a trigger that matches fires twice, whatever its cooldown (`doubled`; `docs/guides/triggers.mdx`
  says that it does not).
- Commands on tasks race (`src/src/tasks/task-db.ts`; TLC finds each as a violation when its exception is
  taken out of the property). A launch that throws, a process that ends, an unarchived task, a dependency
  that is satisfied by an UPDATE which had not listed it: each leaves a launch plan that only the recovery
  of a restarted daemon takes up (`stranded`). Two commands at a time can make a circle of dependencies
  (`blind`). A dependency whose prerequisite is read as not done (1090), is completed by another process,
  and is inserted then (1091) is never satisfied (`late`); a process that ends after it completed a task
  and before it told the dependents leaves them so too (`unheard`). One that ends between the deletion of a
  launch plan (1626) and the UPDATE of the task (1661) loses the launch and leaves no trace of it.
- The two tables of a task are written by two statements (`torn`). A dispatch between the UPDATEs of a
  completion (1933, 1945) leaves a dispatched task whose row is done; a process that ends there, a done task
  with an active row; two dispatches at a time, two active rows; a report between the UPDATEs of a block
  (1851, 1861), an in-progress task with a blocked row and no checkpoint. A lost dispatch prompt, or a
  report of another session for a blocked task, leaves an assignment without checkpoint (`forgotten`).
- Commands on a workflow write what they read before (`src/src/workflows/service.ts`). A report or a comment
  on a workflow's task does not copy its status to the node, which shows the old one until the next command
  (`drifted`). The run's status may be written last by a process that read the nodes before others changed
  them (496, 502), and stays: a run shown as going on with every node final (`late`). A dispatch of an
  earlier task takes the node back from its successor, and two attaches that both pass the check (854) and
  read one count after the other (`workflow-db.ts:611`) give a node two live tasks (`taken`). A pass or a
  copy that read a node before it was skipped, cancelled, archived or released writes it back (514 and 544,
  868 and 884; `early`); a gate whose release is written over so can be released no more, and `NotStuck`
  excepts it. A process that ends between the INSERT of an attempt and the UPDATE of its node leaves a
  number that is taken, and no task can be attached to that node again.

### Assumptions of the passing runs

- `SettledGap = FALSE` (SessionDispatcher): after an await of a promise that is already settled, the
  continuation runs before any other handler, as Node's microtask queue does when no timer or I/O
  callback lies between. The switch is a constant because `PoolBound` depends on it: with `TRUE`, TLC
  finds that a slot retained for a restart can be given to another start before it is reserved. The
  refinement of SlotPool has the same condition.
- `Timely = TRUE` (LeaderElection): a due renewal fires, and its put is answered, within its tick (a
  third of the lease). With `FALSE`, TLC finds two daemons with runners: the renewal is an
  unconditional put, and a leader that is late goes on leading.
- `AtMostOneRunner` and `LeaderHoldsLease` hold until a shutdown deletes another daemon's key
  (`freed`); without the exception they are the violation of `leader_release`.
- A step of TaskLaunch, TaskWork or Workflows is one write, or the reads up to the next write, because bun:sqlite
  runs in the process, there is no transaction, and the database (`router-db.ts:805-809`) is in WAL mode with
  `busy_timeout = 5000`: readers never wait, and a writer waits up to five seconds for the others, or throws.
  Between two steps of a process others read and write, and it may end (`Crash`, which is also a write that
  throws). The consecutive reads of one step are taken at one instant: what is written between two of
  them is not seen by the model as half read. `startWorkflowRun` is one step, in `Init`, since nobody knows
  the run's id before it returns; archiving and unarchiving a task are single statements.
- CronRunner has one leader at a time, and a daemon that stopped goes on with the execution it is in.
  TriggerRunner publishes nothing for as long as a tick: a cooldown is longer than a publication.
- `AlwaysLedAgain` excepts a daemon whose takeover failed while starting the runners (`Stuck`): the
  timer that keeps the lease is set before they are started, so the poll that logs "will retry" never
  finds the key missing.
- `KeptUntilAnswered` excepts the queue of an aborted runtime: the watchdogs and the overflow reset
  abort the controller without stashing it.
- Not stated as properties: that an unsafe tool is not interrupted. `abortSession` waits for it; a
  restart of the session for another agent, provider or model does not ask, and with several tools in
  a turn the first completion clears the one flag there is.

### Fairness

Weak fairness stands for code that runs when its await is over, a timer that fires, a request that is
answered or refused, and time that passes. DeliveryQueue: the generator, the loop and the task-event
subscription run; a tool that has started ends, a task ends; strong fairness of `ProviderEnds` says
that a provider does not call tools in one turn for ever. PromptStream: loops and requests progress;
strong fairness of `Deliver` per prompt is the server's first-in first-out order, which a prompt that
is rejected again and again cannot hold back; nothing makes anybody publish, start or stop, and time
need not pass. LeaderElection: polls, requests and ticks; crashes and shutdowns are never forced.
TaskWork: a process that dispatches goes on unless it crashes, the sweep runs, and strong fairness of
the runtime that takes a session's prompt, since a prompt may be lost but not every one of them.
CronRunner, TriggerRunner, TaskLaunch and Workflows state safety only: nobody makes an operator act.

## Proofs

Each theorem is about every value of the constants that the named assumptions of its module allow:
any number of sessions, prompts, daemons, processes, tasks, nodes and faults; no bound of an MC module is in them. A safety property is seldom
inductive; each proof module opens with what had to be added to it, and why.

| Module | Theorems | What the invariant adds |
|---|---|---|
| `SessionDispatcherProofs` | `TypeCorrect`; `PoolBounded` (`PoolBound`, where `SettledGap = FALSE`) | the *claims*: slots in use with those owed to continuations (`Bounded`), and a strict order on the starts that wait (`Ordered`) |
| | `DrainIsItsLoop`, of every pool; `DrainsAsTheLoop`, of every reachable one | none: each round keeps the order and the types of the pool |
| | `NoSlotLost` (`WorkConserving`); `ReservationsHeld` (`ReservationsOwned`); `IndexesFresh` (`NoStaleStartIndex`); `ServedInOrder` (`AdmittedInOrder`, an action property), whatever `SettledGap` is | the claims leave no slot to a start that waits (`Saturated`), and each name that is reserved or waited for is that of a start in flight (`Owned`) |
| | `ImplementsTheSlotPool` (`ImplementsSlotPool`, where `SettledGap = FALSE`) | nothing more: `PoolInv` and `Fair` together |
| `DeliveryQueueProofs` | `TypeCorrect`; `NothingFallsOut` (`KeptUntilAnswered`); `WakeupsArrive` (`NoLostWakeup`); `ImplementsTheMailbox` (`ImplementsMailbox`) | where the provider can be: a turn only while the generator stands at its yield, whose end is its last event (`Shape`); and what the generator will find (`Ledger`): a turn that was not interrupted has been answered, a queued prompt that was answered was asked to be interrupted or cut |
| `PromptStreamProofs` | `TypeCorrect`; `HandledAtMostOnce` (`HandledOnce`) | a prompt is in one iterator at most, and in none once handled or due again (`Tracked`); its age ends before its wait for the ack (`Covered`), which is `MaxAge <= AckWait` |
| `LeaderElectionProofs` | `TypeCorrect`; `OneRunner` (`AtMostOneRunner`), `LeaseHeld` (`LeaderHoldsLease`), both where `Timely = TRUE` | how much of the lease is left, counted from the renewals lost in a row, the one in flight and the timer; `RenewalAssumption` bounds it |
| `TaskLaunchProofs` | `TypeCorrect`; `DoneIsHeard` (`WaitsForUndone`); `PlansLookedAfter` (`NoStrandedPlan`); `CirclesRefused` (`NoCircle`) | what a command holds at each place (`Fits`); for a dependency that has passed its check, a set of tasks that shows there is no circle, as the dependencies were then (`Checked`) |
| `TaskWorkProofs` | `TypeCorrect`; `RowsFit` (`RowFitsTask`); `NoneForgotten` (`NotForgotten`) | while nothing is torn: one process at most is between two writes (`Solo`), the tables are what its writes so far make of tables that agree (`Stage`), the daemon is not about to accept a row of a task blocked since (`Careful`); `NotForgotten` with the states in between (`Kept`) |
| `RunnerProofs` | of TriggerRunner: `TypeCorrect`; `Listens` (`ListensToEnabled`); `Cools` (`CooldownKept`) | what is free lists nothing and what is closing was torn down (`Placed`); one copy of a trigger counts, and cools as long as the trigger does (`Cooling`) |
| | of CronRunner: `CronTypeCorrect`; `NeverLate` (`TimerCoversJobs`); `PublishedOnce` (`FiresOnce`); `RunTimesFit` (`NextFitsSchedule`) | what the timer works on was due, one row for each job (`DueWork`); no run time is further ahead than the commands that were used up account for (`Counted`, `Dated`); rows and what was read of them are ahead of the last publication (`Ahead`) |
| `WorkflowsProofs` | `TypeCorrect`; `Settles` (`Settled`); `NeverStuck` (`NotStuck`); `OneAtATime` (`OneAttempt`); `StaysOver` (`OverStays`, an action property) | a node that is behind has a process that will list it again, or one in a pass that goes by the tables as they are and has not come to it (`Followed`; `Counted` for the run); attempts are numbered without a gap (`Numbered`), the earlier ones over and the node's task the latest, or `taken` (`Superseded`); who may take a node back is in `early` (`Known`) |

`PoolBound` needs the longest argument. When a model change unmaps a runtime, the slot it will retain is
counted by nobody until the continuation reserves it; when two starts of a name are admitted, one of them
may give back the reservation they share. The invariant `PoolInv` therefore bounds the claims. A drain
admits a set of starts at once, so the sets `ahead` must be a strict linear order on the waiting starts:
the last start admitted was counted after all the others, hence the whole set fits. The lemmas follow the
helpers of the pool, each with what it does to types, order and claims; a step of `Next` is then a
composition of them, one proof step per action. `SettledGap = FALSE` enters where a handler may assume
that no continuation is outstanding.

`WorkConserving` is the other side of the same argument. A slot that is free although a start waits is
one that some continuation is about to take, so the invariant `Fair` says that the claims, and not only
the slots in use, leave nothing to the first of a lane. Each handler is shown to install a pool which
keeps that and serves the queue from its head (`FairStep`); the order of admissions is a consequence of
the same step. Nothing in it depends on what runs in the gap, so these theorems have no proviso.

Together the two invariants make the dispatcher a refinement of SlotPool. The bound on the claims gives the
abstract pool room for everyone it serves, and `Fair` says that nobody whose lane has a slot is left out;
the order of `Ordered` is the order of its queue. Every helper that changes the pool is shown to hand over
(`HandsTo`: some claims are given up, a set of starts is served in its turn, the queue keeps its order), and
a drain of a pool that has just been drained changes nothing; so the finally of the event loop, which drains
twice, is one step of SlotPool. A start that asks drains first and is then granted its slot or queued. The
names that SlotPool counts are the claims, not the slots in use: a runtime that is replaced keeps its slot
in the abstract pool while its successor is still in its await. With the gap another start may take that
slot meanwhile, hence the proviso.

The properties of CronRunner hold although rows are written from what was read before an await. The
proof says why: a handler that writes over an edit is recorded in `overwritten`; any other writes a run
time no earlier than the one it read, so a timer that was armed for the old one may be early, never
late. `TimerCoversJobs` needs this of manual runs and of the executions of a former leader, which
do not arm the timer. That the types bound every time needs a count: a manual run moves a run time on by
an interval without waiting for it, hence `Slack`, the commands that were given less the manual runs they
may still lead to. The attempt to prove it corrected the model: an edit used to end the exception of
`overwritten` at once, and `TimerCoversJobs` then fails when a manual run that had read the row before
is still to write it, which takes four commands and so was out of the run's reach.
`Schedules` is assumed to be finite, because a run time could otherwise be arbitrarily far ahead.

In Workflows any write may be stale, so no step keeps the nodes right, and nothing bounds how many stale
writes follow each other. The proof of `Settled` turns this around: whoever has written a node will list them
all again before it is through, so no stale write of a node is the last word. As long as a process is about to write or to list, nothing is claimed; when none
is, a node that is behind is still to be visited by a pass whose list is what the tables say. In TaskWork the
histories do the same: once torn, nothing is claimed until a dispatch or an end writes everything anew with
nobody between two writes.

The refinement of Mailbox is proved from the same invariant as `KeptUntilAnswered`: with it every step of
the queue is a step of the mailbox or changes nothing that the mailbox sees, one lemma per party (the
senders, the generator, the loop).

The model drains the queue in one step, by a closed form; `drainPendingStarts` is a loop that looks again
for the first start with a slot after each one it admits. `DrainIsItsLoop` proves the two equal for every
pool, by rounds rather than by recursion: a round takes one start out of the set that the closed form admits
and leaves the others in it (`RoundAdmits`, `RoundDrains`), a pool without a round left is unchanged by the
closed form (`LoopFinds`, `FullDrains`), and each round leaves one start less to wait. `DrainsAsTheLoop` says
it of every reachable state of the dispatcher, whatever slots are given back.

Only model-checked: all liveness (`AlwaysLedAgain`, `HandledAfterFaults`, `EveryPromptServed`,
`AssignmentTakenUp`), since liveness under fairness is beyond the prover; and `DrainIsTheLoop`, which
compares the closed form with the loop as a recursive operator over an array (the same loop, by its rounds,
is `DrainIsItsLoop`). Every other property of the passing runs is a theorem.

Left to the theorems alone, beyond the instances: a dependency inserted between the list of a completion and
its UPDATE whose task is none of those listed needs three tasks, and two dispatches at a time two dispatchers.

## Abstractions

What a reader who compares line by line will miss, and why it does not matter to the properties:
SessionDispatcher leaves out the launcher's early return for a session that does not resolve and what throws
before the map is set (`session-launcher.ts:83-203`), which end a start as a failed build does.
LeaderElection merges the deletion of the key with the exit of the daemon (`daemon.ts:127-163`) and the start
of the three runners (347-351, 359-363). TriggerRunner leaves out the skip of blocked topics
(`triggers/runner.ts:127-130`), which the commands refuse. CronRunner leaves out edits of delete-after, and its
instance has no job that is deleted after its run (`DeleteAfterRun`), which the theorems cover; an invalid
cron expression is a schedule that never fires. Workflows leaves out the archived run (`service.ts:443-445`), which nothing sets.
TaskWork leaves out `resetCheckpoint = false` (`task-db.ts:1747-1749`), which no caller asks for, and a stale
assignment, which recovery skips, is one of the outcomes of `RecoverActiveTask`.

## Not modelled

The debounce window, the deferred after_task starts and the idle-gap timer of the dispatcher; control
requests; what the event loop records (usage, cost, goals, traces, observation); the providers' processes
and protocols; of tasks their profiles, files and comments, of workflows their definition. Heartbeat, the
ephemeral reaper, approvals and fusion are planned below. The other components marked `not_modelled` in
`PROJECT.json` have no protocol of their own: routing, contacts, permissions, user interfaces, media and
traces are synchronous database access, conversions and I/O, and most of the repository's lines are
there, in generated schemas and clients, and in the command line.

## Plan

Done: the prompt's way from the stream through the pool to the provider, the lease, what makes prompts
(cron, triggers, tasks) and what tasks are organised by (workflows), with the abstract mailbox of a
session and the abstract semaphore of the pool, both with their refinement theorems, and the proofs of
all safety properties that the runs check but the recursive `DrainIsTheLoop`.
Next, in this order:

1. Deferred after_task starts, debounce and the task-event loop, with the deadlock hazard between the
   loop and a start that waits for a slot (`host-subscriptions.ts:212`).
2. The stash of the dispatcher against **Mailbox**: a session over the lives of its runtimes, with the
   idle-gap timer and a shutdown that replaces a stash.
3. **Approval** - request, answer and timeout; the **ephemeral reaper** against a late prompt; the
   heartbeat with its pending prompt; fusion's review.
