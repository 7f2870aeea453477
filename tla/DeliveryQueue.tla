---------------------------- MODULE DeliveryQueue ----------------------------
(***************************************************************************)
(* One live runtime of a session: its queue of prompts with their delivery *)
(* barriers (src/src/runtime/delivery-queue.ts), the pushes of the         *)
(* dispatcher (session-dispatcher.ts) and the event loop that tells the    *)
(* queue how its turns end (host-event-loop.ts).                           *)
(*                                                                         *)
(* The provider works on its own: it starts and ends tools, compacts and   *)
(* ends turns, and the loop learns of it later, from the events it pulls.  *)
(* The message generator is pulled by the provider, only between turns,    *)
(* and stands at its yield while a turn runs.  An action is the code       *)
(* between two awaits.  Aborts and restarts by the dispatcher are in       *)
(* SessionDispatcher, where the turns of this module are abstract.         *)
(***************************************************************************)
EXTENDS Naturals, Sequences, FiniteSets

CONSTANTS
  Messages,    \* the prompts, each queued at most once
  Revisions,   \* those that only the review of a fused turn may queue
  Barrier,     \* the delivery barrier of each prompt
  OwnTask,     \* taskBarrierTaskId: the task a prompt does not wait for
  Tasks,       \* tasks assigned to the session
  NoTask,
  MaxEvents    \* bound: events the provider is ahead of the loop

Barriers == {"immediate_interrupt", "after_tool", "after_response", "after_task"}

ASSUME MessagesAssumption == Revisions \subseteq Messages /\ NoTask \notin Tasks
ASSUME BarrierAssumption == /\ Barrier \in [Messages -> Barriers]
                            /\ OwnTask \in [Messages -> Tasks \cup {NoTask}]
ASSUME EventsAssumption == MaxEvents \in Nat \ {0}

VARIABLES
  queue,        \* pendingMessages
  sent,         \* prompts queued so far
  gen,          \* where the message generator stands
  yielded,      \* the prompts of its current turn (yieldedIds)
  turnActive,
  interrupted,
  pendingWake,
  toolRunning,
  safety,       \* currentToolSafety
  compacting,
  handling,     \* a handler of the event loop that is at an await
  aborted,      \* abortController.signal.aborted
  done,
  stash,        \* what the runtime leaves in stashedMessages
  provider,     \* the provider's turn: open, told to stop, what it runs
  events,       \* emitted and not yet handled
  activeTasks,  \* dispatched, in progress or blocked, in the task database
  taskEvents,   \* task.done events not yet handled
  answered,     \* history: prompts whose turn completed or failed
  cut,          \* history: prompts whose turn the provider stopped or was told to stop
  asked         \* history: prompts whose turn was asked to be interrupted

turn == <<turnActive, toolRunning, safety, compacting, handling>>
outcome == <<aborted, done, stash>>
tasks == <<activeTasks, taskEvents>>
history == <<answered, cut, asked>>
vars == <<queue, sent, gen, yielded, turnActive, interrupted, pendingWake, toolRunning,
          safety, compacting, handling, aborted, done, stash, provider, events,
          activeTasks, taskEvents, history>>

\* between: it will run its loop next, pulled or woken; waiting: pushMessage is
\* set; tracing: awaiting traceTurnStart; yielded: at its yield
Places == {"between", "waiting", "tracing", "yielded", "ended"}

\* what a provider's turn runs, and reports as tool.started, tool.completed or
\* as a status
Activities == {"safe", "unsafe", "compaction"}
Closed == [open |-> FALSE, told |-> FALSE, running |-> {}]

------------------------------------------------------------------------------
(* Delivery barriers                                                        *)

dbHasActiveTaskForSession(m) == activeTasks \ {OwnTask[m]} # {}

isGeneratingText == ~done /\ turnActive /\ ~compacting /\ ~toolRunning

canReleaseRuntimeDeliveryBarrier(m) ==
  /\ ~compacting
  /\ IF Barrier[m] = "immediate_interrupt" THEN ~(toolRunning /\ safety = "unsafe")
                                           ELSE ~toolRunning
  /\ Barrier[m] \in {"after_response", "after_task"} => ~isGeneratingText
  /\ Barrier[m] = "after_task" => ~dbHasActiveTaskForSession(m)

getDeliverableRuntimeMessages(q) == {m \in q : canReleaseRuntimeDeliveryBarrier(m)}

\* shouldInterruptRuntimeForIncoming, for a generator that is not waiting
shouldInterruptRuntimeForIncoming(m) ==
  /\ ~compacting /\ turnActive
  /\ ~(Barrier[m] = "after_task" /\ dbHasActiveTaskForSession(m))
  /\ IF toolRunning THEN Barrier[m] = "immediate_interrupt" /\ safety # "unsafe"
                    ELSE Barrier[m] \notin {"after_response", "after_task"}

Init ==
  /\ queue \in {{m} : m \in Messages \ Revisions} /\ sent = queue
  /\ gen = "between" /\ yielded = {}
  /\ turnActive = FALSE /\ interrupted = FALSE /\ pendingWake = FALSE
  /\ toolRunning = FALSE /\ safety = "none" /\ compacting = FALSE /\ handling = "none"
  /\ aborted = FALSE /\ done = FALSE /\ stash = {}
  /\ provider = Closed /\ events = <<>>
  /\ activeTasks \in SUBSET Tasks /\ taskEvents = {}
  /\ answered = {} /\ cut = {} /\ asked = {}

------------------------------------------------------------------------------
(* Prompts and tasks: handlePromptImmediate on a live runtime, task events  *)

WakesOnlyIfTold(q) ==
  /\ gen' = IF gen = "waiting" /\ pendingWake THEN "between" ELSE gen
  /\ pendingWake' = (gen # "waiting")

\* pushMessage is taken and called: the generator runs on.  With nothing to
\* deliver it stays; when it does not wait it is told to look again.
WakeIfDeliverable(q) ==
  IF gen = "waiting"
    THEN /\ gen' = IF getDeliverableRuntimeMessages(q) # {} THEN "between" ELSE gen
         /\ pendingWake' = (pendingWake /\ gen' = "waiting")
    ELSE /\ pendingWake' = TRUE
         /\ UNCHANGED gen

Queued(m) ==
  /\ m \in Messages \ (sent \cup Revisions) /\ ~done
  /\ queue' = queue \cup {m} /\ sent' = sent \cup {m}

PushWakes(m) ==
  /\ Queued(m) /\ gen = "waiting"
  /\ WakeIfDeliverable(queue')
  /\ UNCHANGED <<yielded, turn, interrupted, outcome, provider, events, tasks, history>>

\* queued_busy; in the gap between two turns the generator is woken
PushQueues(m) ==
  /\ Queued(m) /\ gen # "waiting" /\ ~shouldInterruptRuntimeForIncoming(m)
  /\ IF ~compacting /\ ~turnActive
       THEN WakeIfDeliverable(queue')
       ELSE UNCHANGED <<gen, pendingWake>>
  /\ UNCHANGED <<yielded, turn, interrupted, outcome, provider, events, tasks, history>>

\* queryHandle.interrupt() reaches a turn of the provider if there is one.
PushInterrupts(m) ==
  /\ Queued(m) /\ gen # "waiting" /\ shouldInterruptRuntimeForIncoming(m)
  /\ interrupted' = TRUE
  /\ provider' = [provider EXCEPT !.told = provider.open]
  /\ asked' = asked \cup yielded
  /\ cut' = IF provider.open THEN cut \cup yielded ELSE cut
  /\ UNCHANGED <<gen, yielded, turn, pendingWake, outcome, events, tasks, answered>>

TaskEnds(t) ==
  /\ t \in activeTasks
  /\ activeTasks' = activeTasks \ {t} /\ taskEvents' = taskEvents \cup {t}
  /\ UNCHANGED <<queue, sent, gen, yielded, turn, interrupted, pendingWake, outcome,
                 provider, events, history>>

\* handleTaskEventForRuntime: wakeStreamingSessionIfDeliverable
TaskEventHandled(t) ==
  /\ t \in taskEvents
  /\ taskEvents' = taskEvents \ {t}
  /\ IF done THEN UNCHANGED <<gen, pendingWake>> ELSE WakeIfDeliverable(queue)
  /\ UNCHANGED <<queue, sent, yielded, turn, interrupted, outcome, provider, events,
                 activeTasks, history>>

------------------------------------------------------------------------------
(* createRuntimeMessageGenerator                                            *)

\* The loop from its head to the next await: it waits, or starts a turn.
Loops(q) ==
  /\ queue' = q
  /\ LET deliverable == getDeliverableRuntimeMessages(q)
     IN IF deliverable = {}
          THEN /\ gen' = "waiting" /\ pendingWake' = FALSE /\ yielded' = {}
               /\ UNCHANGED turnActive
          ELSE /\ gen' = "tracing" /\ turnActive' = TRUE /\ yielded' = deliverable
               /\ UNCHANGED pendingWake

Pulled ==
  /\ gen = "between" /\ ~done
  /\ Loops(queue)
  /\ UNCHANGED <<sent, interrupted, toolRunning, safety, compacting, handling, outcome,
                 provider, events, tasks, history>>

\* traceTurnStart is over: the prompts go to the provider, which has left its
\* loop when the runtime was aborted; then the event stream ends.
Yields ==
  /\ gen = "tracing"
  /\ IF aborted
       THEN gen' = "ended" /\ done' = TRUE /\ UNCHANGED provider
       ELSE gen' = "yielded" /\ provider' = [Closed EXCEPT !.open = TRUE] /\ UNCHANGED done
  /\ UNCHANGED <<queue, sent, yielded, turn, interrupted, pendingWake, aborted, stash,
                 events, tasks, history>>

TurnIsOver == gen = "yielded" /\ ~turnActive /\ events = <<>> /\ handling = "none" /\ ~done

Resume(flag) ==
  /\ TurnIsOver
  /\ interrupted' = flag
  /\ UNCHANGED <<sent, toolRunning, safety, compacting, handling, outcome, provider,
                 events, tasks, history>>

ResumesClearingAll == Resume(FALSE) /\ Loops(IF interrupted THEN queue ELSE {})

ResumesKeepingFlag == Resume(interrupted) /\ Loops(IF interrupted THEN queue ELSE queue \ yielded)

\* The provider comes back for its next prompt: after an interrupted turn the
\* queue is kept, else the prompts of the turn leave it.
Resumes == Resume(FALSE) /\ Loops(IF interrupted THEN queue ELSE queue \ yielded)

------------------------------------------------------------------------------
(* The provider                                                             *)

Emit(event) == Len(events) < MaxEvents /\ events' = Append(events, event)

ProviderStep ==
  /\ provider.open
  /\ UNCHANGED <<queue, sent, gen, yielded, turn, interrupted, pendingWake, outcome,
                 tasks, history>>

Starts(k) ==
  /\ ProviderStep /\ k \notin provider.running /\ ~aborted
  /\ provider' = [provider EXCEPT !.running = @ \cup {k}]
  /\ Emit(<<"started", k>>)

Ends(k) ==
  /\ ProviderStep /\ k \in provider.running
  /\ provider' = [provider EXCEPT !.running = @ \ {k}]
  /\ Emit(<<"ended", k>>)

\* one terminal event ends the turn; "overflow" is turn.complete after the
\* provider has reported that the prompt is too long
Completes(how) ==
  /\ ProviderStep /\ provider.running = {}
  /\ provider' = Closed
  /\ Emit(<<how, "turn">>)

\* of its own or because it was told to stop; what it runs is cut off
Stops(how) ==
  /\ ProviderStep
  /\ how = "interrupted" => provider.told \/ aborted
  /\ provider' = Closed
  /\ Emit(<<how, "turn">>)

------------------------------------------------------------------------------
(* The event loop: host-event-loop.ts                                       *)

NextIs(kind) == events # <<>> /\ events[1][1] = kind
Took == events' = Tail(events)

SafetyOfStatus(k) == k

\* a status says nothing of tools
SafetyOf(k) == IF k = "compaction" THEN safety ELSE k

\* tool.started and status; the safety of a peer consult is set after an await
HandlesStart(k) ==
  /\ handling = "none" /\ events # <<>> /\ events[1] = <<"started", k>>
  /\ Took
  /\ compacting' = (compacting \/ k = "compaction")
  /\ toolRunning' = (toolRunning \/ k # "compaction")
  /\ \/ /\ safety' = SafetyOf(k)
        /\ UNCHANGED handling
     \/ /\ k = "unsafe" /\ handling' = "consult"
        /\ UNCHANGED safety
  /\ UNCHANGED <<queue, sent, gen, yielded, turnActive, interrupted, pendingWake, outcome,
                 provider, tasks, history>>

ConsultAnnounced ==
  /\ handling = "consult"
  /\ handling' = "none" /\ safety' = "unsafe"
  /\ UNCHANGED <<queue, sent, gen, yielded, turnActive, interrupted, pendingWake,
                 toolRunning, compacting, outcome, provider, events, tasks, history>>

\* tool.completed clears the tool state, whichever tools still run
HandlesEnd(k) ==
  /\ handling = "none" /\ events # <<>> /\ events[1] = <<"ended", k>>
  /\ Took
  /\ IF k = "compaction"
       THEN compacting' = FALSE /\ UNCHANGED <<toolRunning, safety>>
       ELSE toolRunning' = FALSE /\ safety' = "none" /\ UNCHANGED compacting
  /\ UNCHANGED <<queue, sent, gen, yielded, turnActive, interrupted, pendingWake, handling,
                 outcome, provider, tasks, history>>

\* what every terminal event resets
TurnReset == /\ toolRunning' = FALSE /\ safety' = "none" /\ compacting' = FALSE
             /\ turnActive' = FALSE /\ handling' = "none"

\* The awaits of turn.complete, the review of a fused turn among them, come
\* before this; the review may ask for changes with a prompt of its own.
HandlesComplete(R) ==
  /\ handling = "none" /\ (NextIs("complete") \/ NextIs("overflow"))
  /\ Took /\ TurnReset
  /\ queue' = queue \cup R /\ sent' = sent \cup R
  /\ aborted' = (aborted \/ NextIs("overflow"))
  /\ answered' = answered \cup yielded
  /\ UNCHANGED <<gen, yielded, interrupted, pendingWake, done, stash, provider, tasks, cut, asked>>

HandlesInterrupted ==
  /\ handling = "none" /\ NextIs("interrupted")
  /\ Took /\ TurnReset
  /\ interrupted' = TRUE /\ cut' = cut \cup yielded
  /\ UNCHANGED <<queue, sent, gen, yielded, pendingWake, outcome, provider, tasks, answered, asked>>

\* turn.failed: whether the failure is the interrupt's own is decided first ...
TakesFailure ==
  /\ handling = "none" /\ (NextIs("failed") \/ NextIs("aborted") \/ NextIs("busy"))
  /\ Took
  /\ handling' = IF NextIs("busy") \/ (NextIs("aborted") /\ (interrupted \/ aborted))
                   THEN "recovering" ELSE "failing"
  /\ UNCHANGED <<queue, sent, gen, yielded, turnActive, interrupted, pendingWake, toolRunning,
                 safety, compacting, outcome, provider, tasks, history>>

\* ... and after an await the queue is stashed and the runtime ends ...
Recovers ==
  /\ handling = "recovering"
  /\ TurnReset
  /\ stash' = queue /\ done' = TRUE /\ gen' = "ended"
  /\ UNCHANGED <<queue, sent, yielded, interrupted, pendingWake, aborted, provider, events,
                 tasks, history>>

\* ... or the failure is reported and the turn is over
Fails ==
  /\ handling = "failing"
  /\ TurnReset
  /\ answered' = answered \cup yielded
  /\ UNCHANGED <<queue, sent, gen, yielded, interrupted, pendingWake, outcome, provider,
                 events, tasks, cut, asked>>

\* the stuck-tool and provider-inactivity timers
WatchdogAborts ==
  /\ toolRunning /\ provider.open /\ ~aborted /\ ~done
  /\ aborted' = TRUE
  /\ UNCHANGED <<queue, sent, gen, yielded, turn, interrupted, pendingWake, done, stash,
                 provider, events, tasks, history>>

------------------------------------------------------------------------------

PromptStep == \E m \in Messages : PushWakes(m) \/ PushQueues(m) \/ PushInterrupts(m)

TaskStep == \E t \in Tasks : TaskEnds(t) \/ TaskEventHandled(t)

GeneratorStep == Pulled \/ Yields \/ Resumes

ProviderEnds ==
  \/ \E how \in {"complete", "overflow"} : Completes(how)
  \/ \E how \in {"interrupted", "aborted", "busy", "failed"} : Stops(how)

ProviderWorks == \E k \in Activities : Starts(k) \/ Ends(k)

LoopStep ==
  \/ \E k \in Activities : HandlesStart(k) \/ HandlesEnd(k)
  \/ ConsultAnnounced
  \/ \E R \in {{}} \cup {{r} : r \in Revisions \ sent} : HandlesComplete(R)
  \/ HandlesInterrupted
  \/ TakesFailure
  \/ Recovers
  \/ Fails

Next == \/ PromptStep \/ TaskStep \/ GeneratorStep \/ ProviderEnds \/ ProviderWorks
        \/ LoopStep \/ WatchdogAborts

Spec == Init /\ [][Next]_vars

\* The loop and the generator run when they can; a tool ends; a provider does
\* not call tools for ever; a task ends, and its event arrives.
FairSpec ==
  /\ Spec
  /\ WF_vars(GeneratorStep) /\ WF_vars(LoopStep)
  /\ \A k \in Activities : WF_vars(Ends(k))
  /\ SF_vars(ProviderEnds)
  /\ \A t \in Tasks : WF_vars(TaskEnds(t)) /\ WF_vars(TaskEventHandled(t))

------------------------------------------------------------------------------
(* Properties                                                               *)

\* The session object and the provider hold what they are declared to hold.
TypeOK ==
  /\ queue \subseteq sent /\ sent \subseteq Messages
  /\ gen \in Places /\ yielded \subseteq sent
  /\ turnActive \in BOOLEAN /\ interrupted \in BOOLEAN /\ pendingWake \in BOOLEAN
  /\ toolRunning \in BOOLEAN /\ compacting \in BOOLEAN /\ safety \in {"none", "safe", "unsafe"}
  /\ handling \in {"none", "consult", "recovering", "failing"}
  /\ aborted \in BOOLEAN /\ done \in BOOLEAN /\ stash \subseteq sent
  /\ provider \in [open : BOOLEAN, told : BOOLEAN, running : SUBSET Activities]
  /\ Len(events) <= MaxEvents
  /\ activeTasks \subseteq Tasks /\ taskEvents \subseteq Tasks
  /\ answered \cup cut \cup asked \subseteq sent

\* No prompt falls out of the queue: each one has had its turn, is in the queue
\* of a runtime that runs, or is in the stash the next runtime starts with.  The
\* prompts of a runtime that was aborted are the exception.
KeptUntilAnswered ==
  \A m \in sent \ answered : m \in stash \/ (m \in queue /\ (~done \/ aborted))

\* The mailbox this queue keeps, seen by those who send to the session.
Box == INSTANCE Mailbox WITH
         Prompts <- Messages, accepted <- sent,
         turn <- IF turnActive /\ ~done THEN yielded ELSE {},
         asked <- asked \cup cut, killed <- aborted, open <- ~done, left <- stash

\* The queue implements the mailbox: turns come one at a time and end as a whole,
\* an answered prompt is put to the provider again, or left to the next runtime,
\* only if an interrupt of its turn was asked for or the provider cut it, and a
\* runtime that ends without being aborted leaves every waiting prompt behind.
ImplementsMailbox == Box!Spec

\* No wake-up is lost: while the generator waits, a deliverable prompt has a task
\* event on its way that will wake it; pushes wake it at once.
NoLostWakeup ==
  gen = "waiting" /\ getDeliverableRuntimeMessages(queue) # {} => taskEvents # {}

\* Every prompt in the queue of a runtime gets its turn, or the runtime ends.
EveryPromptServed ==
  \A m \in Messages : m \in queue ~> m \in answered \/ done

==============================================================================
