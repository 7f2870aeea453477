----------------------------- MODULE PromptStream -----------------------------
(***************************************************************************)
(* The SESSION_PROMPTS work queue (src/src/omni/session-stream.ts) and the *)
(* pull loop of each daemon (src/src/runtime/prompt-subscription.ts): how  *)
(* a published prompt reaches handlePrompt of one daemon through crashes,  *)
(* shutdowns, lost acknowledgements and restarts of the NATS server, whose *)
(* stream is kept in memory.                                               *)
(*                                                                         *)
(* A tick is 60 s: max_age is 1 tick, ack_wait 5.                          *)
(***************************************************************************)
EXTENDS Integers, Sequences, FiniteSets

CONSTANTS
  Prompts,
  Poison,      \* the prompts whose payload does not parse
  Daemons,
  MaxAge,      \* max_age of the stream, in ticks
  AckWait,     \* ack_wait of the consumer, in ticks
  MaxFaults    \* crashes, shutdowns, lost acks, failed ensures and server restarts

ASSUME PromptsAssumption == IsFiniteSet(Prompts) /\ Poison \subseteq Prompts
ASSUME DaemonsAssumption == IsFiniteSet(Daemons)
ASSUME TimesAssumption == MaxAge \in Nat \ {0} /\ AckWait \in Nat /\ MaxFaults \in Nat
\* max_age is 60 s and ack_wait 300 s
ASSUME WindowAssumption == MaxAge <= AckWait

VARIABLES
  streamUp, consumerUp,  \* the stream and the durable consumer exist
  stored,      \* the prompts in the stream
  age,         \* ticks until the prompt exceeds max_age
  pending,     \* ticks until the prompt is delivered again; 0: not delivered
  publishing,  \* progress of publishSessionPrompt
  running,     \* the bot of the daemon runs
  pull,        \* where the daemon's run() is
  buffer,      \* delivered to the daemon's iterator, not yet taken by the loop
  handled,     \* calls of handlePrompt for the prompt
  faults

server == <<streamUp, consumerUp, stored, age, pending>>
daemon == <<running, pull, buffer>>
vars == <<server, publishing, daemon, handled, faults>>

Stages == {"off", "ensuring", "consumer", "opening", "pulling", "ensuringAgain",
           "consumerAgain", "backoff", "resubscribe"}

Init ==
  /\ streamUp = FALSE /\ consumerUp = FALSE
  /\ stored = {}
  /\ age = [m \in Prompts |-> 0] /\ pending = [m \in Prompts |-> 0]
  /\ publishing = [m \in Prompts |-> "no"]
  /\ running = [d \in Daemons |-> FALSE] /\ pull = [d \in Daemons |-> "off"]
  /\ buffer = [d \in Daemons |-> <<>>]
  /\ handled = [m \in Prompts |-> 0]
  /\ faults = 0

Fault == faults < MaxFaults /\ faults' = faults + 1

\* ensureSessionPromptInfrastructure is these two requests, both idempotent.
ensureSessionPromptsStream ==
  streamUp' = TRUE /\ UNCHANGED <<consumerUp, stored, age, pending>>

ensureSessionConsumer ==
  streamUp /\ consumerUp' = TRUE /\ UNCHANGED <<streamUp, stored, age, pending>>

------------------------------------------------------------------------------
(* publishSessionPrompt                                                     *)

PublishEnsures(m) ==
  /\ \/ /\ publishing[m] = "no" /\ ensureSessionPromptsStream
        /\ publishing' = [publishing EXCEPT ![m] = "consumer"]
     \/ /\ publishing[m] = "consumer" /\ ensureSessionConsumer
        /\ publishing' = [publishing EXCEPT ![m] = "ensured"]
  /\ UNCHANGED <<daemon, handled, faults>>

\* The caller gets the error.
PublishRefused(m) ==
  /\ publishing[m] = "consumer" /\ ~streamUp
  /\ publishing' = [publishing EXCEPT ![m] = "failed"]
  /\ UNCHANGED <<server, daemon, handled, faults>>

PublishWithoutAge(m) ==
  /\ publishing[m] = "ensured" /\ streamUp
  /\ publishing' = [publishing EXCEPT ![m] = "done"]
  /\ stored' = stored \cup {m}
  /\ UNCHANGED <<streamUp, consumerUp, age, pending, daemon, handled, faults>>

\* js.publish; the stream may be gone again, and then the caller gets the error.
Publish(m) ==
  /\ publishing[m] = "ensured"
  /\ IF streamUp
       THEN /\ publishing' = [publishing EXCEPT ![m] = "done"]
            /\ stored' = stored \cup {m}
            /\ age' = [age EXCEPT ![m] = MaxAge]
       ELSE /\ publishing' = [publishing EXCEPT ![m] = "failed"]
            /\ UNCHANGED <<stored, age>>
  /\ UNCHANGED <<streamUp, consumerUp, pending, daemon, handled, faults>>

------------------------------------------------------------------------------
(* RuntimePromptSubscription.run                                            *)

At(d, stage) == pull' = [pull EXCEPT ![d] = stage]

StartBot(d) ==
  /\ ~running[d] /\ pull[d] = "off"
  /\ running' = [running EXCEPT ![d] = TRUE]
  /\ At(d, "ensuring")
  /\ UNCHANGED <<server, publishing, buffer, handled, faults>>

Ensures(d) ==
  /\ \/ /\ pull[d] \in {"ensuring", "ensuringAgain"} /\ ensureSessionPromptsStream
        /\ At(d, IF pull[d] = "ensuring" THEN "consumer" ELSE "consumerAgain")
     \/ /\ pull[d] \in {"consumer", "consumerAgain"} /\ ensureSessionConsumer
        /\ At(d, IF pull[d] = "consumer" THEN "opening" ELSE "backoff")
  /\ UNCHANGED <<publishing, running, buffer, handled, faults>>

\* An error of the ensure, even within the loop's catch, ends run(): its finally
\* subscribes again a second later.
EnsureFails(d) ==
  /\ \/ pull[d] \in {"ensuring", "ensuringAgain", "consumer", "consumerAgain"} /\ Fault
     \/ pull[d] \in {"consumer", "consumerAgain"} /\ ~streamUp /\ UNCHANGED faults
  /\ At(d, IF running[d] THEN "resubscribe" ELSE "off")
  /\ UNCHANGED <<server, publishing, running, buffer, handled>>

Resubscribe(d) ==
  /\ pull[d] = "resubscribe"
  /\ At(d, IF running[d] THEN "ensuring" ELSE "off")
  /\ UNCHANGED <<server, publishing, running, buffer, handled, faults>>

\* the missing consumer is not created again
OpenPullOnce(d) ==
  /\ pull[d] \in {"opening", "backoff"}
  /\ At(d, IF ~running[d] THEN "off" ELSE IF consumerUp THEN "pulling" ELSE "backoff")
  /\ UNCHANGED <<server, publishing, running, buffer, handled, faults>>

\* consumers.get and consume, or the missing consumer's error
OpenPull(d) ==
  /\ pull[d] \in {"opening", "backoff"}
  /\ At(d, IF ~running[d] THEN "off" ELSE IF consumerUp THEN "pulling" ELSE "ensuringAgain")
  /\ UNCHANGED <<server, publishing, running, buffer, handled, faults>>

\* abort_on_missing_resource: the iterator throws
PullAborts(d) ==
  /\ pull[d] = "pulling" /\ ~consumerUp
  /\ At(d, IF running[d] THEN "ensuringAgain" ELSE "off")
  /\ buffer' = [buffer EXCEPT ![d] = <<>>]
  /\ UNCHANGED <<server, publishing, running, handled, faults>>

HealthCheck(d) ==
  /\ running[d] /\ pull[d] \notin {"off", "resubscribe"}
  /\ ~(streamUp /\ consumerUp)
  /\ ensureSessionPromptsStream \/ ensureSessionConsumer
  /\ UNCHANGED <<publishing, daemon, handled, faults>>

Deliverable(m) == consumerUp /\ m \in stored /\ pending[m] = 0

\* The server hands a prompt to one of the pulling daemons.
Deliver(d, m) ==
  /\ pull[d] = "pulling" /\ Deliverable(m)
  /\ pending' = [pending EXCEPT ![m] = AckWait]
  /\ buffer' = [buffer EXCEPT ![d] = Append(@, m)]
  /\ UNCHANGED <<streamUp, consumerUp, stored, age, publishing, running, pull, handled, faults>>

Takes(d) == pull[d] = "pulling" /\ buffer[d] # <<>>

\* msg.ack(), then handlePrompt, without waiting for either
HandlePrompt(d) ==
  /\ Takes(d) /\ running[d] /\ Head(buffer[d]) \notin Poison
  /\ LET m == Head(buffer[d])
     IN /\ stored' = stored \ {m}
        /\ pending' = [pending EXCEPT ![m] = 0]
        /\ handled' = [handled EXCEPT ![m] = @ + 1]
  /\ buffer' = [buffer EXCEPT ![d] = Tail(@)]
  /\ UNCHANGED <<streamUp, consumerUp, age, publishing, running, pull, faults>>

\* ... and the ack does not reach the server
HandlePromptAckLost(d) ==
  /\ Takes(d) /\ running[d] /\ Head(buffer[d]) \notin Poison /\ Fault
  /\ handled' = [handled EXCEPT ![Head(buffer[d])] = @ + 1]
  /\ buffer' = [buffer EXCEPT ![d] = Tail(@)]
  /\ UNCHANGED <<server, publishing, running, pull>>

\* JSON.parse throws: the prompt is delivered again at once, as often as it takes.
RejectPrompt(d) ==
  /\ Takes(d) /\ running[d] /\ Head(buffer[d]) \in Poison
  /\ pending' = [pending EXCEPT ![Head(buffer[d])] = 0]
  /\ buffer' = [buffer EXCEPT ![d] = Tail(@)]
  /\ UNCHANGED <<streamUp, consumerUp, stored, age, publishing, running, pull, handled, faults>>

\* The bot has stopped: the prompt goes back, and the loop ends; prompts behind
\* it in the iterator stay unacknowledged.
StopAtPrompt(d) ==
  /\ Takes(d) /\ ~running[d]
  /\ pending' = [pending EXCEPT ![Head(buffer[d])] = 0]
  /\ buffer' = [buffer EXCEPT ![d] = <<>>]
  /\ At(d, "off")
  /\ UNCHANGED <<streamUp, consumerUp, stored, age, publishing, running, handled, faults>>

------------------------------------------------------------------------------
(* Shutdown, crashes, the server and time                                   *)

StopBot(d) ==
  /\ running[d] /\ Fault
  /\ running' = [running EXCEPT ![d] = FALSE]
  /\ UNCHANGED <<server, publishing, pull, buffer, handled>>

ProcessEnds(d) ==
  /\ running' = [running EXCEPT ![d] = FALSE]
  /\ At(d, "off")
  /\ buffer' = [buffer EXCEPT ![d] = <<>>]
  /\ UNCHANGED <<server, publishing, handled>>

Exit(d) == ~running[d] /\ pull[d] # "off" /\ ProcessEnds(d) /\ UNCHANGED faults

Crash(d) == running[d] /\ Fault /\ ProcessEnds(d)

ServerRestarts ==
  /\ streamUp /\ Fault
  /\ streamUp' = FALSE /\ consumerUp' = FALSE /\ stored' = {}
  /\ pending' = [m \in Prompts |-> 0]
  /\ UNCHANGED <<age, publishing, daemon, handled>>

\* max_age is never enforced
TickKeeps ==
  /\ pending' = [m \in Prompts |-> IF pending[m] = 0 THEN 0 ELSE pending[m] - 1]
  /\ UNCHANGED <<streamUp, consumerUp, stored, age, publishing, daemon, handled, faults>>

Tick ==
  /\ age' = [m \in Prompts |-> IF m \in stored THEN age[m] - 1 ELSE 0]
  /\ stored' = {m \in stored : age[m] > 1}
  /\ pending' = [m \in Prompts |-> IF pending[m] = 0 THEN 0 ELSE pending[m] - 1]
  /\ UNCHANGED <<streamUp, consumerUp, publishing, daemon, handled, faults>>

------------------------------------------------------------------------------

Next ==
  \/ \E m \in Prompts : PublishEnsures(m) \/ PublishRefused(m) \/ Publish(m)
  \/ \E d \in Daemons : \/ StartBot(d)
                        \/ Ensures(d)
                        \/ EnsureFails(d)
                        \/ Resubscribe(d)
                        \/ OpenPull(d)
                        \/ PullAborts(d)
                        \/ HealthCheck(d)
                        \/ \E m \in Prompts : Deliver(d, m)
                        \/ HandlePrompt(d)
                        \/ HandlePromptAckLost(d)
                        \/ RejectPrompt(d)
                        \/ StopAtPrompt(d)
                        \/ StopBot(d)
                        \/ Exit(d)
                        \/ Crash(d)
  \/ ServerRestarts
  \/ Tick

Spec == Init /\ [][Next]_vars

\* The loop of a daemon, its timers and requests make progress, and the server
\* delivers what it can; bots need not be started, and prompts need not be sent.
Fairness ==
  \A d \in Daemons : /\ WF_vars(Ensures(d) \/ EnsureFails(d))
                     /\ WF_vars(Resubscribe(d))
                     /\ WF_vars(OpenPull(d))
                     /\ WF_vars(PullAborts(d))
                     /\ WF_vars(HandlePrompt(d) \/ HandlePromptAckLost(d))
                     /\ WF_vars(RejectPrompt(d))
                     /\ \A m \in Prompts \ Poison : SF_vars(Deliver(d, m))

FairSpec == Spec /\ Fairness

------------------------------------------------------------------------------
(* Properties                                                               *)

\* The queue and the loops hold what they may hold; what is in the stream has
\* been published, has not expired, and is in no iterator while it is deliverable.
TypeOK ==
  /\ streamUp \in BOOLEAN /\ consumerUp \in BOOLEAN
  /\ stored \subseteq Prompts
  /\ age \in [Prompts -> 0..MaxAge] /\ pending \in [Prompts -> 0..AckWait]
  /\ publishing \in [Prompts -> {"no", "consumer", "ensured", "done", "failed"}]
  /\ running \in [Daemons -> BOOLEAN] /\ pull \in [Daemons -> Stages]
  /\ buffer \in [Daemons -> Seq(Prompts)]
  /\ handled \in [Prompts -> Nat] /\ faults \in 0..MaxFaults
  /\ \A m \in stored : publishing[m] = "done" /\ age[m] > 0
  /\ \A d \in Daemons : buffer[d] # <<>> => pull[d] = "pulling"

\* A prompt is given to handlePrompt once at most, by one daemon, although acks
\* get lost and unacknowledged prompts are delivered again: max_age removes a
\* prompt before ack_wait would have it delivered a second time.
HandledOnce == \A m \in Prompts : handled[m] <= 1

\* After the last fault, a prompt that waits in the stream is handled, or dropped
\* by its age, if a daemon runs and none is stopping: the pull loop survives the
\* loss of the stream and of its consumer, and a payload that does not parse does
\* not block the others.  Time need not pass, so a loop that is stuck violates it.
HandledAfterFaults ==
  \A m \in Prompts \ Poison :
    /\ faults = MaxFaults /\ m \in stored /\ pending[m] = 0
    /\ \E d \in Daemons : running[d]
    /\ \A d \in Daemons : running[d] \/ pull[d] = "off"
    ~> handled[m] > 0 \/ m \notin stored

==============================================================================
