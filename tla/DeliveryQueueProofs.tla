--------------------------- MODULE DeliveryQueueProofs ---------------------------
(***************************************************************************)
(* Theorems about DeliveryQueue, for any prompts with any barriers, any    *)
(* tasks and any number of events the provider is ahead: the types, that   *)
(* no prompt falls out of the queue, that no wake-up is lost, and that the *)
(* queue implements the mailbox.                                           *)
(*                                                                         *)
(* What all of them need is where the provider can be (Shape): it has a    *)
(* turn only while the generator stands at its yield, and what ends the    *)
(* turn is the last event of it.  On this rests what the generator finds   *)
(* when it is pulled (Ledger): a turn that was not interrupted has been    *)
(* answered, and a prompt that is still queued after its answer belongs to *)
(* a turn that was asked to be interrupted, or cut.                        *)
(***************************************************************************)
EXTENDS DeliveryQueue, SequenceTheorems, TLAPS

Endings == {"complete", "overflow", "interrupted", "aborted", "busy", "failed"}

Event == ({"started", "ended"} \X Activities) \cup (Endings \X {"turn"})

Typed == TypeOK /\ events \in Seq(Event)

\* No turn of the provider is open, and nothing of one is left.
Still ==
  /\ ~provider.open /\ events = <<>> /\ handling = "none" /\ ~toolRunning /\ ~compacting

Shape ==
  /\ gen = "ended" <=> done
  /\ gen \in {"between", "waiting"} => ~turnActive
  /\ ~turnActive => Still
  /\ gen = "tracing" => turnActive /\ Still
  /\ gen = "ended" => ~provider.open /\ events = <<>> /\ handling = "none"
  /\ \A i \in 1..Len(events) : events[i][1] \in Endings => i = Len(events) /\ ~provider.open
  /\ handling \in {"recovering", "failing"} => events = <<>> /\ ~provider.open

\* Prompts of the turn the generator will take from the queue when it is pulled.
Settled == IF gen = "yielded" /\ ~turnActive /\ ~interrupted THEN yielded ELSE {}

Ledger ==
  /\ ~done => stash = {}
  /\ ~done => sent \ answered \subseteq queue
  /\ done => aborted \/ sent \ answered \subseteq stash
  /\ done => sent \ answered \subseteq queue
  /\ Settled \subseteq answered
  /\ interrupted => yielded \subseteq asked \cup cut /\ gen \in {"tracing", "yielded", "ended"}
  /\ \A m \in queue \cap answered : m \in asked \cup cut \cup Settled

------------------------------------------------------------------------------
(* Events                                                                   *)

\* What is left of the provider's events when the loop has handled the first.
LEMMA EventsTail ==
  ASSUME NEW s \in Seq(Event), s # <<>>
  PROVE  /\ s[1] \in Event /\ Len(s) \in Nat /\ Len(s) >= 1
         /\ Tail(s) \in Seq(Event) /\ Len(Tail(s)) = Len(s) - 1
         /\ Len(s) = 1 => Tail(s) = <<>>
         /\ \A i \in 1..Len(Tail(s)) : Tail(s)[i] = s[i + 1] /\ i + 1 \in 1..Len(s)
<1>1. /\ s[1] \in Event /\ Len(s) \in Nat /\ Len(s) >= 1
      /\ Tail(s) \in Seq(Event) /\ Len(Tail(s)) = Len(s) - 1
      /\ \A i \in 1..Len(Tail(s)) : Tail(s)[i] = s[i + 1] /\ i + 1 \in 1..Len(s)
  OBVIOUS
<1>2. Len(s) = 1 => Tail(s) = <<>>
  BY <1>1, EmptySeq
<1>3. QED
  BY <1>1, <1>2

\* The provider's events with one more at the end.
LEMMA EventsAppend ==
  ASSUME NEW s \in Seq(Event), NEW e \in Event
  PROVE  /\ Append(s, e) \in Seq(Event) /\ Len(s) \in Nat /\ Len(Append(s, e)) = Len(s) + 1
         /\ \A i \in 1..Len(s) : Append(s, e)[i] = s[i]
         /\ Append(s, e)[Len(s) + 1] = e
OBVIOUS

\* An event is the start or the end of an activity, or it ends the turn.
LEMMA EventKinds ==
  ASSUME NEW e \in Event
  PROVE  /\ e[1] \in {"started", "ended"} => e[2] \in Activities /\ e[1] \notin Endings
         /\ e[1] \in {"started", "ended"} \/ e[1] \in Endings
BY DEF Event, Endings, Activities

\* While there are events, the generator stands at its yield and the turn is active.
LEMMA TurnHasEvents ==
  ASSUME Typed, Shape, events # <<>> \/ handling # "none" \/ provider.open
  PROVE  gen = "yielded" /\ turnActive /\ ~done
BY DEF Typed, TypeOK, Places, Shape, Still

\* An event that ends the turn is the last one.
LEMMA EndingIsLast ==
  ASSUME Typed, Shape, events # <<>>, events[1][1] \in Endings
  PROVE  Tail(events) = <<>> /\ ~provider.open
<1>1. events \in Seq(Event)
  BY DEF Typed
<1>2. 1 \in 1..Len(events)
  BY <1>1, EventsTail
<1>3. 1 = Len(events) /\ ~provider.open
  BY <1>2 DEF Shape
<1>4. QED
  BY <1>1, <1>3, EventsTail

\* Only prompts that are queued are delivered.
LEMMA DeliverableQueued == \A q : getDeliverableRuntimeMessages(q) \subseteq q
BY DEF getDeliverableRuntimeMessages

------------------------------------------------------------------------------
(* Types                                                                    *)

\* A step that leaves the session object and the provider as they are, but for the
\* queue, the generator and the interrupt.
LEMMA TypedPush ==
  ASSUME Typed, NEW m \in Messages, PushWakes(m) \/ PushQueues(m) \/ PushInterrupts(m)
  PROVE  Typed'
<1> USE DEF Typed
<1>1. queue' = queue \cup {m} /\ sent' = sent \cup {m}
  BY DEF PushWakes, PushQueues, PushInterrupts, Queued
<1>2. gen' \in Places /\ pendingWake' \in BOOLEAN
  BY DEF PushWakes, PushQueues, PushInterrupts, WakeIfDeliverable, TypeOK, Places
<1>3. CASE PushWakes(m) \/ PushQueues(m)
  BY <1>1, <1>2, <1>3 DEF PushWakes, PushQueues, turn, outcome, tasks, history, TypeOK
<1>4. CASE PushInterrupts(m)
  <2>1. provider' \in [open : BOOLEAN, told : BOOLEAN, running : SUBSET Activities]
    BY <1>4 DEF PushInterrupts, TypeOK
  <2>2. QED
    BY <1>1, <1>2, <1>4, <2>1 DEF PushInterrupts, turn, outcome, tasks, TypeOK
<1>5. QED
  BY <1>3, <1>4

\* The end of a task, and the event that tells of it, keep the types.
LEMMA TypedTask ==
  ASSUME Typed, NEW t \in Tasks, TaskEnds(t) \/ TaskEventHandled(t)
  PROVE  Typed'
<1> USE DEF Typed
<1>1. gen' \in Places /\ pendingWake' \in BOOLEAN
  BY DEF TaskEnds, TaskEventHandled, WakeIfDeliverable, TypeOK, Places
<1>2. activeTasks' \subseteq Tasks /\ taskEvents' \subseteq Tasks
  BY DEF TaskEnds, TaskEventHandled, TypeOK
<1>3. UNCHANGED <<queue, sent, yielded, turn, interrupted, outcome, provider, events, history>>
  BY DEF TaskEnds, TaskEventHandled
<1>4. QED
  BY <1>1, <1>2, <1>3 DEF turn, outcome, history, TypeOK

\* So does each step of the generator.
LEMMA TypedGenerator ==
  ASSUME Typed, GeneratorStep
  PROVE  Typed'
<1> USE DEF Typed
<1>1. ASSUME NEW q, q \subseteq queue, Loops(q), interrupted' \in BOOLEAN,
             UNCHANGED <<sent, toolRunning, safety, compacting, handling, outcome, provider,
                         events, tasks, history>>
      PROVE  Typed'
  <2>1. queue' \subseteq sent /\ yielded' \subseteq sent
    BY <1>1, DeliverableQueued DEF Loops, TypeOK
  <2>2. gen' \in Places /\ turnActive' \in BOOLEAN /\ pendingWake' \in BOOLEAN
    BY <1>1 DEF Loops, TypeOK, Places
  <2>3. QED
    BY <1>1, <2>1, <2>2 DEF outcome, tasks, history, TypeOK
<1>2. CASE Pulled
  BY <1>1, <1>2 DEF Pulled, TypeOK
<1>3. CASE Resumes
  BY <1>1, <1>3 DEF Resumes, Resume, TypeOK
<1>4. CASE Yields
  <2>1. provider' \in [open : BOOLEAN, told : BOOLEAN, running : SUBSET Activities]
    BY <1>4 DEF Yields, Closed, TypeOK
  <2>2. QED
    BY ZenonT(30), <1>4, <2>1 DEF Yields, turn, tasks, history, TypeOK, Places
<1>5. QED
  BY <1>2, <1>3, <1>4 DEF GeneratorStep

\* What the provider emits.
LEMMA TypedProvider ==
  ASSUME Typed, ProviderEnds \/ ProviderWorks
  PROVE  /\ Typed'
         /\ provider.open
         /\ UNCHANGED <<queue, sent, gen, yielded, turn, interrupted, pendingWake, outcome,
                        tasks, history>>
         /\ \E e \in Event : events' = Append(events, e) /\ (e[1] \in Endings => ~provider'.open)
<1> USE DEF Typed
<1>1. /\ provider.open
      /\ UNCHANGED <<queue, sent, gen, yielded, turn, interrupted, pendingWake, outcome, tasks, history>>
  BY DEF ProviderEnds, ProviderWorks, Completes, Stops, Starts, Ends, ProviderStep
<1>2. provider' \in [open : BOOLEAN, told : BOOLEAN, running : SUBSET Activities]
  <2>1. \/ provider' = Closed
        \/ \E k \in Activities : \/ provider' = [provider EXCEPT !.running = @ \cup {k}]
                                 \/ provider' = [provider EXCEPT !.running = @ \ {k}]
    BY DEF ProviderEnds, ProviderWorks, Completes, Stops, Starts, Ends
  <2>2. CASE provider' = Closed
    BY <2>2 DEF Closed
  <2>3. ASSUME NEW k \in Activities, \/ provider' = [provider EXCEPT !.running = @ \cup {k}]
                                     \/ provider' = [provider EXCEPT !.running = @ \ {k}]
        PROVE  provider' \in [open : BOOLEAN, told : BOOLEAN, running : SUBSET Activities]
    BY <2>3 DEF TypeOK
  <2>4. QED
    BY <2>1, <2>2, <2>3
<1>3. PICK e \in Event : Emit(e) /\ (e[1] \in Endings => ~provider'.open)
  <2>1. ASSUME NEW how \in {"complete", "overflow"}, Completes(how)
        PROVE  \E e \in Event : Emit(e) /\ (e[1] \in Endings => ~provider'.open)
    <3>1. <<how, "turn">> \in Event /\ Emit(<<how, "turn">>) /\ ~provider'.open
      BY <2>1 DEF Completes, Event, Endings, Closed
    <3>2. QED
      BY <3>1
  <2>2. ASSUME NEW how \in {"interrupted", "aborted", "busy", "failed"}, Stops(how)
        PROVE  \E e \in Event : Emit(e) /\ (e[1] \in Endings => ~provider'.open)
    <3>1. <<how, "turn">> \in Event /\ Emit(<<how, "turn">>) /\ ~provider'.open
      BY <2>2 DEF Stops, Event, Endings, Closed
    <3>2. QED
      BY <3>1
  <2>3. ASSUME NEW k \in Activities, Starts(k) \/ Ends(k)
        PROVE  \E e \in Event : Emit(e) /\ (e[1] \in Endings => ~provider'.open)
    <3>1. <<"started", k>> \in Event /\ <<"ended", k>> \in Event
      BY DEF Event
    <3>2. Emit(<<"started", k>>) \/ Emit(<<"ended", k>>)
      BY <2>3 DEF Starts, Ends
    <3>3. <<"started", k>>[1] \notin Endings /\ <<"ended", k>>[1] \notin Endings
      BY DEF Endings
    <3>4. QED
      BY <3>1, <3>2, <3>3
  <2>4. QED
    BY <2>1, <2>2, <2>3 DEF ProviderEnds, ProviderWorks
<1>4. Len(events) < MaxEvents /\ events' = Append(events, e)
  BY <1>3 DEF Emit
<1>5. events' \in Seq(Event) /\ Len(events') <= MaxEvents
  BY <1>4, EventsAppend, EventsAssumption
<1>6. Typed'
  BY <1>1, <1>2, <1>5 DEF turn, outcome, tasks, history, TypeOK
<1>7. QED
  BY <1>1, <1>3, <1>4, <1>6

\* So does each event that the loop handles.
LEMMA TypedLoop ==
  ASSUME Typed, LoopStep
  PROVE  Typed'
<1> USE DEF Typed
<1>1. ASSUME events # <<>>, Took
      PROVE  events' \in Seq(Event) /\ Len(events') <= MaxEvents
  BY <1>1, EventsTail, EventsAssumption DEF Took, TypeOK
<1>2. ASSUME NEW k \in Activities, HandlesStart(k) \/ HandlesEnd(k)
      PROVE  Typed'
  <2>1. events' \in Seq(Event) /\ Len(events') <= MaxEvents
    BY <1>1, <1>2 DEF HandlesStart, HandlesEnd
  <2>2. /\ toolRunning' \in BOOLEAN /\ compacting' \in BOOLEAN /\ safety' \in {"none", "safe", "unsafe"}
        /\ handling' \in {"none", "consult", "recovering", "failing"}
    BY <1>2 DEF HandlesStart, HandlesEnd, SafetyOf, Activities, TypeOK
  <2>3. UNCHANGED <<queue, sent, gen, yielded, turnActive, interrupted, pendingWake, outcome,
                    provider, tasks, history>>
    BY <1>2 DEF HandlesStart, HandlesEnd
  <2>4. QED
    BY <2>1, <2>2, <2>3 DEF outcome, tasks, history, TypeOK
<1>3. CASE ConsultAnnounced
  BY <1>3 DEF ConsultAnnounced, outcome, tasks, history, TypeOK
<1>4. ASSUME NEW R \in {{}} \cup {{r} : r \in Revisions \ sent}, HandlesComplete(R)
      PROVE  Typed'
  <2>1. events' \in Seq(Event) /\ Len(events') <= MaxEvents
    BY <1>1, <1>4 DEF HandlesComplete, NextIs
  <2>2. R \subseteq Messages
    BY <1>4, MessagesAssumption
  <2>3. QED
    BY <1>4, <2>1, <2>2 DEF HandlesComplete, TurnReset, tasks, TypeOK
<1>5. CASE HandlesInterrupted \/ TakesFailure
  <2>1. events' \in Seq(Event) /\ Len(events') <= MaxEvents
    BY <1>1, <1>5 DEF HandlesInterrupted, TakesFailure, NextIs
  <2>2. QED
    BY ZenonT(30), <1>5, <2>1 DEF HandlesInterrupted, TakesFailure, TurnReset, outcome, tasks, history, TypeOK
<1>6. CASE Recovers
  BY <1>6 DEF Recovers, TurnReset, tasks, history, TypeOK, Places
<1>7. CASE Fails
  BY <1>7 DEF Fails, TurnReset, outcome, tasks, TypeOK
<1>8. QED
  BY <1>2, <1>3, <1>4, <1>5, <1>6, <1>7 DEF LoopStep

\* Every step keeps the types.
LEMMA TypedStep ==
  ASSUME Typed, [Next]_vars
  PROVE  Typed'
<1>1. CASE WatchdogAborts
  BY <1>1 DEF WatchdogAborts, Typed, TypeOK, turn, tasks, history
<1>2. CASE UNCHANGED vars
  BY <1>2 DEF vars, Typed, TypeOK, history
<1>3. QED
  BY <1>1, <1>2, TypedPush, TypedTask, TypedGenerator, TypedProvider, TypedLoop
  DEF Next, PromptStep, TaskStep

\* A runtime starts with its types.
LEMMA TypedInit == Init => Typed
<1> SUFFICES ASSUME Init PROVE Typed
  OBVIOUS
<1>1. provider \in [open : BOOLEAN, told : BOOLEAN, running : SUBSET Activities]
  BY DEF Init, Closed
<1>2. events \in Seq(Event) /\ Len(events) <= MaxEvents
  BY EventsAssumption DEF Init
<1>3. queue \subseteq sent /\ sent \subseteq Messages
  BY DEF Init
<1>4. QED
  BY <1>1, <1>2, <1>3 DEF Init, Typed, TypeOK, Places

\* The types hold in every reachable state.
LEMMA AlwaysTyped == Spec => []Typed
BY TypedInit, TypedStep, PTL DEF Spec

\* The session object and the provider hold what they are declared to hold.
THEOREM TypeCorrect == Spec => []TypeOK
<1>1. Typed => TypeOK
  BY DEF Typed
<1>2. QED
  BY <1>1, AlwaysTyped, PTL

------------------------------------------------------------------------------
(* Shape                                                                    *)

\* Steps that leave the turn, the provider and its events as they are.
LEMMA SameShape ==
  ASSUME Typed, Shape, UNCHANGED <<turnActive, provider, events, handling, toolRunning, compacting, done>>,
         gen' = gen \/ {gen, gen'} \subseteq {"between", "waiting"}
  PROVE  Shape'
BY DEF Typed, TypeOK, Places, Shape, Still

\* A step of the generator keeps the provider where it can be.
LEMMA ShapeGenerator ==
  ASSUME Typed, Shape, GeneratorStep
  PROVE  Shape'
<1> USE DEF Typed
<1>1. ASSUME NEW q, Loops(q), ~turnActive, ~done, UNCHANGED <<toolRunning, compacting, handling, outcome, provider, events>>
      PROVE  Shape'
  <2>1. Still /\ Still'
    BY <1>1 DEF Shape, Still
  <2>2. gen' \in {"waiting", "tracing"} /\ (gen' = "waiting" => ~turnActive') /\ (gen' = "tracing" => turnActive')
    BY <1>1 DEF Loops
  <2>3. UNCHANGED <<done, events, handling>>
    BY <1>1 DEF outcome
  <2>4. QED
    BY <1>1, <2>1, <2>2, <2>3, EmptySeq DEF Shape, Still
<1>2. CASE Pulled
  BY <1>1, <1>2 DEF Pulled, Shape
<1>3. CASE Resumes
  BY <1>1, <1>3 DEF Resumes, Resume, TurnIsOver
<1>4. CASE Yields
  <2>1. turnActive /\ Still /\ UNCHANGED <<turn, events>> /\ gen' \in {"ended", "yielded"}
        /\ (gen' = "ended" => done' /\ UNCHANGED provider)
        /\ (gen' = "yielded" => UNCHANGED done /\ ~done)
    BY <1>4 DEF Yields, Shape
  <2>2. events = <<>> /\ events' = <<>> /\ handling' = "none" /\ turnActive'
    BY <2>1 DEF Still, turn
  <2>3. gen' = "ended" => ~provider'.open
    BY <2>1 DEF Still
  <2>4. QED
    BY <2>1, <2>2, <2>3, EmptySeq DEF Shape
<1>5. QED
  BY <1>2, <1>3, <1>4 DEF GeneratorStep

\* A provider that works on or ends its turn stays within Shape.
LEMMA ShapeProvider ==
  ASSUME Typed, Shape, ProviderEnds \/ ProviderWorks
  PROVE  Shape'
<1>1. PICK e \in Event : events' = Append(events, e) /\ (e[1] \in Endings => ~provider'.open)
  BY TypedProvider
<1>2. UNCHANGED <<gen, turn, done>> /\ provider.open
  BY TypedProvider DEF outcome
<1>3. gen = "yielded" /\ turnActive /\ ~done
  BY <1>2, TurnHasEvents
<1>4. events \in Seq(Event)
  BY DEF Typed
<1>5. \A j \in 1..Len(events) : events[j][1] \notin Endings
  BY <1>2 DEF Shape
<1>6. \A j \in 1..Len(events') : events'[j][1] \in Endings => j = Len(events') /\ ~provider'.open
  <2>1. SUFFICES ASSUME NEW j \in 1..Len(events'), events'[j][1] \in Endings
                 PROVE  j = Len(events') /\ ~provider'.open
    OBVIOUS
  <2>2. Len(events) \in Nat /\ Len(events') = Len(events) + 1
        /\ (\A l \in 1..Len(events) : events'[l] = events[l]) /\ events'[Len(events) + 1] = e
    BY <1>1, <1>4, EventsAppend
  <2>3. j \notin 1..Len(events)
    BY <1>5, <2>1, <2>2
  <2>4. j = Len(events) + 1
    BY <2>1, <2>2, <2>3
  <2>5. QED
    BY <1>1, <2>1, <2>2, <2>4
<1>7. handling' \notin {"recovering", "failing"}
  BY <1>2 DEF Shape, turn
<1>8. QED
  BY <1>2, <1>3, <1>6, <1>7 DEF Shape, turn

\* The loop takes events away from the front: what remains is still a turn and its end.
LEMMA ShapeLoop ==
  ASSUME Typed, Shape, LoopStep
  PROVE  Shape'
<1> USE DEF Typed
<1>1. ASSUME NEW k \in Activities, HandlesStart(k) \/ HandlesEnd(k)
      PROVE  Shape'
  <2>1. events # <<>> /\ events \in Seq(Event) /\ events' = Tail(events)
    BY <1>1 DEF HandlesStart, HandlesEnd, Took
  <2>2. gen = "yielded" /\ turnActive /\ ~done
    BY <2>1, TurnHasEvents
  <2>3. UNCHANGED <<gen, turnActive, done, provider>> /\ handling' \in {"none", "consult"}
    BY <1>1 DEF HandlesStart, HandlesEnd, outcome
  <2>4. \A j \in 1..Len(events') : events'[j][1] \in Endings => j = Len(events') /\ ~provider'.open
    <3>1. SUFFICES ASSUME NEW j \in 1..Len(events'), events'[j][1] \in Endings
                   PROVE  j = Len(events') /\ ~provider'.open
      OBVIOUS
    <3>2. Len(events) \in Nat /\ Len(events') = Len(events) - 1
          /\ events'[j] = events[j + 1] /\ j + 1 \in 1..Len(events)
      BY <2>1, EventsTail
    <3>3. j + 1 = Len(events) /\ ~provider.open
      BY <3>1, <3>2 DEF Shape
    <3>4. QED
      BY <2>3, <3>2, <3>3
  <2>5. QED
    BY <2>2, <2>3, <2>4 DEF Shape
<1>2. CASE ConsultAnnounced
  <2>1. handling # "none"
    BY <1>2 DEF ConsultAnnounced
  <2>2. gen = "yielded" /\ turnActive /\ ~done
    BY <2>1, TurnHasEvents
  <2>3. UNCHANGED <<gen, turnActive, done, provider, events>> /\ handling' = "none"
    BY <1>2 DEF ConsultAnnounced, outcome
  <2>4. QED
    BY <2>2, <2>3 DEF Shape
<1>3. ASSUME events' = <<>>, ~provider.open, UNCHANGED provider, TurnReset, gen = "yielded", ~done,
             UNCHANGED <<gen, done>> \/ (gen' = "ended" /\ done')
      PROVE  Shape'
  BY <1>3, EmptySeq DEF Shape, Still, TurnReset
<1>4. ASSUME NEW R, HandlesComplete(R)
      PROVE  Shape'
  <2>1. events # <<>> /\ events[1][1] \in Endings /\ events' = Tail(events)
    BY <1>4 DEF HandlesComplete, NextIs, Took, Endings
  <2>2. events' = <<>> /\ ~provider.open /\ gen = "yielded" /\ ~done
    BY <2>1, EndingIsLast, TurnHasEvents
  <2>3. QED
    BY <1>3, <1>4, <2>2 DEF HandlesComplete
<1>5. CASE HandlesInterrupted
  <2>1. events # <<>> /\ events[1][1] \in Endings /\ events' = Tail(events)
    BY <1>5 DEF HandlesInterrupted, NextIs, Took, Endings
  <2>2. events' = <<>> /\ ~provider.open /\ gen = "yielded" /\ ~done
    BY <2>1, EndingIsLast, TurnHasEvents
  <2>3. QED
    BY <1>3, <1>5, <2>2 DEF HandlesInterrupted, outcome
<1>6. CASE TakesFailure
  <2>1. events # <<>> /\ events[1][1] \in Endings /\ events' = Tail(events)
    BY <1>6 DEF TakesFailure, NextIs, Took, Endings
  <2>2. events' = <<>> /\ ~provider.open /\ gen = "yielded" /\ ~done /\ turnActive
    BY <2>1, EndingIsLast, TurnHasEvents
  <2>3. UNCHANGED <<gen, turnActive, done, provider>>
    BY <1>6 DEF TakesFailure, outcome
  <2>4. QED
    BY <2>2, <2>3, EmptySeq DEF Shape
<1>7. CASE Recovers \/ Fails
  <2>1. handling \in {"recovering", "failing"}
    BY <1>7 DEF Recovers, Fails
  <2>2. gen = "yielded" /\ ~done /\ events = <<>> /\ ~provider.open
    BY <2>1, TurnHasEvents DEF Shape
  <2>3. UNCHANGED <<events, provider>> /\ TurnReset
        /\ (UNCHANGED <<gen, done>> \/ (gen' = "ended" /\ done'))
    BY <1>7 DEF Recovers, Fails, outcome
  <2>4. QED
    BY <1>3, <2>2, <2>3
<1>8. QED
  BY <1>1, <1>2, <1>4, <1>5, <1>6, <1>7 DEF LoopStep

\* Every step keeps the provider where it can be.
LEMMA ShapeStep ==
  ASSUME Typed, Shape, [Next]_vars
  PROVE  Shape'
<1>1. ASSUME NEW m \in Messages, PushWakes(m) \/ PushQueues(m)
      PROVE  Shape'
  <2>1. gen' = gen \/ {gen, gen'} \subseteq {"between", "waiting"}
    BY <1>1 DEF PushWakes, PushQueues, WakeIfDeliverable
  <2>2. QED
    BY <1>1, <2>1, SameShape DEF PushWakes, PushQueues, turn, outcome
<1>2. ASSUME NEW m \in Messages, PushInterrupts(m)
      PROVE  Shape'
  <2>1. provider'.open = provider.open /\ UNCHANGED <<gen, turn, done, events>>
    BY <1>2 DEF PushInterrupts, outcome, Typed, TypeOK
  <2>2. QED
    BY <2>1 DEF Shape, Still, turn
<1>3. ASSUME NEW t \in Tasks, TaskEnds(t) \/ TaskEventHandled(t)
      PROVE  Shape'
  <2>1. gen' = gen \/ {gen, gen'} \subseteq {"between", "waiting"}
    BY <1>3 DEF TaskEnds, TaskEventHandled, WakeIfDeliverable
  <2>2. QED
    BY <1>3, <2>1, SameShape DEF TaskEnds, TaskEventHandled, turn, outcome
<1>4. CASE WatchdogAborts
  BY <1>4, SameShape DEF WatchdogAborts, turn
<1>5. CASE UNCHANGED vars
  BY <1>5, SameShape DEF vars
<1>6. QED
  BY <1>1, <1>2, <1>3, <1>4, <1>5, ShapeGenerator, ShapeProvider, ShapeLoop
  DEF Next, PromptStep, TaskStep

\* At the start nothing is under way: no turn, and no event.
LEMMA ShapeInit == Init => Shape
BY EmptySeq DEF Init, Shape, Still, Closed

------------------------------------------------------------------------------
(* Ledger                                                                   *)

\* Steps that do not touch what the ledger is about.
LEMMA SameLedger ==
  ASSUME Ledger, UNCHANGED <<queue, sent, yielded, turnActive, interrupted, done, stash, history>>,
         aborted => aborted',
         gen' = gen \/ {gen, gen'} \subseteq {"between", "waiting"}
  PROVE  Ledger'
BY DEF Ledger, Settled, history

\* A prompt that is pushed is owed its turn like those that wait.
LEMMA LedgerPush ==
  ASSUME Typed, Shape, Ledger, NEW m \in Messages, PushWakes(m) \/ PushQueues(m) \/ PushInterrupts(m)
  PROVE  Ledger'
<1>1. queue' = queue \cup {m} /\ sent' = sent \cup {m} /\ m \notin sent /\ ~done
  BY DEF PushWakes, PushQueues, PushInterrupts, Queued
<1>2. answered \subseteq sent
  BY DEF Typed, TypeOK
<1>3. CASE PushWakes(m) \/ PushQueues(m)
  <2>1. gen' = gen \/ {gen, gen'} \subseteq {"between", "waiting"}
    BY <1>3 DEF PushWakes, PushQueues, WakeIfDeliverable
  <2>2. UNCHANGED <<yielded, turnActive, interrupted, done, stash, aborted, answered, cut, asked>>
    BY <1>3 DEF PushWakes, PushQueues, turn, outcome, history
  <2>3. QED
    BY <1>1, <1>2, <2>1, <2>2 DEF Ledger, Settled
<1>4. CASE PushInterrupts(m)
  <2>1. turnActive /\ interrupted' /\ asked' = asked \cup yielded /\ cut \subseteq cut'
        /\ UNCHANGED <<gen, yielded, turnActive, done, stash, aborted, answered>>
    BY <1>4 DEF PushInterrupts, shouldInterruptRuntimeForIncoming, turn, outcome
  <2>2. gen \in {"tracing", "yielded", "ended"}
    BY <2>1 DEF Shape, Typed, TypeOK, Places
  <2>3. QED
    BY <1>1, <1>2, <2>1, <2>2 DEF Ledger, Settled
<1>5. QED
  BY <1>3, <1>4

\* The generator, which resumes and decides on the queue, keeps the ledger.
LEMMA LedgerGenerator ==
  ASSUME Typed, Shape, Ledger, GeneratorStep
  PROVE  Ledger'
<1>1. ASSUME NEW q, Loops(q), q \subseteq queue, sent \ answered \subseteq q, ~done, ~interrupted',
             \A m \in q \cap answered : m \in asked \cup cut,
             UNCHANGED <<sent, outcome, history>>
      PROVE  Ledger'
  <2>1. queue' = q /\ gen' \in {"waiting", "tracing"}
    BY <1>1 DEF Loops
  <2>2. UNCHANGED <<sent, done, stash, aborted, answered, asked, cut>>
    BY <1>1 DEF outcome, history
  <2>3. QED
    BY <1>1, <2>1, <2>2 DEF Ledger, Settled
<1>2. CASE Pulled
  <2>1. Loops(queue) /\ gen = "between" /\ ~done /\ UNCHANGED <<sent, interrupted, outcome, history>>
    BY <1>2 DEF Pulled
  <2>2. ~interrupted'
    BY <2>1 DEF Ledger
  <2>3. QED
    BY <1>1, <2>1, <2>2 DEF Ledger, Settled
<1>3. CASE Resumes
  <2> DEFINE q == IF interrupted THEN queue ELSE queue \ yielded
  <2>1. Loops(q) /\ gen = "yielded" /\ ~turnActive /\ ~done /\ ~interrupted' /\ UNCHANGED <<sent, outcome, history>>
    BY <1>3 DEF Resumes, Resume, TurnIsOver
  <2>2. q \subseteq queue
    OBVIOUS
  <2>3. sent \ answered \subseteq q
    BY <2>1 DEF Ledger, Settled
  <2>4. \A m \in q \cap answered : m \in asked \cup cut
    BY <2>1 DEF Ledger, Settled
  <2> HIDE DEF q
  <2>5. QED
    BY <1>1, <2>1, <2>2, <2>3, <2>4
<1>4. CASE Yields
  <2>1. gen = "tracing" /\ turnActive /\ ~done
    BY <1>4 DEF Yields, Shape
  <2>2. UNCHANGED <<queue, sent, yielded, turnActive, interrupted, stash, aborted, answered, cut, asked>>
        /\ gen' \in {"ended", "yielded"} /\ (done' => aborted)
    BY <1>4, <2>1 DEF Yields, turn, history
  <2>3. QED
    BY <2>1, <2>2 DEF Ledger, Settled
<1>5. QED
  BY <1>2, <1>3, <1>4 DEF GeneratorStep

\* So does the loop, which answers prompts, cuts turns short and stashes.
LEMMA LedgerLoop ==
  ASSUME Typed, Shape, Ledger, LoopStep
  PROVE  Ledger'
<1> USE DEF Typed
<1>1. ASSUME NEW k \in Activities, HandlesStart(k) \/ HandlesEnd(k)
      PROVE  Ledger'
  BY <1>1, SameLedger DEF HandlesStart, HandlesEnd, outcome
<1>2. CASE ConsultAnnounced \/ TakesFailure
  BY <1>2, SameLedger DEF ConsultAnnounced, TakesFailure, outcome
<1>3. answered \subseteq sent /\ yielded \subseteq sent
  BY DEF TypeOK
<1>4. ASSUME NEW R \in {{}} \cup {{r} : r \in Revisions \ sent}, HandlesComplete(R)
      PROVE  Ledger'
  <2>1. gen = "yielded" /\ turnActive /\ ~done
    BY <1>4, TurnHasEvents DEF HandlesComplete, NextIs
  <2>2. /\ queue' = queue \cup R /\ sent' = sent \cup R /\ answered' = answered \cup yielded
        /\ ~turnActive' /\ UNCHANGED <<gen, yielded, interrupted, done, stash, cut, asked>>
    BY <1>4 DEF HandlesComplete, TurnReset
  <2>3. R \cap sent = {}
    BY <1>4
  <2>4. \A m \in queue' \cap answered' : m \in asked' \cup cut' \cup Settled'
    <3>1. SUFFICES ASSUME NEW m \in queue \cup R, m \in answered \cup yielded
                   PROVE  m \in asked \cup cut \cup Settled'
      BY <2>2
    <3>2. m \in queue
      BY <1>3, <2>3, <3>1
    <3>3. CASE m \in answered
      BY <2>1, <3>2, <3>3 DEF Ledger, Settled
    <3>4. CASE m \in yielded
      BY <2>1, <2>2, <3>4 DEF Ledger, Settled
    <3>5. QED
      BY <3>1, <3>3, <3>4
  <2>5. Settled' \subseteq answered'
    BY <2>2 DEF Settled
  <2>6. QED
    BY <2>1, <2>2, <2>4, <2>5 DEF Ledger
<1>5. CASE HandlesInterrupted
  <2>1. gen = "yielded" /\ turnActive /\ ~done
    BY <1>5, TurnHasEvents DEF HandlesInterrupted, NextIs
  <2>2. /\ interrupted' /\ cut' = cut \cup yielded /\ UNCHANGED <<queue, sent, gen, yielded, done, stash, aborted, answered, asked>>
    BY <1>5 DEF HandlesInterrupted, outcome
  <2>3. QED
    BY <2>1, <2>2 DEF Ledger, Settled
<1>6. CASE Recovers
  <2>1. gen = "yielded" /\ turnActive /\ ~done
    BY <1>6, TurnHasEvents DEF Recovers
  <2>2. /\ stash' = queue /\ done' /\ gen' = "ended"
        /\ UNCHANGED <<queue, sent, yielded, interrupted, aborted, answered, cut, asked>>
    BY <1>6 DEF Recovers, history
  <2>3. QED
    BY <2>1, <2>2 DEF Ledger, Settled
<1>7. CASE Fails
  <2>1. gen = "yielded" /\ turnActive /\ ~done
    BY <1>7, TurnHasEvents DEF Fails
  <2>2. /\ answered' = answered \cup yielded /\ ~turnActive'
        /\ UNCHANGED <<queue, sent, gen, yielded, interrupted, done, stash, aborted, cut, asked>>
    BY <1>7 DEF Fails, TurnReset, outcome
  <2>3. QED
    BY <2>1, <2>2 DEF Ledger, Settled
<1>8. QED
  BY <1>1, <1>2, <1>4, <1>5, <1>6, <1>7 DEF LoopStep

\* Every step keeps the ledger.
LEMMA LedgerStep ==
  ASSUME Typed, Shape, Ledger, [Next]_vars
  PROVE  Ledger'
<1>1. ASSUME NEW t \in Tasks, TaskEnds(t) \/ TaskEventHandled(t)
      PROVE  Ledger'
  <2>1. gen' = gen \/ {gen, gen'} \subseteq {"between", "waiting"}
    BY <1>1 DEF TaskEnds, TaskEventHandled, WakeIfDeliverable
  <2>2. QED
    BY <1>1, <2>1, SameLedger DEF TaskEnds, TaskEventHandled, turn, outcome
<1>2. CASE ProviderEnds \/ ProviderWorks
  <2>1. UNCHANGED <<queue, sent, gen, yielded, turn, interrupted, pendingWake, outcome, tasks, history>>
    BY <1>2, TypedProvider
  <2>2. QED
    BY <2>1, SameLedger DEF turn, outcome
<1>3. CASE WatchdogAborts
  BY <1>3, SameLedger DEF WatchdogAborts, turn
<1>4. CASE UNCHANGED vars
  BY <1>4, SameLedger DEF vars
<1>5. QED
  BY <1>1, <1>2, <1>3, <1>4, LedgerPush, LedgerGenerator, LedgerLoop DEF Next, PromptStep, TaskStep

\* At the start nothing is owed.
LEMMA LedgerInit == Init => Ledger
BY DEF Init, Ledger, Settled

IInv == Typed /\ Shape /\ Ledger

\* The strengthened invariant holds in every reachable state.
LEMMA AlwaysIInv == Spec => []IInv
<1>1. Init => IInv
  BY TypedInit, ShapeInit, LedgerInit DEF IInv
<1>2. IInv /\ [Next]_vars => IInv'
  BY TypedStep, ShapeStep, LedgerStep DEF IInv
<1>3. QED
  BY <1>1, <1>2, PTL DEF Spec

\* No prompt falls out of the queue of a runtime: it is answered, it is queued, or
\* the next runtime starts with it; but for runtimes that were aborted.
THEOREM NothingFallsOut == Spec => []KeptUntilAnswered
<1>1. IInv => KeptUntilAnswered
  BY DEF IInv, Ledger, KeptUntilAnswered
<1>2. QED
  BY <1>1, AlwaysIInv, PTL

------------------------------------------------------------------------------
(* Wake-ups                                                                 *)

\* What decides whether a prompt can be delivered.
LEMMA SameDeliverable ==
  ASSUME UNCHANGED <<queue, turnActive, toolRunning, safety, compacting, done, activeTasks>>
  PROVE  getDeliverableRuntimeMessages(queue)' = getDeliverableRuntimeMessages(queue)
BY DEF getDeliverableRuntimeMessages, canReleaseRuntimeDeliveryBarrier, isGeneratingText,
  dbHasActiveTaskForSession

\* Nothing but the queue and what the barriers look at decides on what is deliverable.
LEMMA NewDeliverable ==
  ASSUME UNCHANGED <<turnActive, toolRunning, safety, compacting, done, activeTasks>>
  PROVE  getDeliverableRuntimeMessages(queue)' = getDeliverableRuntimeMessages(queue')
BY DEF getDeliverableRuntimeMessages, canReleaseRuntimeDeliveryBarrier, isGeneratingText,
  dbHasActiveTaskForSession

\* A step that ends in waiting has looked at the queue, or makes no difference.
LEMMA WakeStep ==
  ASSUME Typed, Shape, NoLostWakeup, [Next]_vars
  PROVE  NoLostWakeup'
<1>1. SUFFICES ASSUME gen' = "waiting"
               PROVE  getDeliverableRuntimeMessages(queue)' = {} \/ taskEvents' # {}
  BY DEF NoLostWakeup
<1>2. ASSUME gen = "waiting", UNCHANGED <<queue, turnActive, toolRunning, safety, compacting, done, tasks>>
      PROVE  getDeliverableRuntimeMessages(queue)' = {} \/ taskEvents' # {}
  BY <1>2, SameDeliverable DEF tasks, NoLostWakeup
<1>3. ASSUME NEW q, Loops(q), UNCHANGED <<toolRunning, safety, compacting, outcome, tasks>>
      PROVE  getDeliverableRuntimeMessages(queue)' = {}
  <2>1. queue' = q /\ getDeliverableRuntimeMessages(q) = {} /\ UNCHANGED turnActive
    BY <1>1, <1>3 DEF Loops
  <2>2. QED
    BY <1>3, <2>1, NewDeliverable DEF outcome, tasks
<1>4. ASSUME NEW m \in Messages, PushWakes(m)
      PROVE  getDeliverableRuntimeMessages(queue)' = {}
  <2>1. getDeliverableRuntimeMessages(queue') = {}
    BY <1>1, <1>4 DEF PushWakes, WakeIfDeliverable
  <2>2. QED
    BY <1>4, <2>1, NewDeliverable DEF PushWakes, turn, outcome, tasks
<1>5. ASSUME NEW m \in Messages, PushQueues(m) \/ PushInterrupts(m)
      PROVE  FALSE
  BY <1>1, <1>5 DEF PushQueues, PushInterrupts, WakeIfDeliverable
<1>6. ASSUME NEW t \in Tasks, TaskEnds(t)
      PROVE  taskEvents' # {}
  BY <1>6 DEF TaskEnds
<1>7. ASSUME NEW t \in Tasks, TaskEventHandled(t)
      PROVE  getDeliverableRuntimeMessages(queue)' = {}
  <2>1. gen = "waiting"
    BY <1>1, <1>7 DEF TaskEventHandled, WakeIfDeliverable
  <2>2. ~done
    BY <2>1 DEF Shape
  <2>3. getDeliverableRuntimeMessages(queue) = {}
    BY <1>1, <1>7, <2>1, <2>2 DEF TaskEventHandled, WakeIfDeliverable
  <2>4. QED
    BY <1>7, <2>3, SameDeliverable DEF TaskEventHandled, turn, outcome
<1>8. CASE Pulled \/ Resumes
  BY <1>3, <1>8 DEF Pulled, Resumes, Resume
<1>9. CASE Yields
  BY <1>1, <1>9 DEF Yields
<1>10. CASE ProviderEnds \/ ProviderWorks
  <2>1. UNCHANGED <<queue, sent, gen, yielded, turn, interrupted, pendingWake, outcome, tasks, history>>
    BY <1>10, TypedProvider
  <2>2. QED
    BY <1>1, <1>2, <2>1 DEF turn, outcome
<1>11. CASE LoopStep
  <2>1. events # <<>> \/ handling # "none"
    BY <1>11 DEF LoopStep, HandlesStart, HandlesEnd, ConsultAnnounced, HandlesComplete,
      HandlesInterrupted, TakesFailure, Recovers, Fails, NextIs
  <2>2. gen = "yielded"
    BY <2>1, TurnHasEvents
  <2>3. gen' \in {gen, "ended"}
    BY <1>11 DEF LoopStep, HandlesStart, HandlesEnd, ConsultAnnounced, HandlesComplete,
      HandlesInterrupted, TakesFailure, Recovers, Fails
  <2>4. QED
    BY <1>1, <2>2, <2>3
<1>12. CASE WatchdogAborts
  BY <1>1, <1>2, <1>12 DEF WatchdogAborts, turn
<1>13. CASE UNCHANGED vars
  BY <1>1, <1>2, <1>13 DEF vars, tasks
<1>14. QED
  BY <1>4, <1>5, <1>6, <1>7, <1>8, <1>9, <1>10, <1>11, <1>12, <1>13
  DEF Next, PromptStep, TaskStep, GeneratorStep

\* While the generator waits, a prompt it could take has a task event on its way.
THEOREM WakeupsArrive == Spec => []NoLostWakeup
<1>1. Init => NoLostWakeup
  BY DEF Init, NoLostWakeup
<1>2. IInv /\ NoLostWakeup /\ [Next]_vars => NoLostWakeup'
  BY WakeStep DEF IInv
<1>3. QED
  BY <1>1, <1>2, AlwaysIInv, PTL DEF Spec

------------------------------------------------------------------------------
(* The mailbox                                                              *)

\* The mailbox sees neither what the generator and the provider are doing nor what
\* the loop has still to learn.
LEMMA UnseenByMailbox ==
  ASSUME UNCHANGED <<sent, yielded, turnActive, outcome, history>>
  PROVE  UNCHANGED Box!vars
BY DEF Box!vars, outcome, history

\* A push is a prompt that the mailbox accepts, and may ask for an interrupt.
LEMMA PushToMailbox ==
  ASSUME NEW m \in Messages, PushWakes(m) \/ PushQueues(m) \/ PushInterrupts(m)
  PROVE  Box!Next
<1>1. {m} \in SUBSET Messages /\ sent' = sent \cup {m} /\ ~done
  BY DEF PushWakes, PushQueues, PushInterrupts, Queued
<1>2. CASE PushWakes(m) \/ PushQueues(m)
  <2>1. Box!Accept({m}) /\ asked' \cup cut' = asked \cup cut
    BY <1>1, <1>2 DEF PushWakes, PushQueues, turn, outcome, history, Box!Accept
  <2>2. QED
    BY <1>1, <2>1 DEF Box!Next
<1>3. CASE PushInterrupts(m)
  <2>1. turnActive
    BY <1>3 DEF PushInterrupts, shouldInterruptRuntimeForIncoming
  <2>2. Box!Accept({m})
    BY <1>1, <1>3 DEF PushInterrupts, turn, outcome, Box!Accept
  <2>3. asked' \cup cut' = (asked \cup cut) \cup yielded
    BY <1>3 DEF PushInterrupts
  <2>4. Box!AskInterrupt({m})
    BY <1>1, <2>1, <2>2, <2>3 DEF Box!AskInterrupt
  <2>5. QED
    BY <1>1, <2>4 DEF Box!Next
<1>4. QED
  BY <1>2, <1>3

\* A turn is taken from the queue, whose prompts are owed.
LEMMA LoopsToMailbox ==
  ASSUME IInv, NEW q, q \subseteq queue \ Settled, ~turnActive, ~done, Loops(q),
         UNCHANGED <<sent, outcome, history>>
  PROVE  [Box!Next]_Box!vars
<1>1. CASE getDeliverableRuntimeMessages(q) = {}
  BY <1>1 DEF Loops, outcome, history, Box!vars
<1>2. CASE getDeliverableRuntimeMessages(q) # {}
  <2> DEFINE S == getDeliverableRuntimeMessages(q)
  <2>1. S \subseteq q
    BY DeliverableQueued
  <2>2. S \subseteq sent /\ S \in SUBSET Messages
    BY <2>1 DEF IInv, Typed, TypeOK
  <2>3. S \subseteq Box!Owed
    BY <2>1, <2>2 DEF IInv, Ledger, Box!Owed, Box!Waiting
  <2>4. turnActive' /\ yielded' = S
    BY <1>2 DEF Loops
  <2>5. Box!TakeTurn(S)
    BY <1>2, <2>3, <2>4 DEF outcome, history, Box!TakeTurn
  <2>6. QED
    BY <2>2, <2>5 DEF Box!Next
<1>3. QED
  BY <1>1, <1>2

\* A step of the generator takes prompts into a turn, ends one, or is not seen.
LEMMA GeneratorToMailbox ==
  ASSUME IInv, GeneratorStep
  PROVE  [Box!Next]_Box!vars
<1>1. CASE Pulled
  <2>1. ~turnActive /\ Settled = {}
    BY <1>1 DEF Pulled, IInv, Shape, Settled
  <2>2. QED
    BY <1>1, <2>1, LoopsToMailbox DEF Pulled
<1>2. CASE Resumes
  <2>1. (IF interrupted THEN queue ELSE queue \ yielded) \subseteq queue \ Settled
    BY <1>2 DEF Resumes, Resume, TurnIsOver, Settled
  <2>2. QED
    BY <1>2, <2>1, LoopsToMailbox DEF Resumes, Resume, TurnIsOver
<1>3. CASE Yields /\ aborted
  <2>1. ~done /\ stash = {} /\ turnActive
    BY <1>3 DEF Yields, IInv, Shape, Ledger
  <2>2. Box!Close({})
    BY <1>3, <2>1 DEF Yields, turn, history, Box!Close
  <2>3. QED
    BY <2>2 DEF Box!Next
<1>4. CASE Yields /\ ~aborted
  BY <1>4, UnseenByMailbox DEF Yields, turn, outcome
<1>5. QED
  BY <1>1, <1>2, <1>3, <1>4 DEF GeneratorStep

\* What the loop learns of a turn that runs.
LEMMA LoopToMailbox ==
  ASSUME IInv, LoopStep
  PROVE  [Box!Next]_Box!vars
<1>1. turnActive /\ ~done /\ gen = "yielded"
  <2>1. events # <<>> \/ handling # "none"
    BY DEF LoopStep, HandlesStart, HandlesEnd, ConsultAnnounced, HandlesComplete,
      HandlesInterrupted, TakesFailure, Recovers, Fails, NextIs
  <2>2. QED
    BY <2>1, TurnHasEvents DEF IInv
<1>2. ASSUME NEW k \in Activities, HandlesStart(k) \/ HandlesEnd(k)
      PROVE  UNCHANGED Box!vars
  BY <1>2, UnseenByMailbox DEF HandlesStart, HandlesEnd, outcome
<1>3. CASE ConsultAnnounced \/ TakesFailure
  BY <1>3, UnseenByMailbox DEF ConsultAnnounced, TakesFailure, outcome
<1>4. ASSUME NEW R \in {{}} \cup {{r} : r \in Revisions \ sent}, HandlesComplete(R)
      PROVE  Box!Next
  <2>1. R \in SUBSET Messages
    BY MessagesAssumption
  <2>2. ~turnActive' /\ aborted' \in {aborted, TRUE}
    BY <1>4 DEF HandlesComplete, TurnReset, IInv, Typed, TypeOK
  <2>3. Box!Answer(R)
    BY <1>1, <1>4, <2>2 DEF HandlesComplete, Box!Answer
  <2>4. QED
    BY <2>1, <2>3 DEF Box!Next
<1>5. CASE HandlesInterrupted
  <2>1. asked' \cup cut' = (asked \cup cut) \cup yielded
    BY <1>5 DEF HandlesInterrupted
  <2>2. Box!AskInterrupt({})
    BY <1>1, <1>5, <2>1 DEF HandlesInterrupted, TurnReset, outcome, Box!AskInterrupt, Box!GiveUp
  <2>3. QED
    BY <2>2 DEF Box!Next
<1>6. CASE Recovers
  <2>1. queue \in SUBSET Messages /\ queue \subseteq sent
    BY DEF IInv, Typed, TypeOK
  <2>2. Settled = {}
    BY <1>1 DEF Settled
  <2>3. queue \subseteq Box!Owed /\ Box!Waiting \subseteq queue
    BY <1>1, <2>1, <2>2 DEF IInv, Ledger, Box!Owed, Box!Waiting
  <2>4. Box!Close(queue)
    BY <1>1, <1>6, <2>3 DEF Recovers, TurnReset, history, Box!Close
  <2>5. QED
    BY <2>1, <2>4 DEF Box!Next
<1>7. CASE Fails
  <2>1. Box!Answer({})
    BY <1>1, <1>7 DEF Fails, TurnReset, outcome, Box!Answer
  <2>2. QED
    BY <2>1 DEF Box!Next
<1>8. QED
  BY <1>2, <1>3, <1>4, <1>5, <1>6, <1>7 DEF LoopStep

\* Every step of the queue is one of the mailbox or a stutter.
LEMMA StepToMailbox ==
  ASSUME IInv, [Next]_vars
  PROVE  [Box!Next]_Box!vars
<1>1. CASE PromptStep
  BY <1>1, PushToMailbox DEF PromptStep
<1>2. ASSUME NEW t \in Tasks, TaskEnds(t) \/ TaskEventHandled(t)
      PROVE  UNCHANGED Box!vars
  BY <1>2, UnseenByMailbox DEF TaskEnds, TaskEventHandled, turn, outcome
<1>3. CASE ProviderEnds \/ ProviderWorks
  <2>1. UNCHANGED <<sent, yielded, turnActive, outcome, history>>
    BY <1>3, TypedProvider DEF turn, IInv
  <2>2. QED
    BY <2>1, UnseenByMailbox
<1>4. CASE WatchdogAborts
  <2>1. Box!Kill
    BY <1>4 DEF WatchdogAborts, turn, history, Box!Kill
  <2>2. QED
    BY <2>1 DEF Box!Next
<1>5. CASE UNCHANGED vars
  BY <1>5 DEF vars, history, Box!vars
<1>6. QED
  BY <1>1, <1>2, <1>3, <1>4, <1>5, GeneratorToMailbox, LoopToMailbox DEF Next, TaskStep

\* The queue implements the mailbox it promises to its senders: every behaviour of
\* the runtime, seen through the prompts accepted, answered and left, is one of the
\* mailbox.
THEOREM ImplementsTheMailbox == Spec => ImplementsMailbox
<1>1. Init => Box!Init
  BY MessagesAssumption DEF Init, Box!Init
<1>2. IInv /\ [Next]_vars => [Box!Next]_Box!vars
  BY StepToMailbox
<1>3. QED
  BY <1>1, <1>2, AlwaysIInv, PTL DEF Spec, ImplementsMailbox, Box!Spec

==================================================================================
