---------------------------- MODULE TriggerRunner ----------------------------
(***************************************************************************)
(* The runner that prompts a session when an event comes on a topic        *)
(* (src/src/triggers/runner.ts), with the table it reads and the commands  *)
(* that change it.  Every daemon has one of its own; this is one of them.  *)
(*                                                                         *)
(* A subscription is an async generator.  sub.return() does not end one    *)
(* that waits for its next event: it ends after that event, which its loop *)
(* still gets.  Every subscription has its own copy of its triggers, with  *)
(* the time each was last fired.                                           *)
(***************************************************************************)
EXTENDS Naturals, FiniteSets

CONSTANTS
  Triggers, Topics,
  Subs,        \* bound: subscriptions at a time
  Test,        \* the list of a trigger that is fired by hand
  NoTopic,
  Cooldown,    \* cooldownMs, in ticks
  MaxBacklog,  \* bound: events a subscription has not looked at
  MaxEdits,    \* bound: commands that change the table
  MaxFaults    \* bound: streams that fail, signals lost and restarts, together

ASSUME TriggerAssumption ==
  /\ IsFiniteSet(Subs) /\ Test \notin Subs /\ NoTopic \notin Topics
  /\ Cooldown \in Nat \ {0} /\ {MaxBacklog, MaxEdits, MaxFaults} \subseteq Nat

VARIABLES
  row,       \* the table; a trigger that was removed is one that is not enabled
  sub,
  firing,    \* <<trigger, subscription>>: prompts being published
  unsent,    \* a command has changed the table and not yet sent otto.triggers.refresh
  signal,    \* that signal is on its way
  edits, faults,
  missed,    \* history: the runner was not told of a change
  hot,       \* history: ticks until the cooldown of the last fire by an event is over
  doubled,   \* history: triggers of which more than one copy went into the cooldown
  early      \* history: what the last step fired in its cooldown, and was not doubled

vars == <<row, sub, firing, unsent, signal, edits, faults, missed, hot, doubled, early>>
table == <<row, unsent, edits>>

\* closing: return() was called; failed: its timer will subscribe again
States == {"free", "open", "closing", "failed"}

Free == [state |-> "free", topic |-> NoTopic, list |-> {},
         cool |-> [t \in Triggers |-> 0], events |-> 0, torn |-> FALSE]

Listing(t) == {s \in Subs : t \in sub[s].list}
Fault == faults < MaxFaults /\ faults' = faults + 1

LessUnbounded(n) == n - 1

\* Date.now() - lastFiredAt, against cooldownMs
Less(n) == IF n = 0 THEN 0 ELSE n - 1

------------------------------------------------------------------------------
(* Subscribing                                                              *)

AllTriggers == Triggers

dbListTriggers == {t \in Triggers : row[t].enabled}

OnTopic(x) == {t \in dbListTriggers : row[t].topic = x}

\* one subscription for each topic of an enabled trigger
subscribeToTopic(x) ==
  [Free EXCEPT !.state = "open", !.topic = x, !.list = OnTopic(x),
               !.cool = [t \in Triggers |-> IF t \in OnTopic(x) THEN row[t].cool ELSE 0]]

TornDown(u) ==
  IF u.state = "open" THEN [u EXCEPT !.state = "closing", !.torn = TRUE]
                      ELSE [u EXCEPT !.torn = u.state # "free"]

\* The subscriptions of all topics, each one of the unused.
Allotments(unused) ==
  {ids \in [{x \in Topics : OnTopic(x) # {}} -> unused] :
     \A x, y \in DOMAIN ids : ids[x] = ids[y] => x = y}

Subscribed(ids, others) ==
  [s \in Subs |-> IF \E x \in DOMAIN ids : ids[x] = s
                    THEN subscribeToTopic(CHOOSE x \in DOMAIN ids : ids[x] = s)
                    ELSE others[s]]

NoneBefore == [s \in Subs |-> Free]

\* setupSubscriptions, whose calls do not overlap: it never waits
SetUp ==
  /\ \E ids \in Allotments({s \in Subs : sub[s] = Free /\ \A t \in Triggers : <<t, s>> \notin firing}) :
       sub' = Subscribed(ids, [s \in Subs |-> TornDown(sub[s])])
  /\ doubled' = doubled \cup {t \in dbListTriggers : hot[t] > row[t].cool \/ Listing(t) # {}}

Init ==
  /\ row \in [Triggers -> [enabled : BOOLEAN, topic : Topics, cool : {0}]]
  /\ \E ids \in Allotments(Subs) : sub = Subscribed(ids, NoneBefore)
  /\ firing = {} /\ unsent = FALSE /\ signal = FALSE
  /\ edits = 0 /\ faults = 0
  /\ missed = FALSE /\ doubled = {} /\ early = {}
  /\ hot = [t \in Triggers |-> 0]

subscribeToConfigRefresh ==
  /\ signal
  /\ SetUp
  /\ signal' = FALSE /\ missed' = FALSE
  /\ early' = {}
  /\ UNCHANGED <<table, firing, faults, hot>>

\* The daemon ends and starts again.
Restart ==
  /\ Fault
  /\ firing' = {}
  /\ \E ids \in Allotments(Subs) : sub' = Subscribed(ids, NoneBefore)
  /\ signal' = FALSE /\ missed' = FALSE
  /\ doubled' = {t \in Triggers : hot[t] > row[t].cool}
  /\ early' = {}
  /\ UNCHANGED <<table, hot>>

StreamFails(s) ==
  /\ sub[s].state \in {"open", "closing"} /\ Fault
  /\ sub' = [sub EXCEPT ![s].state = "failed", ![s].events = 0]
  /\ early' = {}
  /\ UNCHANGED <<table, firing, signal, missed, hot, doubled>>

\* After 5 s, with the triggers the failed subscription had.
Retry(s) ==
  /\ sub[s].state = "failed"
  /\ sub' = [sub EXCEPT ![s].state = "open"]
  /\ early' = {}
  /\ UNCHANGED <<table, firing, signal, faults, missed, hot, doubled>>

------------------------------------------------------------------------------
(* Firing                                                                   *)

Event(x) ==
  LET hears == {s \in Subs : sub[s].topic = x /\ sub[s].state \in {"open", "closing"}}
  IN /\ hears # {} /\ \A s \in hears : sub[s].events < MaxBacklog
     /\ sub' = [s \in Subs |-> IF s \in hears THEN [sub[s] EXCEPT !.events = @ + 1] ELSE sub[s]]
     /\ early' = {}
     /\ UNCHANGED <<table, firing, signal, faults, missed, hot, doubled>>

Fires(s, F) ==
  /\ firing' = firing \cup {<<t, s>> : t \in F}
  /\ hot' = [t \in Triggers |-> IF t \in F THEN Cooldown ELSE hot[t]]
  /\ early' = {t \in F \ doubled : hot[t] > 0}

\* The cooldown starts with the prompt's publication.
DeliverCoolsLate(s) ==
  /\ sub[s].events > 0
  /\ \E F \in SUBSET {t \in sub[s].list : sub[s].cool[t] = 0} :
       /\ Fires(s, F)
       /\ sub' = [sub EXCEPT ![s] =
            IF @.state = "closing" THEN Free ELSE [@ EXCEPT !.events = @ - 1]]
  /\ UNCHANGED <<table, signal, faults, missed, doubled>>

\* What fires cools down in the copy; a generator that was told to return does so.
Handled(u, F) ==
  IF u.state = "closing" THEN Free
  ELSE [u EXCEPT !.events = u.events - 1,
                 !.cool = [t \in Triggers |-> IF t \in F THEN Cooldown ELSE u.cool[t]]]

\* The triggers that match the event, and are not cooling down, fire.
Deliver(s) ==
  /\ sub[s].events > 0
  /\ \E F \in SUBSET {t \in sub[s].list : sub[s].cool[t] = 0} :
       /\ Fires(s, F)
       /\ sub' = [sub EXCEPT ![s] = Handled(sub[s], F)]
  /\ UNCHANGED <<table, signal, faults, missed, doubled>>

subscribeToTestEvents(t) ==
  /\ \A u \in Triggers : <<u, Test>> \notin firing
  /\ firing' = firing \cup {<<t, Test>>}
  /\ early' = {}
  /\ UNCHANGED <<table, sub, signal, faults, missed, hot, doubled>>

\* fireTrigger, when the prompt is published: the table and the copy are written
Published(t, s) ==
  /\ <<t, s>> \in firing
  /\ firing' = firing \ {<<t, s>>}
  /\ row' = [row EXCEPT ![t].cool = Cooldown]
  /\ sub' = [o \in Subs |-> IF o = s /\ t \in sub[o].list
                              THEN [sub[o] EXCEPT !.cool[t] = Cooldown] ELSE sub[o]]
  /\ early' = {}
  /\ UNCHANGED <<unsent, edits, signal, faults, missed, hot, doubled>>

PublishFails(t, s) ==
  /\ <<t, s>> \in firing /\ Fault
  /\ firing' = firing \ {<<t, s>>}
  /\ early' = {}
  /\ UNCHANGED <<table, sub, signal, missed, hot, doubled>>

\* Nothing is published for as long as a tick.
Tick ==
  /\ firing = {}
  /\ row' = [t \in Triggers |-> [row[t] EXCEPT !.cool = Less(@)]]
  /\ sub' = [s \in Subs |-> [sub[s] EXCEPT !.cool = [t \in Triggers |-> Less(@[t])]]]
  /\ hot' = [t \in Triggers |-> IF hot[t] = 0 THEN 0 ELSE hot[t] - 1]
  /\ doubled' = {t \in doubled : hot[t] > 1 \/ Cardinality(Listing(t)) > 1}
  /\ early' = {}
  /\ UNCHANGED <<firing, unsent, edits, signal, faults, missed>>

------------------------------------------------------------------------------
(* Commands                                                                 *)

dbUpdateTrigger(t, enabled, x) ==
  /\ ~unsent /\ edits < MaxEdits
  /\ row' = [row EXCEPT ![t].enabled = enabled, ![t].topic = x]
  /\ edits' = edits + 1
  /\ unsent' = TRUE
  /\ early' = {}
  /\ UNCHANGED <<sub, firing, signal, faults, missed, hot, doubled>>

EmitRefresh ==
  /\ unsent /\ unsent' = FALSE
  /\ signal' = TRUE
  /\ early' = {}
  /\ UNCHANGED <<row, edits, sub, firing, faults, missed, hot, doubled>>

\* The command ends before it sends, or the message finds nobody.
RefreshLost ==
  /\ unsent /\ unsent' = FALSE /\ Fault
  /\ missed' = TRUE
  /\ early' = {}
  /\ UNCHANGED <<row, edits, sub, firing, signal, hot, doubled>>

Next ==
  \/ \E t \in Triggers, e \in BOOLEAN, x \in Topics : dbUpdateTrigger(t, e, x)
  \/ EmitRefresh \/ RefreshLost
  \/ subscribeToConfigRefresh \/ Restart
  \/ \E x \in Topics : Event(x)
  \/ \E s \in Subs : Deliver(s) \/ StreamFails(s) \/ Retry(s)
  \/ \E t \in Triggers : \/ subscribeToTestEvents(t)
                         \/ \E s \in Subs \cup {Test} : Published(t, s) \/ PublishFails(t, s)
  \/ Tick

Spec == Init /\ [][Next]_vars

------------------------------------------------------------------------------
(* Properties                                                               *)

\* The table and the subscriptions hold what they are declared to hold.
TypeOK ==
  /\ row \in [Triggers -> [enabled : BOOLEAN, topic : Topics, cool : 0..Cooldown]]
  /\ sub \in [Subs -> [state : States, topic : Topics \cup {NoTopic}, list : SUBSET Triggers,
                       cool : [Triggers -> 0..Cooldown], events : 0..MaxBacklog, torn : BOOLEAN]]
  /\ firing \subseteq Triggers \X (Subs \cup {Test})
  /\ {unsent, signal, missed} \subseteq BOOLEAN
  /\ edits \in 0..MaxEdits /\ faults \in 0..MaxFaults
  /\ hot \in [Triggers -> 0..Cooldown] /\ doubled \subseteq Triggers
  /\ early \subseteq Triggers

\* The runner listens to what is enabled: once a change has been signalled and
\* taken up, each enabled trigger is on the list of its topic, and no other is on
\* a list, but for subscriptions that were torn down and have not ended or have
\* come back with their timer.
ListensToEnabled ==
  ~(unsent \/ signal \/ missed) =>
    \A t \in Triggers :
      LET current == {s \in Listing(t) : ~sub[s].torn}
      IN IF row[t].enabled
           THEN \E s \in current : current = {s} /\ sub[s].topic = row[t].topic
           ELSE current = {}

\* A trigger is fired by an event again only after its cooldown, however the
\* events crowd, unless its copies were doubled by a refresh or a restart.
CooldownKept == early = {}

==============================================================================
