----------------------------- MODULE RunnerProofs -----------------------------
(***************************************************************************)
(* Theorems about TriggerRunner and CronRunner, the two runners of the     *)
(* leading daemon.                                                         *)
(*                                                                         *)
(* TriggerRunner, for any triggers, topics and finite set of               *)
(* subscriptions, any cooldown, and any number of edits and faults: the    *)
(* types, that the runner listens to what is enabled, and that a trigger   *)
(* is not fired again in its cooldown.  What the runner listens to rests   *)
(* on where a subscription can be (Placed): what is free lists nothing,    *)
(* and one that is closing was torn down.  The cooldown rests on the       *)
(* copies of a trigger (Cooling): unless they were doubled, one            *)
(* subscription lists it, and that one's copy cools for as long as the     *)
(* trigger does.                                                           *)
(*                                                                         *)
(* CronRunner, for any daemons and jobs, any finite set of schedules, and  *)
(* any number of commands and mishaps: the types, that the timer is never  *)
(* late, that a run time is published once and in order, and that it fits  *)
(* the schedule.  The timer rests on what is in hand when it is not armed  *)
(* again: what it works on was due (DueWork), and a manual run wrote no    *)
(* earlier run time than it had read (Dated).  How far ahead a run time    *)
(* can be is bounded by the commands that have not yet come to a run       *)
(* (Counted): a manual run moves it on by an interval, and a command was   *)
(* needed for it.  What was published rests on what can fire again         *)
(* (Ahead): a row, and what was read of it, is ahead of the last run time  *)
(* that was published.                                                     *)
(***************************************************************************)
EXTENDS TriggerRunner, CronRunner, FiniteSetTheorems, WellFoundedInduction, TLAPS

(***************************************************************************)
(* TriggerRunner                                                           *)
(***************************************************************************)

Subscription ==
  [state : States, topic : Topics \cup {NoTopic}, list : SUBSET Triggers,
   cool : [Triggers -> 0..Cooldown], events : 0..MaxBacklog, torn : BOOLEAN]

TableTyped == row \in [Triggers -> [enabled : BOOLEAN, topic : Topics, cool : 0..Cooldown]]

PlacedIn(subs) ==
  \A s \in Subs : /\ subs[s].state = "free" => subs[s].list = {}
                  /\ subs[s].state = "closing" => subs[s].torn

Placed == PlacedIn(sub)

Cooling ==
  \A t \in Triggers \ doubled : \A s \in Subs :
    t \in sub[s].list => /\ hot[t] <= sub[s].cool[t]
                         /\ \A o \in Subs : t \in sub[o].list => o = s

IInv == TypeOK /\ Placed /\ Cooling /\ CooldownKept

------------------------------------------------------------------------------
(* Subscriptions                                                            *)

\* A subscription that is not in use.
LEMMA FreeIs ==
  /\ Free \in Subscription
  /\ Free.state = "free" /\ Free.list = {} /\ Free.events = 0 /\ ~Free.torn
BY TriggerAssumption DEF Free, Subscription, States

\* A new subscription lists the enabled triggers of its topic, as cool as their rows.
LEMMA SubscriptionIs ==
  ASSUME TableTyped, NEW x \in Topics
  PROVE  LET u == subscribeToTopic(x)
         IN /\ u \in Subscription
            /\ u.state = "open" /\ u.topic = x /\ u.list = OnTopic(x) /\ ~u.torn
            /\ \A t \in OnTopic(x) : u.cool[t] = row[t].cool
<1>1. \A t \in Triggers : row[t].cool \in 0..Cooldown
  BY DEF TableTyped
<1>2. OnTopic(x) \in SUBSET Triggers
  BY DEF OnTopic, dbListTriggers
<1>3. [t \in Triggers |-> IF t \in OnTopic(x) THEN row[t].cool ELSE 0] \in [Triggers -> 0..Cooldown]
  BY <1>1, TriggerAssumption
<1>4. 0 \in 0..MaxBacklog
  BY TriggerAssumption
<1>5. QED
  BY <1>2, <1>3, <1>4 DEF subscribeToTopic, Free, Subscription, States

\* A subscription keeps its type when it changes its state.
LEMMA StateChanges ==
  ASSUME NEW u \in Subscription, NEW st \in States
  PROVE  /\ [u EXCEPT !.state = st] \in Subscription
         /\ [u EXCEPT !.state = st, !.events = 0] \in Subscription
<1>1. 0 \in 0..MaxBacklog
  BY TriggerAssumption
<1>2. QED
  BY <1>1 DEF Subscription

\* A subscription keeps its type when its copies fire or cool.
LEMMA CopyChanges ==
  ASSUME NEW u \in Subscription, NEW n \in 0..MaxBacklog, NEW c \in [Triggers -> 0..Cooldown]
  PROVE  /\ [u EXCEPT !.cool = c] \in Subscription
         /\ [u EXCEPT !.events = n, !.cool = c] \in Subscription
BY DEF Subscription

\* A subscription is one that was chosen for a topic, or what it was before.
LEMMA SubscribedIs ==
  ASSUME NEW unused, unused \subseteq Subs, NEW ids \in Allotments(unused), NEW others, NEW s \in Subs
  PROVE  \/ \E x \in Topics : /\ x \in DOMAIN ids /\ ids[x] = s /\ s \in unused
                              /\ Subscribed(ids, others)[s] = subscribeToTopic(x)
         \/ Subscribed(ids, others)[s] = others[s] /\ \A x \in DOMAIN ids : ids[x] # s
<1>1. /\ ids \in [{x \in Topics : OnTopic(x) # {}} -> unused]
      /\ \A x, y \in DOMAIN ids : ids[x] = ids[y] => x = y
  BY DEF Allotments
<1>2. CASE \E x \in DOMAIN ids : ids[x] = s
  <2>1. PICK x \in DOMAIN ids : ids[x] = s
    BY <1>2
  <2>2. x = CHOOSE y \in DOMAIN ids : ids[y] = s
    BY <1>1, <2>1
  <2>3. x \in Topics /\ s \in unused
    BY <1>1, <2>1
  <2>4. QED
    BY <2>1, <2>2, <2>3 DEF Subscribed
<1>3. CASE ~\E x \in DOMAIN ids : ids[x] = s
  BY <1>3 DEF Subscribed
<1>4. QED
  BY <1>2, <1>3

\* Every topic of an enabled trigger has a subscription of its own.
LEMMA EachTopicChosen ==
  ASSUME NEW unused, NEW ids \in Allotments(unused), NEW t \in Triggers, row[t].enabled,
         row[t].topic \in Topics
  PROVE  row[t].topic \in DOMAIN ids /\ ids[row[t].topic] \in unused
<1>1. t \in OnTopic(row[t].topic)
  BY DEF OnTopic, dbListTriggers
<1>2. QED
  BY <1>1 DEF Allotments

\* What closing does to a subscription: it keeps its list until it has ended.
LEMMA TornDownIs ==
  ASSUME NEW u \in Subscription
  PROVE  /\ TornDown(u) \in Subscription
         /\ TornDown(u).list = u.list /\ TornDown(u).cool = u.cool
         /\ u.state = "open" => TornDown(u).state = "closing"
         /\ u.state # "open" => TornDown(u).state = u.state
         /\ TornDown(u).torn = (u.state # "free")
BY DEF TornDown, Subscription, States

\* The subscriptions after SetUp and after a restart: those that were chosen list the
\* enabled triggers of their topic; the others are torn down, or free.
LEMMA AfterSubscribing ==
  ASSUME TableTyped, NEW unused, unused \subseteq Subs, NEW ids \in Allotments(unused), NEW others, NEW new,
         \A s \in Subs : others[s] \in Subscription,
         \A s \in unused : others[s].list = {},
         \A s \in Subs : /\ others[s].state = "free" => others[s].list = {}
                         /\ others[s].state = "closing" => others[s].torn
                         /\ others[s].list # {} => others[s].torn,
         new = Subscribed(ids, others)
  PROVE  /\ new \in [Subs -> Subscription] /\ PlacedIn(new)
         /\ \A t \in Triggers : row[t].enabled =>
              LET s == ids[row[t].topic]
              IN /\ s \in Subs /\ t \in new[s].list /\ ~new[s].torn
                 /\ new[s].topic = row[t].topic /\ new[s].cool[t] = row[t].cool
         /\ \A s \in Subs : \A t \in new[s].list :
              \/ row[t].enabled /\ s = ids[row[t].topic]
              \/ t \in others[s].list /\ new[s].torn /\ new[s].cool = others[s].cool
<1>1. \A t \in Triggers : row[t].topic \in Topics /\ row[t].enabled \in BOOLEAN
  BY DEF TableTyped
<1>2. \A s \in Subs : new[s] = Subscribed(ids, others)[s]
  OBVIOUS
<1>3. \A s \in Subs : new[s] \in Subscription
  BY <1>2, SubscribedIs, SubscriptionIs
<1>4. new = [s \in Subs |-> new[s]]
  BY DEF Subscribed
<1>5. PlacedIn(new)
  <2>1. ASSUME NEW s \in Subs
        PROVE  /\ new[s].state = "free" => new[s].list = {}
               /\ new[s].state = "closing" => new[s].torn
    BY <1>2, SubscribedIs, SubscriptionIs
  <2>2. QED
    BY <2>1 DEF PlacedIn
<1>6. ASSUME NEW t \in Triggers, row[t].enabled
      PROVE  LET s == ids[row[t].topic]
             IN /\ s \in Subs /\ t \in new[s].list /\ ~new[s].torn
                /\ new[s].topic = row[t].topic /\ new[s].cool[t] = row[t].cool
  <2> DEFINE s == ids[row[t].topic]
  <2>1. row[t].topic \in DOMAIN ids /\ s \in unused
    BY <1>1, <1>6, EachTopicChosen
  <2>2. s \in Subs
    BY <2>1
  <2>3. PICK x \in Topics : x \in DOMAIN ids /\ ids[x] = s /\ new[s] = subscribeToTopic(x)
    BY <1>2, <2>1, <2>2, SubscribedIs
  <2>4. x = row[t].topic
    BY <2>1, <2>3 DEF Allotments
  <2>5. t \in OnTopic(x)
    BY <1>6, <2>4 DEF OnTopic, dbListTriggers
  <2>6. QED
    BY <2>2, <2>3, <2>4, <2>5, SubscriptionIs
<1>7. ASSUME NEW s \in Subs, NEW t \in new[s].list
      PROVE  \/ row[t].enabled /\ s = ids[row[t].topic]
             \/ t \in others[s].list /\ new[s].torn /\ new[s].cool = others[s].cool
  <2>1. CASE \E x \in Topics : ids[x] = s /\ new[s] = subscribeToTopic(x)
    <3>1. PICK x \in Topics : ids[x] = s /\ t \in OnTopic(x)
      BY <1>7, <2>1, SubscriptionIs
    <3>2. QED
      BY <3>1 DEF OnTopic, dbListTriggers
  <2>2. CASE new[s] = others[s]
    BY <1>7, <2>2
  <2>3. QED
    BY <1>2, <2>1, <2>2, SubscribedIs
<1>8. QED
  BY <1>3, <1>4, <1>5, <1>6, <1>7

------------------------------------------------------------------------------
(* Setting up and restarting                                                *)

\* What the runner listens to just after it has read the table.
Listening ==
  \A t \in Triggers :
    LET current == {s \in Listing(t) : ~sub[s].torn}
    IN IF row[t].enabled
         THEN \E s \in current : current = {s} /\ sub[s].topic = row[t].topic
         ELSE current = {}

\* Whoever rebuilds all subscriptions ends up listening to what is enabled.
LEMMA SetUpStep ==
  ASSUME TypeOK, Placed, Cooling, SetUp, UNCHANGED <<row, hot>>
  PROVE  /\ sub' \in [Subs -> Subscription] /\ doubled' \subseteq Triggers
         /\ Placed' /\ Cooling' /\ Listening'
<1> DEFINE unused == {s \in Subs : sub[s] = Free /\ \A t \in Triggers : <<t, s>> \notin firing}
           others == [s \in Subs |-> TornDown(sub[s])]
<1>1. PICK ids \in Allotments(unused) : sub' = Subscribed(ids, others)
  BY DEF SetUp
<1>2. \A s \in Subs : sub[s] \in Subscription
  BY DEF TypeOK, Subscription
<1>3. \A s \in Subs : /\ others[s] \in Subscription
                      /\ others[s].list = sub[s].list /\ others[s].cool = sub[s].cool
                      /\ others[s].state = "free" => sub[s].state = "free"
                      /\ others[s].state = "closing" => others[s].torn
                      /\ others[s].list # {} => others[s].torn
  BY <1>2, TornDownIs DEF Placed, PlacedIn
<1>4. \A s \in unused : others[s].list = {}
  BY <1>3, FreeIs
<1>5. \A s \in Subs : others[s].state = "free" => others[s].list = {}
  BY <1>3 DEF Placed, PlacedIn
<1> HIDE DEF unused, others
<1>6. unused \subseteq Subs
  BY DEF unused
<1>7. /\ sub' \in [Subs -> Subscription] /\ PlacedIn(sub')
      /\ \A t \in Triggers : row[t].enabled =>
           LET s == ids[row[t].topic]
           IN /\ s \in Subs /\ t \in sub'[s].list /\ ~sub'[s].torn
              /\ sub'[s].topic = row[t].topic /\ sub'[s].cool[t] = row[t].cool
      /\ \A s \in Subs : \A t \in sub'[s].list :
           \/ row[t].enabled /\ s = ids[row[t].topic]
           \/ t \in others[s].list /\ sub'[s].torn /\ sub'[s].cool = others[s].cool
  BY <1>1, <1>3, <1>4, <1>5, <1>6, AfterSubscribing DEF TypeOK, TableTyped
<1>8. doubled' = doubled \cup {t \in dbListTriggers : hot[t] > row[t].cool \/ Listing(t) # {}}
  BY DEF SetUp
<1>9. doubled' \subseteq Triggers
  BY <1>8 DEF TypeOK, dbListTriggers
<1>10. Cooling'
  <2>1. SUFFICES ASSUME NEW t \in Triggers, t \notin doubled', NEW s \in Subs, t \in sub'[s].list
                 PROVE  /\ hot'[t] <= sub'[s].cool[t]
                        /\ \A o \in Subs : t \in sub'[o].list => o = s
    BY DEF Cooling
  <2>2. CASE row[t].enabled
    <3>1. ~(hot[t] > row[t].cool) /\ \A o \in Subs : t \notin sub[o].list
      BY <1>8, <2>1, <2>2 DEF dbListTriggers, Listing
    <3>2. \A o \in Subs : t \in sub'[o].list => o = ids[row[t].topic]
      BY <1>3, <1>7, <3>1
    <3>3. hot[t] \in 0..Cooldown /\ row[t].cool \in 0..Cooldown
      BY DEF TypeOK
    <3>4. hot[t] <= row[t].cool
      BY <3>1, <3>3, TriggerAssumption
    <3>5. QED
      BY <1>7, <2>1, <2>2, <3>2, <3>4
  <2>3. CASE ~row[t].enabled
    <3>1. \A o \in Subs : t \in sub'[o].list => t \in sub[o].list /\ sub'[o].cool = sub[o].cool
      BY <1>3, <1>7, <2>3
    <3>2. t \notin doubled
      BY <1>8, <2>1
    <3>3. QED
      BY <2>1, <3>1, <3>2 DEF Cooling
  <2>4. QED
    BY <2>2, <2>3
<1>11. Listening'
  <2>1. ASSUME NEW t \in Triggers
        PROVE  LET current == {s \in Subs : t \in sub'[s].list /\ ~sub'[s].torn}
               IN IF row[t].enabled
                    THEN \E s \in current : current = {s} /\ sub'[s].topic = row[t].topic
                    ELSE current = {}
    BY <1>7
  <2>2. QED
    BY <2>1 DEF Listening, Listing
<1>12. QED
  BY <1>7, <1>9, <1>10, <1>11 DEF Placed

\* A restart, and the start of the daemon, subscribe with nothing before.
LEMMA FreshSubscriptions ==
  ASSUME TableTyped, NEW ids \in Allotments(Subs), NEW new, new = Subscribed(ids, NoneBefore)
  PROVE  /\ new \in [Subs -> Subscription] /\ PlacedIn(new)
         /\ \A t \in Triggers : row[t].enabled =>
              LET s == ids[row[t].topic]
              IN /\ s \in Subs /\ t \in new[s].list /\ ~new[s].torn
                 /\ new[s].topic = row[t].topic /\ new[s].cool[t] = row[t].cool
         /\ \A s \in Subs : \A t \in new[s].list : row[t].enabled /\ s = ids[row[t].topic]
<1>1. \A s \in Subs : NoneBefore[s] \in Subscription /\ NoneBefore[s].list = {}
                      /\ NoneBefore[s].state = "free"
  BY FreeIs DEF NoneBefore
<1>2. QED
  BY <1>1, AfterSubscribing

\* A daemon that starts again listens to what is enabled, with fresh copies.
LEMMA RestartStep ==
  ASSUME TypeOK, Restart
  PROVE  sub' \in [Subs -> Subscription] /\ Placed' /\ Cooling' /\ Listening'
<1>1. PICK ids \in Allotments(Subs) : sub' = Subscribed(ids, NoneBefore)
  BY DEF Restart
<1>2. /\ sub' \in [Subs -> Subscription] /\ PlacedIn(sub')
      /\ \A t \in Triggers : row[t].enabled =>
           LET s == ids[row[t].topic]
           IN /\ s \in Subs /\ t \in sub'[s].list /\ ~sub'[s].torn
              /\ sub'[s].topic = row[t].topic /\ sub'[s].cool[t] = row[t].cool
      /\ \A s \in Subs : \A t \in sub'[s].list : row[t].enabled /\ s = ids[row[t].topic]
  BY <1>1, FreshSubscriptions DEF TypeOK, TableTyped
<1>3. row' = row /\ hot' = hot /\ doubled' = {t \in Triggers : hot[t] > row[t].cool}
  BY DEF Restart, table
<1>4. Cooling'
  <2>1. SUFFICES ASSUME NEW t \in Triggers, t \notin doubled', NEW s \in Subs, t \in sub'[s].list
                 PROVE  /\ hot'[t] <= sub'[s].cool[t]
                        /\ \A o \in Subs : t \in sub'[o].list => o = s
    BY DEF Cooling
  <2>2. hot[t] \in 0..Cooldown /\ row[t].cool \in 0..Cooldown
    BY DEF TypeOK
  <2>3. hot[t] <= row[t].cool
    BY <1>3, <2>1, <2>2, TriggerAssumption
  <2>4. QED
    BY <1>2, <1>3, <2>1, <2>3
<1>5. Listening'
  <2>1. ASSUME NEW t \in Triggers
        PROVE  LET current == {s \in Subs : t \in sub'[s].list /\ ~sub'[s].torn}
               IN IF row[t].enabled
                    THEN \E s \in current : current = {s} /\ sub'[s].topic = row[t].topic
                    ELSE current = {}
    BY <1>2
  <2>2. QED
    BY <1>3, <2>1 DEF Listening, Listing
<1>6. QED
  BY <1>2, <1>4, <1>5 DEF Placed

------------------------------------------------------------------------------
(* Initial states                                                           *)

\* A daemon that has just started listens to what is enabled.
LEMMA InitHolds == Init => IInv /\ ListensToEnabled
<1> SUFFICES ASSUME Init PROVE IInv /\ ListensToEnabled
  OBVIOUS
<1>1. 0 \in 0..Cooldown /\ 0 \in 0..MaxEdits /\ 0 \in 0..MaxFaults
  BY TriggerAssumption
<1>2. TableTyped
  BY <1>1 DEF Init, TableTyped
<1>3. PICK ids \in Allotments(Subs) : sub = Subscribed(ids, NoneBefore)
  BY DEF Init
<1>4. /\ sub \in [Subs -> Subscription] /\ PlacedIn(sub)
      /\ \A t \in Triggers : row[t].enabled =>
           LET s == ids[row[t].topic]
           IN /\ s \in Subs /\ t \in sub[s].list /\ ~sub[s].torn
              /\ sub[s].topic = row[t].topic /\ sub[s].cool[t] = row[t].cool
      /\ \A s \in Subs : \A t \in sub[s].list : row[t].enabled /\ s = ids[row[t].topic]
  BY <1>2, <1>3, FreshSubscriptions
<1>5. TypeOK
  BY <1>1, <1>2, <1>4 DEF Init, TypeOK, TableTyped, Subscription
<1>6. Cooling
  <2>1. SUFFICES ASSUME NEW t \in Triggers, NEW s \in Subs, t \in sub[s].list
                 PROVE  /\ hot[t] <= sub[s].cool[t]
                        /\ \A o \in Subs : t \in sub[o].list => o = s
    BY DEF Cooling
  <2>2. hot[t] = 0 /\ sub[s].cool[t] \in 0..Cooldown
    BY <1>5 DEF Init, TypeOK
  <2>3. hot[t] <= sub[s].cool[t]
    BY <2>2, TriggerAssumption
  <2>4. QED
    BY <1>4, <2>1, <2>3
<1>7. ListensToEnabled
  <2>1. ASSUME NEW t \in Triggers
        PROVE  LET current == {s \in Subs : t \in sub[s].list /\ ~sub[s].torn}
               IN IF row[t].enabled
                    THEN \E s \in current : current = {s} /\ sub[s].topic = row[t].topic
                    ELSE current = {}
    BY <1>4
  <2>2. QED
    BY <2>1 DEF ListensToEnabled, Listing
<1>8. QED
  BY <1>4, <1>5, <1>6, <1>7 DEF IInv, Placed, CooldownKept, Init

------------------------------------------------------------------------------
(* Types                                                                    *)

\* A step that leaves the table and the subscriptions, or changes a subscription as
\* it may.
LEMMA TypedStep ==
  ASSUME IInv, [Next]_vars
  PROVE  TypeOK'
<1> USE DEF TypeOK, IInv
<1>1. sub \in [Subs -> Subscription]
  BY DEF Subscription
<1>2. \A n \in 0..Cooldown : Less(n) \in 0..Cooldown
  BY TriggerAssumption DEF Less
<1>3. Cooldown \in 0..Cooldown /\ 0 \in 0..MaxBacklog
  BY TriggerAssumption
<1>4. ASSUME Fault PROVE faults' \in 0..MaxFaults
  BY <1>4, TriggerAssumption DEF Fault
<1>5. ASSUME NEW t \in Triggers, NEW e \in BOOLEAN, NEW x \in Topics, dbUpdateTrigger(t, e, x)
      PROVE  TypeOK'
  <2>1. edits' \in 0..MaxEdits
    BY <1>5, TriggerAssumption DEF dbUpdateTrigger
  <2>2. row' \in [Triggers -> [enabled : BOOLEAN, topic : Topics, cool : 0..Cooldown]]
    BY ZenonT(30), <1>5 DEF dbUpdateTrigger
  <2>3. QED
    BY <1>5, <2>1, <2>2 DEF dbUpdateTrigger
<1>6. CASE EmitRefresh \/ RefreshLost
  BY <1>4, <1>6 DEF EmitRefresh, RefreshLost
<1>7. CASE subscribeToConfigRefresh
  <2>1. sub' \in [Subs -> Subscription] /\ doubled' \subseteq Triggers
    BY <1>7, SetUpStep DEF subscribeToConfigRefresh, table
  <2>2. QED
    BY <1>7, <2>1 DEF subscribeToConfigRefresh, table, Subscription
<1>8. CASE Restart
  <2>1. sub' \in [Subs -> Subscription]
    BY <1>8, RestartStep
  <2>2. QED
    BY <1>4, <1>8, <2>1 DEF Restart, table, Subscription
<1>9. ASSUME NEW x \in Topics, Event(x)
      PROVE  TypeOK'
  <2> DEFINE hears == {s \in Subs : sub[s].topic = x /\ sub[s].state \in {"open", "closing"}}
  <2>1. /\ \A s \in hears : sub[s].events < MaxBacklog
        /\ sub' = [s \in Subs |-> IF s \in hears THEN [sub[s] EXCEPT !.events = @ + 1] ELSE sub[s]]
    BY <1>9 DEF Event
  <2>2. \A s \in Subs : sub'[s] \in Subscription
    <3>1. TAKE s \in Subs
    <3>2. s \in hears => sub[s].events + 1 \in 0..MaxBacklog
      BY <2>1, TriggerAssumption
    <3>3. CASE s \in hears
      <4>1. sub'[s] = [sub[s] EXCEPT !.events = sub[s].events + 1] /\ sub[s] \in Subscription
        BY <1>1, <2>1, <3>3
      <4>2. QED
        BY <3>2, <3>3, <4>1 DEF Subscription
    <3>4. CASE s \notin hears
      BY <1>1, <2>1, <3>4
    <3>5. QED
      BY <3>3, <3>4
  <2>3. sub' \in [Subs -> Subscription]
    BY <2>1, <2>2
  <2>4. QED
    BY <1>9, <2>3 DEF Event, table, Subscription
<1>10. ASSUME NEW s \in Subs, StreamFails(s) \/ Retry(s)
       PROVE  TypeOK'
  <2>1. sub' \in [Subs -> Subscription]
    <3>1. "failed" \in States /\ "open" \in States
      BY DEF States
    <3>2. CASE StreamFails(s)
      <4>1. sub' = [sub EXCEPT ![s] = [sub[s] EXCEPT !.state = "failed", !.events = 0]]
        BY <1>1, <3>2 DEF StreamFails
      <4>2. QED
        BY <1>1, <3>1, <4>1, StateChanges
    <3>3. CASE Retry(s)
      <4>1. sub' = [sub EXCEPT ![s] = [sub[s] EXCEPT !.state = "open"]]
        BY <1>1, <3>3 DEF Retry
      <4>2. QED
        BY <1>1, <3>1, <4>1, StateChanges
    <3>4. QED
      BY <1>10, <3>2, <3>3
  <2>2. faults' \in 0..MaxFaults
    BY <1>4, <1>10 DEF StreamFails, Retry
  <2>3. QED
    BY <1>10, <2>1, <2>2 DEF StreamFails, Retry, table, Subscription
<1>11. ASSUME NEW s \in Subs, Deliver(s)
       PROVE  TypeOK'
  <2>1. PICK F \in SUBSET {t \in sub[s].list : sub[s].cool[t] = 0} :
          /\ Fires(s, F)
          /\ sub' = [sub EXCEPT ![s] = Handled(sub[s], F)]
    BY <1>11 DEF Deliver
  <2>2. F \subseteq Triggers
    BY <1>1, <2>1 DEF Subscription
  <2>3. sub[s].events > 0 /\ sub[s].events \in 0..MaxBacklog
    BY <1>11 DEF Deliver
  <2>4. sub[s].events - 1 \in 0..MaxBacklog
    BY <2>3, TriggerAssumption
  <2>5. sub' \in [Subs -> Subscription]
    <3> DEFINE c == [t \in Triggers |-> IF t \in F THEN Cooldown ELSE sub[s].cool[t]]
    <3>1. c \in [Triggers -> 0..Cooldown]
      BY <1>1, <1>3 DEF Subscription
    <3>2. [sub[s] EXCEPT !.events = sub[s].events - 1, !.cool = c] \in Subscription
      BY <1>1, <2>4, <3>1, CopyChanges
    <3>3. QED
      BY <1>1, <2>1, <3>2, FreeIs DEF Handled
  <2>6. /\ firing' \subseteq Triggers \X (Subs \cup {Test})
        /\ hot' \in [Triggers -> 0..Cooldown] /\ early' \subseteq Triggers
    BY <1>3, <2>1, <2>2 DEF Fires
  <2>7. QED
    BY <1>11, <2>5, <2>6 DEF Deliver, table, Subscription
<1>12. ASSUME NEW t \in Triggers, subscribeToTestEvents(t)
       PROVE  TypeOK'
  BY <1>12 DEF subscribeToTestEvents, table
<1>13. ASSUME NEW t \in Triggers, NEW s \in Subs \cup {Test}, Published(t, s)
       PROVE  TypeOK'
  <2>1. sub' \in [Subs -> Subscription]
    <3>1. ASSUME NEW o \in Subs
          PROVE  [sub[o] EXCEPT !.cool = [sub[o].cool EXCEPT ![t] = Cooldown]] \in Subscription
      <4>1. sub[o] \in Subscription /\ sub[o].events \in 0..MaxBacklog
            /\ [sub[o].cool EXCEPT ![t] = Cooldown] \in [Triggers -> 0..Cooldown]
        BY <1>1, <1>3 DEF Subscription
      <4>2. QED
        BY <4>1, CopyChanges
    <3>2. sub' = [o \in Subs |->
                    IF o = s /\ t \in sub[o].list
                      THEN [sub[o] EXCEPT !.cool = [sub[o].cool EXCEPT ![t] = Cooldown]] ELSE sub[o]]
      BY <1>13 DEF Published
    <3>3. QED
      BY <1>1, <3>1, <3>2
  <2>2. row' \in [Triggers -> [enabled : BOOLEAN, topic : Topics, cool : 0..Cooldown]]
    BY ZenonT(30), <1>3, <1>13 DEF Published
  <2>3. QED
    BY <1>13, <2>1, <2>2 DEF Published, Subscription
<1>14. ASSUME NEW t \in Triggers, NEW s \in Subs \cup {Test}, PublishFails(t, s)
       PROVE  TypeOK'
  BY <1>4, <1>14 DEF PublishFails, table
<1>15. CASE Tick
  <2>1. row' \in [Triggers -> [enabled : BOOLEAN, topic : Topics, cool : 0..Cooldown]]
    BY <1>2, <1>15 DEF Tick
  <2>2. sub' \in [Subs -> Subscription]
    <3>1. \A s \in Subs : [t \in Triggers |-> Less(sub[s].cool[t])] \in [Triggers -> 0..Cooldown]
      BY <1>1, <1>2 DEF Subscription
    <3>2. \A s \in Subs : [sub[s] EXCEPT !.cool = [t \in Triggers |-> Less(sub[s].cool[t])]]
                            \in Subscription
      BY <1>1, <1>3, <3>1, CopyChanges
    <3>3. sub' = [s \in Subs |-> [sub[s] EXCEPT !.cool = [t \in Triggers |-> Less(sub[s].cool[t])]]]
      BY <1>15 DEF Tick
    <3>4. QED
      BY <3>2, <3>3
  <2>3. hot' \in [Triggers -> 0..Cooldown]
    <3>1. hot' = [t \in Triggers |-> Less(hot[t])]
      BY <1>15 DEF Tick, Less
    <3>2. QED
      BY <1>2, <3>1
  <2>4. QED
    BY <1>15, <2>1, <2>2, <2>3 DEF Tick, Subscription
<1>16. CASE UNCHANGED vars
  BY <1>16 DEF vars
<1>17. QED
  BY <1>5, <1>6, <1>7, <1>8, <1>9, <1>10, <1>11, <1>12, <1>13, <1>14, <1>15, <1>16 DEF Next

------------------------------------------------------------------------------
(* Subscriptions, cooldowns                                                 *)

\* What an event leaves of the subscription it fires from.
LEMMA HandledIs ==
  ASSUME NEW u \in Subscription, NEW F
  PROVE  LET v == Handled(u, F)
         IN \/ u.state = "closing" /\ v = Free
            \/ /\ u.state # "closing"
               /\ v.state = u.state /\ v.topic = u.topic /\ v.list = u.list /\ v.torn = u.torn
               /\ \A t \in Triggers : v.cool[t] = IF t \in F THEN Cooldown ELSE u.cool[t]
BY DEF Handled, Subscription

\* Every other step leaves the lists as they are, and torn down what was.
LEMMA ListsKept ==
  ASSUME IInv, [Next]_vars, ~subscribeToConfigRefresh, ~Restart
  PROVE  \A s \in Subs :
           \/ sub[s].state = "closing" /\ sub'[s] = Free
           \/ /\ sub'[s].list = sub[s].list /\ sub'[s].torn = sub[s].torn
              /\ sub'[s].topic = sub[s].topic
              /\ sub'[s].state \in {"free", "closing"} => sub'[s].state = sub[s].state
<1>1. \A s \in Subs : sub[s] \in Subscription
  BY DEF IInv, TypeOK, Subscription
<1>2. sub = [s \in Subs |-> sub[s]]
  BY DEF IInv, TypeOK
<1>3. CASE UNCHANGED sub
  BY <1>3
<1>4. ASSUME NEW s \in Subs, StreamFails(s) \/ Retry(s), NEW o \in Subs
      PROVE  /\ sub'[o].list = sub[o].list /\ sub'[o].torn = sub[o].torn
             /\ sub'[o].topic = sub[o].topic
             /\ sub'[o].state \in {"free", "closing"} => sub'[o].state = sub[o].state
  BY <1>1, <1>2, <1>4 DEF StreamFails, Retry, Subscription
<1>5. ASSUME NEW x \in Topics, Event(x), NEW o \in Subs
      PROVE  /\ sub'[o].list = sub[o].list /\ sub'[o].torn = sub[o].torn
             /\ sub'[o].topic = sub[o].topic /\ sub'[o].state = sub[o].state
  BY <1>1, <1>5 DEF Event, Subscription
<1>6. ASSUME NEW s \in Subs, Deliver(s), NEW o \in Subs
      PROVE  \/ sub[o].state = "closing" /\ sub'[o] = Free
             \/ /\ sub'[o].list = sub[o].list /\ sub'[o].torn = sub[o].torn
                /\ sub'[o].topic = sub[o].topic /\ sub'[o].state = sub[o].state
  <2>1. PICK F : sub' = [sub EXCEPT ![s] = Handled(sub[s], F)]
    BY <1>6 DEF Deliver
  <2>2. sub'[o] = IF o = s THEN Handled(sub[o], F) ELSE sub[o]
    BY <1>2, <2>1
  <2>3. QED
    BY <1>1, <2>2, HandledIs
<1>7. ASSUME NEW t \in Triggers, NEW s \in Subs \cup {Test}, Published(t, s), NEW o \in Subs
      PROVE  /\ sub'[o].list = sub[o].list /\ sub'[o].torn = sub[o].torn
             /\ sub'[o].topic = sub[o].topic /\ sub'[o].state = sub[o].state
  BY <1>1, <1>7 DEF Published, Subscription
<1>8. ASSUME Tick, NEW o \in Subs
      PROVE  /\ sub'[o].list = sub[o].list /\ sub'[o].torn = sub[o].torn
             /\ sub'[o].topic = sub[o].topic /\ sub'[o].state = sub[o].state
  BY <1>1, <1>8 DEF Tick, Subscription
<1>9. ASSUME NEW t \in Triggers, subscribeToTestEvents(t) \/ \E s \in Subs \cup {Test} : PublishFails(t, s)
      PROVE  UNCHANGED sub
  BY <1>9 DEF subscribeToTestEvents, PublishFails
<1>10. ASSUME NEW t \in Triggers, NEW e \in BOOLEAN, NEW x \in Topics, dbUpdateTrigger(t, e, x)
       PROVE  UNCHANGED sub
  BY <1>10 DEF dbUpdateTrigger
<1>11. CASE EmitRefresh \/ RefreshLost \/ UNCHANGED vars
  BY <1>11 DEF EmitRefresh, RefreshLost, vars
<1>12. QED
  BY <1>3, <1>4, <1>5, <1>6, <1>7, <1>8, <1>9, <1>10, <1>11 DEF Next

\* Every step keeps free and closing subscriptions in their place.
LEMMA PlacedStep ==
  ASSUME IInv, [Next]_vars
  PROVE  Placed'
<1>1. CASE subscribeToConfigRefresh
  BY <1>1, SetUpStep DEF IInv, subscribeToConfigRefresh, table
<1>2. CASE Restart
  BY <1>2, RestartStep DEF IInv
<1>3. CASE ~subscribeToConfigRefresh /\ ~Restart
  <2>1. ASSUME NEW s \in Subs
        PROVE  /\ sub'[s].state = "free" => sub'[s].list = {}
               /\ sub'[s].state = "closing" => sub'[s].torn
    BY <1>3, ListsKept, FreeIs DEF IInv, Placed, PlacedIn
  <2>2. QED
    BY <2>1 DEF Placed, PlacedIn
<1>4. QED
  BY <1>1, <1>2, <1>3

\* A step that neither fires nor writes a copy leaves the copies cooling as they were.
LEMMA CoolingStep ==
  ASSUME IInv, [Next]_vars
  PROVE  Cooling'
<1>1. \A s \in Subs : sub[s] \in Subscription
  BY DEF IInv, TypeOK, Subscription
<1>2. /\ sub = [s \in Subs |-> sub[s]] /\ hot \in [Triggers -> 0..Cooldown]
      /\ Cooldown \in Nat \ {0}
  BY TriggerAssumption DEF IInv, TypeOK
<1>3. ASSUME UNCHANGED <<hot, doubled>>,
             \A s \in Subs : \/ sub'[s] = Free
                             \/ /\ sub'[s].list = sub[s].list
                                /\ \A t \in sub[s].list : hot[t] <= sub[s].cool[t] => hot[t] <= sub'[s].cool[t]
      PROVE  Cooling'
  BY <1>3, FreeIs DEF IInv, Cooling
<1>4. CASE subscribeToConfigRefresh
  BY <1>4, SetUpStep DEF IInv, subscribeToConfigRefresh, table
<1>5. CASE Restart
  BY <1>5, RestartStep DEF IInv
<1>6. CASE UNCHANGED <<sub, hot, doubled>>
  BY <1>3, <1>6
<1>7. ASSUME NEW s \in Subs, StreamFails(s) \/ Retry(s)
      PROVE  Cooling'
  <2>1. \A o \in Subs : sub'[o].list = sub[o].list /\ sub'[o].cool = sub[o].cool
    <3>1. CASE StreamFails(s)
      BY <1>1, <1>2, <3>1 DEF StreamFails, Subscription
    <3>2. CASE Retry(s)
      BY <1>1, <1>2, <3>2 DEF Retry, Subscription
    <3>3. QED
      BY <1>7, <3>1, <3>2
  <2>2. QED
    BY <1>3, <1>7, <2>1 DEF StreamFails, Retry
<1>8. ASSUME NEW x \in Topics, Event(x)
      PROVE  Cooling'
  <2>1. \A o \in Subs : sub'[o].list = sub[o].list /\ sub'[o].cool = sub[o].cool
    BY <1>1, <1>8 DEF Event, Subscription
  <2>2. QED
    BY <1>3, <1>8, <2>1 DEF Event
<1>9. ASSUME NEW s \in Subs, Deliver(s)
      PROVE  Cooling'
  <2>1. PICK F \in SUBSET {t \in sub[s].list : sub[s].cool[t] = 0} :
          Fires(s, F) /\ sub' = [sub EXCEPT ![s] = Handled(sub[s], F)]
    BY <1>9 DEF Deliver
  <2>2. /\ hot' = [t \in Triggers |-> IF t \in F THEN Cooldown ELSE hot[t]] /\ doubled' = doubled
        /\ F \subseteq sub[s].list
    BY <1>9, <2>1 DEF Deliver, Fires
  <2>3. \A o \in Subs : sub'[o] = IF o = s THEN Handled(sub[o], F) ELSE sub[o]
    BY <1>2, <2>1
  <2>4. SUFFICES ASSUME NEW t \in Triggers \ doubled, NEW o \in Subs, t \in sub'[o].list
                 PROVE  /\ hot'[t] <= sub'[o].cool[t]
                        /\ \A p \in Subs : t \in sub'[p].list => p = o
    BY <2>2 DEF Cooling
  <2>5. \A p \in Subs : t \in sub'[p].list => t \in sub[p].list
    BY <1>1, <2>3, HandledIs, FreeIs
  <2>6. hot[t] <= sub[o].cool[t] /\ \A p \in Subs : t \in sub[p].list => p = o
    BY <2>4, <2>5 DEF IInv, Cooling
  <2>7. hot'[t] <= sub'[o].cool[t]
    <3>1. CASE o = s
      <4>1. sub'[s].cool[t] = IF t \in F THEN Cooldown ELSE sub[s].cool[t]
        BY <1>1, <2>3, <2>4, <3>1, HandledIs, FreeIs
      <4>2. QED
        BY <1>2, <2>2, <2>6, <3>1, <4>1
    <3>2. CASE o # s
      <4>1. t \notin F
        BY <2>2, <2>6, <3>2
      <4>2. QED
        BY <2>2, <2>3, <2>6, <3>2, <4>1
    <3>3. QED
      BY <3>1, <3>2
  <2>8. QED
    BY <2>5, <2>6, <2>7
<1>10. ASSUME NEW t \in Triggers, NEW s \in Subs \cup {Test}, Published(t, s)
       PROVE  Cooling'
  <2>1. \A o \in Subs : sub'[o] = IF o = s /\ t \in sub[o].list
                                    THEN [sub[o] EXCEPT !.cool = [sub[o].cool EXCEPT ![t] = Cooldown]]
                                    ELSE sub[o]
    BY <1>1, <1>10 DEF Published, Subscription
  <2>2. ASSUME NEW o \in Subs, NEW u \in sub[o].list, hot[u] <= sub[o].cool[u]
        PROVE  sub'[o].list = sub[o].list /\ hot[u] <= sub'[o].cool[u]
    <3>1. u \in Triggers /\ sub[o].cool \in [Triggers -> 0..Cooldown]
      BY <1>1 DEF Subscription
    <3>2. sub'[o].cool[u] \in {sub[o].cool[u], Cooldown} /\ sub'[o].list = sub[o].list
      BY ZenonT(30), <1>1, <2>1, <3>1 DEF Subscription
    <3>3. QED
      BY <1>2, <2>2, <3>1, <3>2
  <2>3. \A o \in Subs : sub'[o].list = sub[o].list
    BY <1>1, <2>1 DEF Subscription
  <2>4. QED
    BY <1>3, <1>10, <2>2, <2>3 DEF Published
<1>11. CASE Tick
  <2>1. \A o \in Subs : /\ sub'[o].list = sub[o].list
                        /\ \A t \in Triggers : sub'[o].cool[t] = Less(sub[o].cool[t])
    BY <1>1, <1>11 DEF Tick, Subscription
  <2>2. SUFFICES ASSUME NEW t \in Triggers, t \notin doubled', NEW o \in Subs, t \in sub[o].list
                 PROVE  /\ hot'[t] <= sub'[o].cool[t]
                        /\ \A p \in Subs : t \in sub[p].list => p = o
    BY <2>1 DEF Cooling
  <2>3. hot'[t] = Less(hot[t]) /\ hot[t] \in 0..Cooldown /\ sub[o].cool[t] \in 0..Cooldown
    BY <1>1, <1>2, <1>11 DEF Tick, Less, Subscription
  <2>4. CASE t \in doubled
    <3>1. ~(hot[t] > 1) /\ ~(Cardinality(Listing(t)) > 1)
      BY <1>11, <2>2, <2>4 DEF Tick
    <3>2. IsFiniteSet(Listing(t)) /\ o \in Listing(t)
      BY <2>2, FS_Subset, TriggerAssumption DEF Listing
    <3>3. ASSUME NEW p \in Subs, t \in sub[p].list, p # o
          PROVE  FALSE
      <4>1. {p, o} \subseteq Listing(t)
        BY <2>2, <3>3 DEF Listing
      <4>2. Cardinality({p, o}) <= Cardinality(Listing(t))
        BY <3>2, <4>1, FS_Subset
      <4>3. Cardinality({p, o}) = 2
        <5>1. IsFiniteSet({o}) /\ Cardinality({o}) = 1
          BY FS_Singleton
        <5>2. Cardinality({o} \cup {p}) = 2
          BY <3>3, <5>1, FS_AddElement
        <5>3. {o} \cup {p} = {p, o}
          OBVIOUS
        <5>4. QED
          BY <5>2, <5>3
      <4>4. Cardinality(Listing(t)) \in Nat
        BY <3>2, FS_CardinalityType
      <4>5. QED
        BY <3>1, <4>2, <4>3, <4>4
    <3>4. hot'[t] = 0 /\ Less(sub[o].cool[t]) >= 0
      BY <1>2, <2>3, <3>1 DEF Less
    <3>5. QED
      BY <2>1, <3>3, <3>4
  <2>5. CASE t \notin doubled
    <3>1. hot[t] <= sub[o].cool[t] /\ \A p \in Subs : t \in sub[p].list => p = o
      BY <2>2, <2>5 DEF IInv, Cooling
    <3>2. Less(hot[t]) <= Less(sub[o].cool[t])
      BY <1>2, <2>3, <3>1 DEF Less
    <3>3. QED
      BY <2>1, <2>3, <3>1, <3>2
  <2>6. QED
    BY <2>4, <2>5
<1>12. ASSUME \/ EmitRefresh \/ RefreshLost \/ UNCHANGED vars
              \/ \E t \in Triggers, e \in BOOLEAN, x \in Topics : dbUpdateTrigger(t, e, x)
              \/ \E t \in Triggers : \/ subscribeToTestEvents(t)
                                     \/ \E s \in Subs \cup {Test} : PublishFails(t, s)
       PROVE  UNCHANGED <<sub, hot, doubled>>
  BY <1>12 DEF EmitRefresh, RefreshLost, vars, dbUpdateTrigger, subscribeToTestEvents, PublishFails
<1>13. QED
  BY <1>4, <1>5, <1>6, <1>7, <1>8, <1>9, <1>10, <1>11, <1>12 DEF Next

\* Whatever fires, and was not doubled, is past its cooldown.
LEMMA NothingEarly ==
  ASSUME IInv, [Next]_vars
  PROVE  CooldownKept'
<1>1. CASE UNCHANGED early \/ early' = {}
  BY <1>1 DEF IInv, CooldownKept
<1>2. ASSUME NEW s \in Subs, Deliver(s)
      PROVE  CooldownKept'
  <2>1. PICK F \in SUBSET {t \in sub[s].list : sub[s].cool[t] = 0} : Fires(s, F)
    BY <1>2 DEF Deliver
  <2>2. ASSUME NEW t \in F \ doubled PROVE ~(hot[t] > 0)
    <3>1. t \in Triggers /\ hot[t] <= 0 /\ hot[t] \in 0..Cooldown
      BY <2>1, <2>2 DEF IInv, Cooling, TypeOK
    <3>2. QED
      BY <3>1, TriggerAssumption
  <2>3. QED
    BY <2>1, <2>2 DEF Fires, CooldownKept
<1>3. ASSUME ~\E s \in Subs : Deliver(s)
      PROVE  UNCHANGED early \/ early' = {}
  BY <1>3 DEF Next, vars, dbUpdateTrigger, EmitRefresh, RefreshLost, subscribeToConfigRefresh,
    Restart, Event, StreamFails, Retry, subscribeToTestEvents, Published, PublishFails, Tick
<1>4. QED
  BY <1>1, <1>2, <1>3

\* What was listened to is listened to until the table changes.
LEMMA ListensStep ==
  ASSUME IInv, ListensToEnabled, [Next]_vars
  PROVE  ListensToEnabled'
<1>1. CASE subscribeToConfigRefresh
  <2>1. Listening'
    BY <1>1, SetUpStep DEF IInv, subscribeToConfigRefresh, table
  <2>2. QED
    BY <2>1 DEF Listening, ListensToEnabled
<1>2. CASE Restart
  <2>1. Listening'
    BY <1>2, RestartStep DEF IInv
  <2>2. QED
    BY <2>1 DEF Listening, ListensToEnabled
<1>3. CASE \/ EmitRefresh \/ RefreshLost
           \/ \E t \in Triggers, e \in BOOLEAN, x \in Topics : dbUpdateTrigger(t, e, x)
  <2>1. unsent' \/ signal' \/ missed'
    BY <1>3 DEF EmitRefresh, RefreshLost, dbUpdateTrigger
  <2>2. QED
    BY <2>1 DEF ListensToEnabled
<1>4. ASSUME ~subscribeToConfigRefresh, ~Restart, ~EmitRefresh, ~RefreshLost,
             ~\E t \in Triggers, e \in BOOLEAN, x \in Topics : dbUpdateTrigger(t, e, x)
      PROVE  ListensToEnabled'
  <2>1. UNCHANGED <<unsent, signal, missed>>
    BY <1>4 DEF Next, vars, table, Event, Deliver, StreamFails, Retry, subscribeToTestEvents,
      Published, PublishFails, Tick
  <2>2. \A t \in Triggers : row'[t].enabled = row[t].enabled /\ row'[t].topic = row[t].topic
    <3>1. row \in [Triggers -> [enabled : BOOLEAN, topic : Topics, cool : 0..Cooldown]]
      BY DEF IInv, TypeOK
    <3>2. ASSUME NEW t \in Triggers, NEW s \in Subs \cup {Test}, Published(t, s)
          PROVE  \A u \in Triggers : row'[u].enabled = row[u].enabled /\ row'[u].topic = row[u].topic
      BY <3>1, <3>2 DEF Published
    <3>3. CASE Tick
      BY <3>1, <3>3 DEF Tick
    <3>4. CASE UNCHANGED row
      BY <3>4
    <3>5. QED
      BY <1>4, <3>2, <3>3, <3>4 DEF Next, vars, table, Event, Deliver, StreamFails, Retry,
        subscribeToTestEvents, PublishFails
  <2>3. ASSUME NEW s \in Subs
        PROVE  \/ /\ sub'[s].list = sub[s].list /\ sub'[s].torn = sub[s].torn
                  /\ sub'[s].topic = sub[s].topic
               \/ /\ sub[s].torn \/ sub[s].list = {}
                  /\ sub'[s].list = {}
    BY <1>4, ListsKept, FreeIs DEF IInv, Placed, PlacedIn
  <2>4. SUFFICES ASSUME ~(unsent \/ signal \/ missed), NEW t \in Triggers
                 PROVE  LET current == {s \in Subs : t \in sub'[s].list /\ ~sub'[s].torn}
                        IN IF row'[t].enabled
                             THEN \E s \in current : current = {s} /\ sub'[s].topic = row'[t].topic
                             ELSE current = {}
    BY <2>1 DEF ListensToEnabled, Listing
  <2>5. {s \in Subs : t \in sub'[s].list /\ ~sub'[s].torn}
          = {s \in Listing(t) : ~sub[s].torn}
    BY <2>3 DEF Listing
  <2>6. \A s \in Listing(t) : ~sub[s].torn => sub'[s].topic = sub[s].topic
    BY <2>3 DEF Listing
  <2>7. QED
    BY <2>2, <2>4, <2>5, <2>6 DEF ListensToEnabled
<1>5. QED
  BY <1>1, <1>2, <1>3, <1>4

------------------------------------------------------------------------------
(* Theorems about TriggerRunner                                             *)

\* The strengthened invariant holds in every reachable state.
LEMMA AlwaysIInv == Spec => []IInv
<1>1. Init => IInv
  BY InitHolds
<1>2. IInv /\ [Next]_vars => IInv'
  BY TypedStep, PlacedStep, CoolingStep, NothingEarly DEF IInv
<1>3. QED
  BY <1>1, <1>2, PTL DEF Spec

\* The table and the subscriptions hold what they are declared to hold.
THEOREM TypeCorrect == Spec => []TypeOK
<1>1. IInv => TypeOK
  BY DEF IInv
<1>2. QED
  BY <1>1, AlwaysIInv, PTL

\* Whatever is edited, fails or restarts, the runner listens to what is enabled once
\* it was told of the last change, and to nothing else but what was torn down.
THEOREM Listens == Spec => []ListensToEnabled
<1>1. Init => ListensToEnabled
  BY InitHolds
<1>2. IInv /\ ListensToEnabled /\ [Next]_vars => ListensToEnabled'
  BY ListensStep
<1>3. QED
  BY <1>1, <1>2, AlwaysIInv, PTL DEF Spec

\* No event fires a trigger in its cooldown, unless its copies were doubled.
THEOREM Cools == Spec => []CooldownKept
<1>1. IInv => CooldownKept
  BY DEF IInv
<1>2. QED
  BY <1>1, AlwaysIInv, PTL

------------------------------------------------------------------------------
(***************************************************************************)
(* CronRunner                                                              *)
(***************************************************************************)

\* The rows, what is read of them, and the executions, at any time
RowOf == [schedule : Schedules, enabled : BOOLEAN, next : Nat \cup {Never}]
SnapshotOf == [job : Jobs, schedule : Schedules, next : Nat \cup {Never}]
Executing == [at : {"publishing", "answered", "refused"}, of : SnapshotOf, started : Nat]

Tables == [Jobs -> RowOf \cup {NotYet, Gone}]

\* CronTypeOK without the bounds on times
CronTyped ==
  /\ now \in 0 .. Horizon
  /\ rows \in Tables
  /\ leader \in Daemons \cup {Nobody} /\ timer \in Nat \cup {Never}
  /\ todo \in [Daemons -> SUBSET SnapshotOf]
  /\ exec \in [Daemons -> [Lanes -> {Idle} \cup Executing]]
  /\ edited \in BOOLEAN /\ wanted \subseteq Jobs
  /\ used \in [mishaps : 0 .. MaxMishaps, commands : 0 .. MaxCommands]
  /\ fired \in [Jobs -> Nat \cup {Never}]
  /\ again \subseteq Jobs /\ overwritten \subseteq Jobs /\ unheard \in BOOLEAN

\* The longest interval, and the commands that have not yet come to a run
Longest == Max({s.n : s \in Schedules})
Manual == {d \in Daemons : exec[d]["manual"] # Idle}
Slack == used.commands - Cardinality(wanted) - Cardinality(Manual)

\* No manual run without a command.  The timer moves a run on when it is due, and a
\* manual run moves it on before, by an interval at most: a run time is no further
\* away than one interval for now and one for each command that was used up (Reach).
Counted == IsFiniteSet(wanted) /\ IsFiniteSet(Manual) /\ Slack >= 0

\* what a run time n of the schedule s can be at the time t
Fits(s, n, t) ==
  /\ s.type = "at" => n = s.n \/ (n = Never /\ s.n <= t)
  /\ s.type = "cron" => n # Never /\ n % s.n = 0 /\ n <= calculateNextRun(s, t)
  /\ s.type = "every" => n # Never

------------------------------------------------------------------------------
(* Numbers                                                                  *)

\* A set of naturals has a least element.
LEMMA LeastOfNaturals ==
  ASSUME NEW S \in SUBSET Nat, S # {}
  PROVE  Min(S) \in S /\ \A x \in S : Min(S) <= x
<1> DEFINE R == {ss \in Nat \X Nat : ss[1] < ss[2]}
<1>1. IsWellFoundedOn(R, Nat)
  BY NatLessThanWellFounded, Zenon DEF OpToRel
<1>2. PICK x \in S : \A y \in S : <<y, x>> \notin R
  <2> HIDE DEF R
  <2>1. QED
    BY <1>1, WFMin, Zenon
<1>3. ASSUME NEW y \in S
      PROVE  x <= y
  <2>1. y < x => <<y, x>> \in R
    OBVIOUS
  <2>2. QED
    BY <1>2, <2>1
<1>4. QED
  BY <1>3 DEF Min

\* A finite set of naturals has a greatest element.
LEMMA GreatestOfNaturals ==
  ASSUME NEW S \in SUBSET Nat, S # {}, IsFiniteSet(S)
  PROVE  Max(S) \in S /\ \A x \in S : x <= Max(S)
<1> DEFINE Above(x) == {y \in S : y > x}
           T == {Above(x) : x \in S}
           R == StrictSubsetOrdering(S)
<1>1. IsWellFoundedOn(R, SUBSET S)
  BY FS_FiniteSubsetsOfFinite, FS_StrictSubsetOrderingWellFounded
<1>2. T \subseteq SUBSET S /\ T # {}
  OBVIOUS
<1>3. PICK t \in T : \A u \in T : <<u, t>> \notin R
  <2> HIDE DEF T, R
  <2>1. QED
    BY <1>1, <1>2, WFMin, Zenon
<1>4. PICK x \in S : t = Above(x)
  BY <1>3
<1>5. ASSUME NEW y \in S, y > x
      PROVE  FALSE
  <2>1. y \in t /\ y \notin Above(y)
    BY <1>4, <1>5
  <2>2. ASSUME NEW z \in Above(y)
        PROVE  z \in Above(x)
    <3>1. x \in Nat /\ y \in Nat /\ z \in Nat /\ z \in S /\ z > y
      OBVIOUS
    <3>2. QED
      BY <1>5, <3>1
  <2>3. Above(y) \in T
    OBVIOUS
  <2>4. Above(y) \subseteq t /\ Above(y) # t
    <3> HIDE DEF Above
    <3>1. QED
      BY <1>4, <2>1, <2>2
  <2>5. <<Above(y), t>> \in R
    <3> HIDE DEF Above, T
    <3>1. QED
      BY <1>2, <1>3, <2>3, <2>4 DEF StrictSubsetOrdering
  <2>6. QED
    BY <1>3, <2>3, <2>5
<1>6. \A y \in S : x >= y
  BY <1>5
<1>7. QED
  BY <1>6 DEF Max

\* No interval is longer than the longest of them.
LEMMA LongestIs ==
  /\ Schedules # {} => Longest \in Nat /\ Longest >= 1
  /\ \A s \in Schedules : s.n <= Longest
<1> DEFINE T == {s.n : s \in Schedules}
<1>1. T \subseteq Nat /\ \A x \in T : x >= 1
  BY CronAssumption
<1>2. IsFiniteSet(T)
  <2> DEFINE f == [s \in Schedules |-> s.n]
  <2>1. f \in Surjection(Schedules, T)
    BY DEF Surjection
  <2>2. QED
    BY <2>1, CronAssumption, FS_Surjection
<1>3. CASE Schedules = {}
  BY <1>3
<1>4. CASE Schedules # {}
  <2>1. T # {}
    BY <1>4
  <2>2. Longest \in T /\ \A x \in T : x <= Longest
    BY <1>1, <1>2, <2>1, GreatestOfNaturals DEF Longest
  <2>3. QED
    BY <1>1, <2>2
<1>5. QED
  BY <1>3, <1>4

\* the distributive facts
LEMMA MoreIsMore ==
  ASSUME NEW n \in Nat, NEW a \in Nat, NEW b \in Nat, a <= b
  PROVE  n * (1 + a) \in Nat /\ n * (1 + a) <= n * (1 + b)
BY SMT

\* One more command that may be given reaches one interval further.
LEMMA OneMore ==
  ASSUME NEW n \in Nat, NEW a \in Nat
  PROVE  n * (1 + (a + 1)) = n * (1 + a) + n /\ n <= n * (1 + a)
BY SMT

\* The next run of a cron schedule is later, and by an interval at most.
LEMMA NextMultiple ==
  ASSUME NEW n \in Nat \ {0}, NEW from \in Nat
  PROVE  LET m == (from \div n + 1) * n
         IN m \in Nat /\ m > from /\ m <= from + n
BY SMT

\* It is a time of the schedule.
LEMMA IsMultiple ==
  ASSUME NEW n \in Nat \ {0}, NEW from \in Nat
  PROVE  ((from \div n + 1) * n) % n = 0
BY SMT

\* A later start gives no earlier run.
LEMMA LaterMultiple ==
  ASSUME NEW n \in Nat \ {0}, NEW a \in Nat, NEW b \in Nat, a <= b
  PROVE  (a \div n + 1) * n <= (b \div n + 1) * n
BY SMT

\* The later of two times.
LEMMA MaxOfTwo ==
  ASSUME NEW a \in Int, NEW b \in Int
  PROVE  Max({a, b}) = IF a >= b THEN a ELSE b
<1>1. CASE a >= b
  <2>1. \A x \in {a, b} : (\A y \in {a, b} : x >= y) <=> x = a
    BY <1>1
  <2>2. QED
    BY <1>1, <2>1 DEF Max
<1>2. CASE ~(a >= b)
  <2>1. \A x \in {a, b} : (\A y \in {a, b} : x >= y) <=> x = b
    BY <1>2
  <2>2. QED
    BY <1>2, <2>1 DEF Max
<1>3. QED
  BY <1>1, <1>2

------------------------------------------------------------------------------
(* Schedules                                                                *)

\* What calculateNextRun returns: later than its start, near, and fitting from then on.
LEMMA NextRunIs ==
  ASSUME NEW s \in Schedules, NEW from \in Nat
  PROVE  LET n == calculateNextRun(s, from)
         IN /\ n # Never => n \in Nat /\ n > from /\ n <= from + Longest
            /\ s.type = "every" => n = from + s.n
            /\ \A t \in Nat : t >= from => Fits(s, n, t)
<1> DEFINE n == calculateNextRun(s, from)
<1>1. s.n \in Nat \ {0} /\ s.type \in {"at", "every", "cron"} /\ Never \notin Nat
  BY CronAssumption
<1>2. Longest \in Nat /\ s.n <= Longest
  BY LongestIs
<1>3. CASE s.type = "every"
  BY <1>1, <1>2, <1>3 DEF calculateNextRun, Fits
<1>4. CASE s.type = "at"
  <2>1. n = IF s.n > from THEN s.n ELSE Never
    BY <1>4 DEF calculateNextRun
  <2>2. n # Never => n \in Nat /\ n > from /\ n <= from + Longest
    BY <1>1, <1>2, <2>1
  <2>3. \A t \in Nat : t >= from => Fits(s, n, t)
    BY <1>1, <1>4, <2>1 DEF Fits
  <2>4. QED
    BY <1>4, <2>2, <2>3
<1>5. CASE s.type = "cron"
  <2>1. n = (from \div s.n + 1) * s.n
    BY <1>5 DEF calculateNextRun
  <2>2. n \in Nat /\ n > from /\ n <= from + s.n
    BY <1>1, <2>1, NextMultiple
  <2>3. ASSUME NEW t \in Nat, t >= from
        PROVE  Fits(s, n, t)
    <3>1. calculateNextRun(s, t) = (t \div s.n + 1) * s.n
      BY <1>5 DEF calculateNextRun
    <3>2. n <= calculateNextRun(s, t)
      BY <1>1, <2>1, <2>3, <3>1, LaterMultiple
    <3>3. n % s.n = 0
      BY <1>1, <2>1, IsMultiple
    <3>4. QED
      BY <1>1, <1>5, <2>2, <3>2, <3>3 DEF Fits
  <2>4. QED
    BY <1>1, <1>2, <1>5, <2>2, <2>3
<1>6. QED
  BY <1>1, <1>3, <1>4, <1>5

\* A run time that fits a schedule fits it later.
LEMMA FitsLater ==
  ASSUME NEW s \in Schedules, NEW n \in Nat \cup {Never}, NEW t \in Nat, NEW u \in Nat, t <= u,
         Fits(s, n, t)
  PROVE  Fits(s, n, u)
<1>1. s.n \in Nat \ {0} /\ s.type \in {"at", "every", "cron"} /\ Never \notin Nat
  BY CronAssumption
<1>2. CASE s.type = "cron"
  <2>1. /\ calculateNextRun(s, t) = (t \div s.n + 1) * s.n
        /\ calculateNextRun(s, u) = (u \div s.n + 1) * s.n
    BY <1>2 DEF calculateNextRun
  <2>2. calculateNextRun(s, t) <= calculateNextRun(s, u)
    BY <1>1, <2>1, LaterMultiple
  <2>3. calculateNextRun(s, t) \in Nat /\ calculateNextRun(s, u) \in Nat
    BY <1>1, <2>1, NextMultiple
  <2>4. n \in Nat /\ n <= calculateNextRun(s, t) /\ n % s.n = 0
    BY <1>2 DEF Fits
  <2>5. n <= calculateNextRun(s, u)
    BY <2>2, <2>3, <2>4
  <2>6. QED
    BY <1>1, <1>2, <2>4, <2>5 DEF Fits
<1>3. CASE s.type # "cron"
  BY <1>1, <1>3 DEF Fits
<1>4. QED
  BY <1>2, <1>3

\* the next run after the execution x
After(x) == calculateNextRun(x.of.schedule, BaseTime(x))

\* What an execution holds.
LEMMA ExecutingIs ==
  ASSUME NEW x \in Executing
  PROVE  /\ x.of \in SnapshotOf /\ x.of.job \in Jobs /\ x.of.schedule \in Schedules
         /\ x.of.next \in Nat \cup {Never} /\ x.started \in Nat
         /\ x.at \in {"publishing", "answered", "refused"} /\ x # Idle
BY DEF Executing, SnapshotOf, Idle

\* The next run is after the one that was due, and not before one that was planned.
LEMMA AfterIs ==
  ASSUME NEW x \in Executing
  PROVE  /\ After(x) \in Nat \cup {Never}
         /\ After(x) # Never => \/ After(x) <= x.started + Longest
                                \/ x.of.next # Never /\ After(x) <= x.of.next + Longest
         /\ x.of.schedule.type = "every" /\ x.of.next # Never => After(x) = x.of.next + x.of.schedule.n
         /\ \A t \in Nat : x.started <= t => Fits(x.of.schedule, After(x), t)
         /\ x.of.next # Never /\ x.of.next <= x.started /\ After(x) # Never => x.of.next < After(x)
         /\ Fits(x.of.schedule, x.of.next, x.started) /\ After(x) # Never =>
              x.of.next # Never /\ x.of.next <= After(x)
<1> DEFINE s == x.of.schedule
           n == x.of.next
           from == BaseTime(x)
<1>1. /\ s \in Schedules /\ n \in Nat \cup {Never} /\ x.started \in Nat /\ Never \notin Nat
      /\ s.n \in Nat \ {0} /\ s.type \in {"at", "every", "cron"}
  BY ExecutingIs, CronAssumption
<1>2. from \in Nat
  BY <1>1 DEF BaseTime
<1>3. /\ After(x) # Never => After(x) \in Nat /\ After(x) > from /\ After(x) <= from + Longest
      /\ s.type = "every" => After(x) = from + s.n
      /\ \A t \in Nat : t >= from => Fits(s, After(x), t)
  <2> HIDE DEF s, from
  <2>1. QED
    BY <1>1, <1>2, NextRunIs DEF After, s, from
<1>4. Longest \in Nat /\ s.n <= Longest
  BY <1>1, LongestIs
<1>5. After(x) \in Nat \cup {Never}
  BY <1>3
<1>6. CASE s.type = "every" /\ n # Never
  <2>1. from = n
    BY <1>6 DEF BaseTime
  <2>2. After(x) = n + s.n /\ After(x) \in Nat /\ After(x) # Never
    BY <1>1, <1>3, <1>6, <2>1
  <2>3. \A t \in Nat : Fits(s, After(x), t)
    BY <1>6, <2>2 DEF Fits
  <2>4. QED
    BY <1>1, <1>3, <1>4, <1>6, <2>1, <2>2, <2>3
<1>7. CASE ~(s.type = "every" /\ n # Never)
  <2>1. from = x.started
    BY <1>7 DEF BaseTime
  <2>2. ASSUME Fits(s, n, x.started), After(x) # Never
        PROVE  n # Never /\ n <= After(x)
    <3>1. CASE s.type = "at"
      <4>1. After(x) = IF s.n > x.started THEN s.n ELSE Never
        BY <2>1, <3>1 DEF After, calculateNextRun
      <4>2. QED
        BY <1>1, <2>2, <3>1, <4>1 DEF Fits
    <3>2. CASE s.type = "cron"
      <4>1. After(x) = calculateNextRun(s, x.started)
        BY <2>1 DEF After
      <4>2. QED
        BY <2>2, <3>2, <4>1 DEF Fits
    <3>3. CASE s.type = "every"
      BY <1>7, <2>2, <3>3 DEF Fits
    <3>4. QED
      BY <1>1, <3>1, <3>2, <3>3
  <2>3. n # Never /\ n <= x.started /\ After(x) # Never => n < After(x)
    BY <1>1, <1>3, <2>1
  <2>4. QED
    BY <1>1, <1>3, <1>5, <1>7, <2>1, <2>2, <2>3
<1>8. QED
  BY <1>6, <1>7

\* what a handler leaves of the row of the job it has executed
LEMMA SettledIs ==
  ASSUME CronTyped, NEW x \in Executing
  PROVE  LET j == x.of.job
         IN /\ Settled(x) \in RowOf \cup {NotYet, Gone}
            /\ \/ ~Present(j) /\ Settled(x) = rows[j]
               \/ Present(j) /\ Settled(x) = Gone
               \/ Present(j) /\ Settled(x) = [rows[j] EXCEPT !.next = After(x)]
<1> DEFINE j == x.of.job
<1>1. j \in Jobs /\ rows[j] \in RowOf \cup {NotYet, Gone}
  BY ExecutingIs DEF CronTyped, Tables
<1>2. After(x) \in Nat \cup {Never}
  BY AfterIs
<1>3. Present(j) => rows[j] \in RowOf /\ [rows[j] EXCEPT !.next = After(x)] \in RowOf
  BY <1>1, <1>2 DEF Present, RowOf
<1>4. QED
  BY <1>1, <1>3 DEF Settled, After

------------------------------------------------------------------------------
(* The timer, and the loop over the due jobs                                *)

\* The timer is set for the first of the scheduled jobs, or for before.
LEMMA NextDueIs ==
  ASSUME NEW r \in Tables, now \in Nat
  PROVE  LET There(j) == r[j] \notin {NotYet, Gone} /\ r[j].enabled /\ r[j].next # Never
         IN /\ NextDue(r) \in Nat \cup {Never}
            /\ NextDue(r) # Never => \E j \in Jobs : There(j) /\ NextDue(r) <= Max({now, r[j].next})
            /\ \A j \in Jobs : There(j) => NextDue(r) # Never /\ NextDue(r) <= Max({now, r[j].next})
<1> DEFINE There(j) == r[j] \notin {NotYet, Gone} /\ r[j].enabled /\ r[j].next # Never
           nexts == {r[j].next : j \in {k \in Jobs : r[k] \notin {NotYet, Gone} /\ r[k].enabled}} \ {Never}
           delay == Max({0, Min(nexts) - now})
<1>1. NextDue(r) = IF nexts = {} THEN Never ELSE SetTimeout(delay)
  BY DEF NextDue
<1>2. \A n : n \in nexts <=> \E j \in Jobs : There(j) /\ n = r[j].next
  OBVIOUS
<1>3. \A j \in Jobs : There(j) => r[j].next \in Nat
  BY DEF Tables, RowOf
<1>4. nexts \subseteq Nat
  BY <1>2, <1>3
<1>5. CASE nexts = {}
  <2>1. NextDue(r) = Never
    BY <1>1, <1>5
  <2>2. \A j \in Jobs : ~There(j)
    BY <1>2, <1>5
  <2>3. QED
    BY <2>1, <2>2
<1>6. CASE nexts # {}
  <2> HIDE DEF nexts
  <2>1. Min(nexts) \in nexts /\ Min(nexts) \in Nat /\ \A n \in nexts : Min(nexts) <= n
    BY <1>4, <1>6, LeastOfNaturals
  <2>2. delay = IF 0 >= Min(nexts) - now THEN 0 ELSE Min(nexts) - now
    BY <2>1, MaxOfTwo
  <2> HIDE DEF delay
  <2>3. SetTimeout(delay) \in Nat /\ SetTimeout(delay) <= IF now >= Min(nexts) THEN now ELSE Min(nexts)
    BY <2>1, <2>2, CronAssumption DEF SetTimeout
  <2>4. NextDue(r) = SetTimeout(delay) /\ NextDue(r) \in Nat /\ NextDue(r) # Never
    BY <1>1, <1>6, <2>3, CronAssumption
  <2>5. ASSUME NEW j \in Jobs, There(j)
        PROVE  NextDue(r) <= Max({now, r[j].next})
    <3>1. r[j].next \in nexts /\ r[j].next \in Nat
      BY <1>2, <1>3, <2>5
    <3>2. Min(nexts) <= r[j].next
      BY <2>1, <3>1
    <3>3. Max({now, r[j].next}) = IF now >= r[j].next THEN now ELSE r[j].next
      BY <3>1, MaxOfTwo
    <3>4. QED
      BY <2>1, <2>3, <2>4, <3>1, <3>2, <3>3
  <2>6. \E j \in Jobs : There(j)
    BY <1>2, <1>6
  <2>7. QED
    BY <2>4, <2>5, <2>6
<1>7. QED
  BY <1>5, <1>6

\* The loop of runDueJobs goes on with a job, or ends.
GoesOn(d, rest) ==
  /\ leader = d
  /\ \E s \in rest :
       /\ todo' = [todo EXCEPT ![d] = rest \ {s}]
       /\ exec' = [exec EXCEPT ![d]["timer"] = [at |-> "publishing", of |-> s, started |-> now]]
  /\ UNCHANGED <<timer, unheard>>

Finishes(d, r) ==
  /\ todo' = [todo EXCEPT ![d] = {}]
  /\ exec' = [exec EXCEPT ![d]["timer"] = Idle]
  /\ IF leader = d THEN ArmTimer(r) ELSE UNCHANGED <<timer, unheard>>

\* The loop over the due jobs goes on with the next or finishes.
LEMMA LoopsIs ==
  ASSUME NEW d, NEW rest, NEW r, Loops(d, rest, r)
  PROVE  GoesOn(d, rest) \/ Finishes(d, r)
BY DEF Loops, GoesOn, Finishes

------------------------------------------------------------------------------
(* Types                                                                    *)

\* The actions, as the proofs take them one by one
LEMMA CronActions ==
  ASSUME CronTyped, CronNext
  PROVE  \/ TimePasses \/ Stop \/ Crash \/ RefreshTimers \/ RefreshMissed
         \/ \E j \in Jobs, s \in Schedules : dbCreateCronJob(j, s)
         \/ \E j \in Jobs, s \in Schedules, e \in BOOLEAN : dbUpdateCronJob(j, s, e)
         \/ \E j \in Jobs : Disable(j) \/ dbDeleteCronJob(j) \/ RunNow(j)
         \/ \E d \in Daemons : Start(d) \/ RunDueJobs(d)
         \/ \E d \in Daemons, l \in Lanes, stored \in BOOLEAN, answer \in {"answered", "refused"} :
              Publish(d, l, stored, answer)
         \/ \E d \in Daemons, l \in Lanes : Settle(d, l)
         \/ \E d \in Daemons, j \in Jobs : TriggerJob(d, j)
<1>1. ASSUME NEW j \in Jobs, Present(j)
      PROVE  rows[j].schedule \in Schedules /\ rows[j].enabled \in BOOLEAN
  BY <1>1 DEF CronTyped, Tables, RowOf, Present
<1>2. ASSUME NEW j \in Jobs, Edits(j)
      PROVE  \/ \E s \in Schedules : dbCreateCronJob(j, s)
             \/ \E s \in Schedules, e \in BOOLEAN : dbUpdateCronJob(j, s, e)
             \/ Disable(j) \/ dbDeleteCronJob(j) \/ RunNow(j)
  BY <1>1, <1>2, Zenon DEF Edits
<1>3. QED
  BY <1>2, Zenon DEF CronNext, Executes

\* What is known of a job that is there, and what a reader takes of it.
LEMMA RowIs ==
  ASSUME CronTyped, NEW j \in Jobs, Present(j)
  PROVE  /\ rows[j] \in RowOf /\ rows[j].schedule \in Schedules /\ rows[j].enabled \in BOOLEAN
         /\ rows[j].next \in Nat \cup {Never} /\ Read(j) \in SnapshotOf
         /\ Read(j).job = j /\ Read(j).schedule = rows[j].schedule /\ Read(j).next = rows[j].next
BY DEF CronTyped, Tables, RowOf, Present, Read, SnapshotOf

\* The jobs that are due are scheduled, and their time has come.
LEMMA DueJobsAre ==
  ASSUME CronTyped
  PROVE  /\ dbGetDueJobs \subseteq SnapshotOf
         /\ \A s \in dbGetDueJobs : /\ s.job \in Jobs /\ Scheduled(s.job) /\ s = Read(s.job)
                                    /\ s.next # Never /\ s.next <= now
<1>1. ASSUME NEW s \in dbGetDueJobs
      PROVE  /\ s \in SnapshotOf /\ s.job \in Jobs /\ Scheduled(s.job) /\ s = Read(s.job)
             /\ s.next # Never /\ s.next <= now
  <2>1. PICK j \in Jobs : s = Read(j) /\ Scheduled(j) /\ rows[j].next <= now
    BY DEF dbGetDueJobs
  <2>2. QED
    BY <2>1, RowIs DEF Scheduled
<1>2. QED
  BY <1>1

\* The loop over the due jobs keeps the types.
LEMMA LoopsTyped ==
  ASSUME CronTyped, NEW d \in Daemons, NEW rest \in SUBSET SnapshotOf, NEW r \in Tables,
         Loops(d, rest, r)
  PROVE  /\ todo' \in [Daemons -> SUBSET SnapshotOf]
         /\ exec' \in [Daemons -> [Lanes -> {Idle} \cup Executing]]
         /\ timer' \in Nat \cup {Never} /\ unheard' \in BOOLEAN
<1>1. now \in Nat
  BY DEF CronTyped
<1>2. CASE GoesOn(d, rest)
  <2>1. PICK s \in rest :
          /\ todo' = [todo EXCEPT ![d] = rest \ {s}]
          /\ exec' = [exec EXCEPT ![d]["timer"] = [at |-> "publishing", of |-> s, started |-> now]]
    BY <1>2 DEF GoesOn
  <2>2. [at |-> "publishing", of |-> s, started |-> now] \in Executing
    BY <1>1 DEF Executing
  <2>3. exec' \in [Daemons -> [Lanes -> {Idle} \cup Executing]]
    BY <2>1, <2>2 DEF CronTyped
  <2>4. QED
    BY <1>2, <2>1, <2>3 DEF CronTyped, GoesOn
<1>3. CASE Finishes(d, r)
  <2>1. exec' \in [Daemons -> [Lanes -> {Idle} \cup Executing]]
    BY <1>3 DEF CronTyped, Finishes
  <2>2. timer' \in Nat \cup {Never} /\ unheard' \in BOOLEAN
    BY <1>1, <1>3, NextDueIs DEF CronTyped, Finishes, ArmTimer
  <2>3. QED
    BY <1>3, <2>1, <2>2 DEF CronTyped, Finishes
<1>4. QED
  BY <1>2, <1>3, LoopsIs

\* A lane that is not idle has an execution of a job.
LEMMA LaneIs ==
  ASSUME CronTyped, NEW d \in Daemons, NEW l \in Lanes, exec[d][l] # Idle
  PROVE  exec[d][l] \in Executing /\ exec[d][l].of.job \in Jobs
BY ExecutingIs DEF CronTyped

\* A lane that waits for an answer is not idle.
LEMMA BusyIs ==
  ASSUME NEW d, NEW l, exec[d][l].at \in {"publishing", "answered", "refused"}
  PROVE  exec[d][l] # Idle
BY DEF Idle

\* the history, which Ends and Settle add to
LEMMA EndsTyped ==
  ASSUME CronTyped, leader # Nobody, Ends
  PROVE  again' \in SUBSET Jobs
<1>1. leader \in Daemons
  BY DEF CronTyped
<1>2. {exec[leader][l].of.job : l \in {k \in Lanes : exec[leader][k] # Idle}} \subseteq Jobs
  BY <1>1, LaneIs
<1>3. QED
  BY <1>2 DEF Ends, CronTyped

\* An execution that writes its outcome writes one row.
LEMMA SettleTyped ==
  ASSUME CronTyped, NEW d \in Daemons, NEW l \in Lanes, Settle(d, l)
  PROVE  /\ exec[d][l] \in Executing /\ exec[d][l].of.job \in Jobs
         /\ rows' = [rows EXCEPT ![exec[d][l].of.job] = Settled(exec[d][l])] /\ rows' \in Tables
         /\ Overwritten(exec[d][l]) \subseteq Jobs
<1>1. exec[d][l] \in Executing /\ exec[d][l].of.job \in Jobs
  BY BusyIs, LaneIs DEF Settle
<1>2. rows' = [rows EXCEPT ![exec[d][l].of.job] = Settled(exec[d][l])]
  BY DEF Settle
<1>3. rows' \in Tables
  BY <1>1, <1>2, SettledIs DEF CronTyped, Tables
<1>4. QED
  BY <1>1, <1>2, <1>3 DEF Overwritten

\* What was used of the bounds stays within them.
LEMMA UsedTyped ==
  ASSUME CronTyped, Mishap \/ Command
  PROVE  used' \in [mishaps : 0 .. MaxMishaps, commands : 0 .. MaxCommands]
BY CronAssumption DEF CronTyped, Mishap, Command

\* The runner starts with its types.
LEMMA CronTypedInit == CronInit => CronTyped
<1> SUFFICES ASSUME CronInit
             PROVE  CronTyped
  OBVIOUS
<1>1. now \in 0 .. Horizon /\ used \in [mishaps : 0 .. MaxMishaps, commands : 0 .. MaxCommands]
  BY CronAssumption DEF CronInit
<1>2. rows \in Tables /\ fired \in [Jobs -> Nat \cup {Never}]
  BY DEF CronInit, Tables
<1>3. /\ todo \in [Daemons -> SUBSET SnapshotOf]
      /\ exec \in [Daemons -> [Lanes -> {Idle} \cup Executing]]
  BY DEF CronInit
<1>4. QED
  BY <1>1, <1>2, <1>3 DEF CronInit, CronTyped

\* Every step of the runner keeps them.
LEMMA CronTypedStep ==
  ASSUME CronTyped, CronNext
  PROVE  CronTyped'
<1> USE DEF processes, messages, history
<1>1. CASE TimePasses
  BY <1>1, CronAssumption DEF TimePasses, CronTyped
<1>2. CASE Stop
  <2>1. again' \in SUBSET Jobs
    BY <1>2, EndsTyped DEF Stop
  <2>2. QED
    BY <1>2, <2>1, UsedTyped DEF Stop, Ends, CronTyped
<1>3. CASE Crash
  <2>1. again' \in SUBSET Jobs /\ leader \in Daemons
    BY <1>3, EndsTyped DEF Crash, CronTyped
  <2>2. exec' \in [Daemons -> [Lanes -> {Idle} \cup Executing]]
    BY <1>3, <2>1 DEF Crash, CronTyped
  <2>3. todo' \in [Daemons -> SUBSET SnapshotOf]
    BY <1>3, <2>1 DEF Crash, CronTyped
  <2>4. QED
    BY <1>3, <2>1, <2>2, <2>3, UsedTyped DEF Crash, Ends, CronTyped
<1>4. CASE RefreshTimers
  <2>1. timer' \in Nat \cup {Never} /\ unheard' = FALSE
    BY <1>4, NextDueIs DEF RefreshTimers, ArmTimer, CronTyped
  <2>2. QED
    BY <1>4, <2>1 DEF RefreshTimers, CronTyped
<1>5. CASE RefreshMissed
  BY <1>5, UsedTyped DEF RefreshMissed, CronTyped
<1>6. ASSUME NEW j \in Jobs, NEW s \in Schedules, dbCreateCronJob(j, s)
      PROVE  CronTyped'
  <2>1. calculateNextRun(s, now) \in Nat \cup {Never}
    BY NextRunIs DEF CronTyped
  <2>2. rows' \in Tables
    BY <1>6, <2>1 DEF dbCreateCronJob, Writes, CronTyped, Tables, RowOf
  <2>3. QED
    BY <1>6, <2>2 DEF dbCreateCronJob, Writes, CronTyped
<1>7. ASSUME NEW j \in Jobs, NEW s \in Schedules, NEW e \in BOOLEAN, dbUpdateCronJob(j, s, e)
      PROVE  CronTyped'
  <2>1. calculateNextRun(s, now) \in Nat \cup {Never}
    BY NextRunIs DEF CronTyped
  <2>2. rows' \in Tables
    BY <1>7, <2>1 DEF dbUpdateCronJob, Writes, CronTyped, Tables, RowOf
  <2>3. QED
    BY <1>7, <2>2, UsedTyped DEF dbUpdateCronJob, Writes, CronTyped
<1>8. ASSUME NEW j \in Jobs, Disable(j)
      PROVE  CronTyped'
  <2>1. [rows[j] EXCEPT !.enabled = FALSE] \in RowOf
    <3>1. rows[j] \in RowOf
      BY <1>8, RowIs DEF Disable
    <3>2. QED
      BY <3>1 DEF RowOf
  <2>2. rows' \in Tables
    BY <1>8, <2>1 DEF Disable, Writes, CronTyped, Tables
  <2>3. QED
    BY <1>8, <2>2, UsedTyped DEF Disable, Writes, CronTyped
<1>9. ASSUME NEW j \in Jobs, dbDeleteCronJob(j)
      PROVE  CronTyped'
  <2>1. rows' \in Tables
    BY <1>9 DEF dbDeleteCronJob, Writes, CronTyped, Tables
  <2>2. QED
    BY <1>9, <2>1, UsedTyped DEF dbDeleteCronJob, Writes, CronTyped
<1>10. ASSUME NEW j \in Jobs, RunNow(j)
       PROVE  CronTyped'
  BY <1>10, UsedTyped DEF RunNow, CronTyped
<1>11. ASSUME NEW d \in Daemons, Start(d)
       PROVE  CronTyped'
  <2>1. timer' \in Nat \cup {Never} /\ unheard' = FALSE
    BY <1>11, NextDueIs DEF Start, ArmTimer, CronTyped
  <2>2. QED
    BY <1>11, <2>1 DEF Start, CronTyped
<1>12. ASSUME NEW d \in Daemons, RunDueJobs(d)
       PROVE  CronTyped'
  <2>1. CASE Loops(d, dbGetDueJobs, rows)
    <3>1. /\ todo' \in [Daemons -> SUBSET SnapshotOf]
          /\ exec' \in [Daemons -> [Lanes -> {Idle} \cup Executing]]
          /\ timer' \in Nat \cup {Never} /\ unheard' \in BOOLEAN
      BY <2>1, LoopsTyped, DueJobsAre DEF CronTyped
    <3>2. QED
      BY <1>12, <3>1 DEF RunDueJobs, CronTyped
  <2>2. CASE timer' = Never /\ UNCHANGED <<todo, exec, unheard>>
    BY <1>12, <2>2 DEF RunDueJobs, CronTyped
  <2>3. QED
    BY <1>12, <2>1, <2>2 DEF RunDueJobs
<1>13. ASSUME NEW d \in Daemons, NEW l \in Lanes, NEW stored \in BOOLEAN,
              NEW answer \in {"answered", "refused"}, Publish(d, l, stored, answer)
       PROVE  CronTyped'
  <2>1. exec[d][l] \in Executing
    BY <1>13, BusyIs, LaneIs DEF Publish
  <2>2. [exec[d][l] EXCEPT !.at = answer] \in Executing
    BY <2>1 DEF Executing
  <2>3. exec' \in [Daemons -> [Lanes -> {Idle} \cup Executing]]
    BY <1>13, <2>2 DEF Publish, CronTyped
  <2>4. exec[d][l].of.next \in Nat \cup {Never}
    BY <2>1, ExecutingIs
  <2>5. fired' \in [Jobs -> Nat \cup {Never}]
    BY <1>13, <2>4 DEF Publish, CronTyped
  <2>6. QED
    BY <1>13, <2>3, <2>5 DEF Publish, CronTyped
<1>14. ASSUME NEW d \in Daemons, NEW l \in Lanes, Settle(d, l)
       PROVE  CronTyped'
  <2>1. rows' \in Tables /\ again' \in SUBSET Jobs /\ overwritten' \in SUBSET Jobs
    BY <1>14, SettleTyped DEF Settle, CronTyped
  <2>2. /\ todo' \in [Daemons -> SUBSET SnapshotOf]
        /\ exec' \in [Daemons -> [Lanes -> {Idle} \cup Executing]]
        /\ timer' \in Nat \cup {Never} /\ unheard' \in BOOLEAN
    <3>1. CASE l = "timer"
      <4>1. Loops(d, todo[d], rows')
        BY <1>14, <3>1 DEF Settle
      <4>2. todo[d] \in SUBSET SnapshotOf
        BY DEF CronTyped
      <4>3. QED
        BY <2>1, <4>1, <4>2, LoopsTyped
    <3>2. CASE l # "timer"
      <4>1. exec' = [exec EXCEPT ![d][l] = Idle] /\ timer' = timer /\ todo' = todo /\ unheard' = unheard
        BY <1>14, <3>2 DEF Settle
      <4>2. QED
        BY <4>1 DEF CronTyped
    <3>3. QED
      BY <3>1, <3>2
  <2>3. QED
    BY <1>14, <2>1, <2>2 DEF Settle, CronTyped
<1>15. ASSUME NEW d \in Daemons, NEW j \in Jobs, TriggerJob(d, j)
       PROVE  CronTyped'
  <2>1. Present(j) => [at |-> "publishing", of |-> Read(j), started |-> now] \in Executing
    BY RowIs DEF Executing, CronTyped
  <2>2. exec' \in [Daemons -> [Lanes -> {Idle} \cup Executing]]
    BY <1>15, <2>1 DEF TriggerJob, CronTyped, Lanes
  <2>3. QED
    BY <1>15, <2>2 DEF TriggerJob, CronTyped
<1>16. QED
  BY <1>1, <1>2, <1>3, <1>4, <1>5, <1>6, <1>7, <1>8, <1>9, <1>10, <1>11, <1>12, <1>13, <1>14, <1>15,
     CronActions, Zenon

------------------------------------------------------------------------------
(* The commands that have not yet come to a run                             *)

\* Slack counts down from the commands only by what is counted elsewhere.
Grown == Counted' /\ Slack' >= Slack /\ Slack' \in Nat /\ now' >= now

\* There are no more manual runs to come than commands were given.
LEMMA SlackIs ==
  ASSUME CronTyped, Counted
  PROVE  /\ Slack \in Nat /\ Slack <= used.commands
         /\ used.commands \in 0 .. MaxCommands
         /\ Cardinality(wanted) \in Nat /\ Cardinality(Manual) \in Nat
<1>1. used.commands \in 0 .. MaxCommands /\ MaxCommands \in Nat
  BY CronAssumption DEF CronTyped
<1>2. Cardinality(wanted) \in Nat /\ Cardinality(Manual) \in Nat
  BY FS_CardinalityType DEF Counted
<1>3. QED
  BY <1>1, <1>2 DEF Slack, Counted

\* A finite set with one more element.
LEMMA OneAdded ==
  ASSUME NEW S, NEW x, IsFiniteSet(S)
  PROVE  /\ IsFiniteSet(S \cup {x})
         /\ Cardinality(S \cup {x}) \in Nat /\ Cardinality(S \cup {x}) <= Cardinality(S) + 1
<1>1. IsFiniteSet(S \cup {x}) /\ Cardinality(S) \in Nat
  BY FS_AddElement, FS_CardinalityType
<1>2. Cardinality(S \cup {x}) = IF x \in S THEN Cardinality(S) ELSE Cardinality(S) + 1
  BY FS_AddElement
<1>3. QED
  BY <1>1, <1>2

\* A step that makes no more manual runs than it spends commands on.
LEMMA GrownBy ==
  ASSUME CronTyped, CronTyped', Counted,
         IsFiniteSet(wanted'), IsFiniteSet(Manual'), now' >= now,
         used.commands' + Cardinality(wanted) + Cardinality(Manual) >=
           used.commands + Cardinality(wanted') + Cardinality(Manual')
  PROVE  Grown
<1>1. /\ used.commands \in Nat /\ used.commands' \in Nat
      /\ Cardinality(wanted) \in Nat /\ Cardinality(Manual) \in Nat
      /\ Cardinality(wanted') \in Nat /\ Cardinality(Manual') \in Nat
  <2>1. used.commands \in Nat /\ used.commands' \in Nat
    BY CronAssumption DEF CronTyped
  <2>2. QED
    BY <2>1, FS_CardinalityType DEF Counted
<1>2. Slack' = used.commands' - Cardinality(wanted') - Cardinality(Manual')
  BY DEF Slack
<1> HIDE DEF Manual
<1>3. Slack \in Nat /\ Slack' \in Int /\ Slack' >= Slack
  BY <1>1, <1>2, SlackIs DEF Slack
<1>4. QED
  BY <1>3 DEF Grown, Counted

\* A step that leaves the manual runs and the commands as they are
LEMMA GrownQuietly ==
  ASSUME CronTyped, CronTyped', Counted, now' >= now,
         used'.commands = used.commands \/ used'.commands = used.commands + 1,
         wanted' = wanted,
         \A d \in Daemons : exec'[d]["manual"] # Idle <=> exec[d]["manual"] # Idle
  PROVE  Grown
<1>1. Manual' = Manual
  BY DEF Manual
<1>2. /\ used.commands \in Nat /\ used.commands' \in Nat
      /\ Cardinality(wanted) \in Nat /\ Cardinality(Manual) \in Nat
  BY SlackIs, CronAssumption DEF CronTyped
<1> HIDE DEF Manual
<1>3. IsFiniteSet(wanted') /\ IsFiniteSet(Manual')
  BY <1>1 DEF Counted
<1>4. used.commands' + Cardinality(wanted) + Cardinality(Manual) >=
        used.commands + Cardinality(wanted') + Cardinality(Manual')
  BY <1>1, <1>2
<1>5. QED
  BY <1>3, <1>4, GrownBy

\* What the timer does leaves the manual runs alone.
LEMMA ManualUntouched ==
  ASSUME CronTyped, NEW d \in Daemons, NEW x, exec' = [exec EXCEPT ![d]["timer"] = x]
  PROVE  \A e \in Daemons : exec'[e]["manual"] = exec[e]["manual"]
BY DEF CronTyped, Lanes

\* Its loop does so as well, and leaves the other daemons alone.
LEMMA LoopsUntouched ==
  ASSUME CronTyped, NEW d \in Daemons, NEW rest, NEW r, Loops(d, rest, r)
  PROVE  /\ \A e \in Daemons : exec'[e]["manual"] = exec[e]["manual"]
         /\ \A e \in Daemons \ {d} : exec'[e] = exec[e] /\ todo'[e] = todo[e]
<1>1. CASE GoesOn(d, rest)
  BY <1>1 DEF GoesOn, CronTyped, Lanes
<1>2. CASE Finishes(d, r)
  BY <1>2 DEF Finishes, CronTyped, Lanes
<1>3. QED
  BY <1>1, <1>2, LoopsIs

\* what a publication does to the execution that made it, and to no other
Answered(d, l, answer) ==
  /\ exec[d][l] \in Executing /\ exec[d][l].at = "publishing" /\ exec[d][l] # Idle
  /\ exec'[d][l] = [exec[d][l] EXCEPT !.at = answer]
  /\ exec'[d][l] # Idle /\ exec'[d][l].of = exec[d][l].of
  /\ exec'[d][l].started = exec[d][l].started /\ exec'[d][l].at = answer
  /\ \A e \in Daemons, k \in Lanes : <<e, k>> # <<d, l>> => exec'[e][k] = exec[e][k]

\* A publication, stored or not, changes its own execution only.
LEMMA PublishUntouched ==
  ASSUME CronTyped, NEW d \in Daemons, NEW l \in Lanes, NEW stored \in BOOLEAN,
         NEW answer \in {"answered", "refused"}, Publish(d, l, stored, answer)
  PROVE  Answered(d, l, answer)
<1>1. exec[d][l] \in Executing /\ exec[d][l].at = "publishing"
  BY BusyIs, LaneIs DEF Publish
<1>2. /\ exec'[d][l] = [exec[d][l] EXCEPT !.at = answer]
      /\ \A e \in Daemons, k \in Lanes : <<e, k>> # <<d, l>> => exec'[e][k] = exec[e][k]
  BY DEF Publish, CronTyped
<1>3. [exec[d][l] EXCEPT !.at = answer].at = answer
  BY <1>1 DEF Executing
<1>4. QED
  BY <1>1, <1>2, <1>3, ExecutingIs DEF Executing, Idle, Answered

\* At the start no manual run is wanted.
LEMMA CountedInit == CronInit => Counted
<1> SUFFICES ASSUME CronInit
             PROVE  Counted
  OBVIOUS
<1>1. Manual = {} /\ wanted = {} /\ used.commands = 0
  BY DEF CronInit, Manual, Lanes
<1>2. QED
  BY <1>1, FS_EmptySet DEF Counted, Slack

\* Every step keeps the count: neither the slack nor the time shrinks.
LEMMA CountedStep ==
  ASSUME CronTyped, CronTyped', Counted, CronNext
  PROVE  Grown
<1> USE DEF processes, messages, history
<1> HIDE DEF Grown, Manual
<1>0. now \in Nat /\ now >= now /\ now + 1 >= now
  BY DEF CronTyped
<1>1. /\ used.commands \in Nat /\ used.commands' \in Nat
      /\ Cardinality(wanted) \in Nat /\ Cardinality(Manual) \in Nat
  BY SlackIs, CronAssumption DEF CronTyped
<1>2. CASE TimePasses
  BY <1>0, <1>2, GrownQuietly DEF TimePasses
<1>3. ASSUME leader \in Daemons, Ends, used'.commands = used.commands,
             \A e \in Daemons : exec'[e]["manual"] # Idle => exec[e]["manual"] # Idle
      PROVE  Grown
  <2>1. Manual' \subseteq Manual
    BY <1>3 DEF Manual
  <2>2. IsFiniteSet(Manual') /\ Cardinality(Manual') <= Cardinality(Manual)
    BY <2>1, FS_Subset DEF Counted
  <2>3. IsFiniteSet(wanted') /\ Cardinality(wanted') = 0
    BY <1>3, FS_EmptySet DEF Ends
  <2>4. Cardinality(Manual') \in Nat
    BY <2>2, FS_CardinalityType
  <2>5. now' >= now
    BY <1>0, <1>3 DEF Ends
  <2>6. used.commands' + Cardinality(wanted) + Cardinality(Manual) >=
          used.commands + Cardinality(wanted') + Cardinality(Manual')
    BY <1>1, <1>3, <2>2, <2>3, <2>4
  <2>7. QED
    BY <2>2, <2>3, <2>5, <2>6, GrownBy
<1>4. CASE Stop
  <2>1. used'.commands = used.commands
    BY <1>4 DEF Stop, Mishap, CronTyped
  <2>2. leader \in Daemons
    BY <1>4 DEF Stop, CronTyped
  <2>3. QED
    BY <1>3, <1>4, <2>1, <2>2 DEF Stop
<1>5. CASE Crash
  <2>1. used'.commands = used.commands
    BY <1>5 DEF Crash, Mishap, CronTyped
  <2>2. leader \in Daemons
    BY <1>5 DEF Crash, CronTyped
  <2>3. \A e \in Daemons : exec'[e]["manual"] # Idle => exec[e]["manual"] # Idle
    BY <1>5, <2>2 DEF Crash, CronTyped, Lanes
  <2>4. QED
    BY <1>3, <1>5, <2>1, <2>2, <2>3 DEF Crash
<1>6. CASE RefreshTimers
  BY <1>0, <1>6, GrownQuietly DEF RefreshTimers
<1>7. CASE RefreshMissed
  <2>1. used'.commands = used.commands
    BY <1>7 DEF RefreshMissed, Mishap, CronTyped
  <2>2. QED
    BY <1>0, <1>7, <2>1, GrownQuietly DEF RefreshMissed
<1>8. ASSUME NEW j \in Jobs, NEW s \in Schedules, dbCreateCronJob(j, s)
      PROVE  Grown
  BY <1>0, <1>8, GrownQuietly DEF dbCreateCronJob, Writes
<1>9. Command => used'.commands = used.commands + 1
  BY DEF Command, CronTyped
<1>10. ASSUME NEW j \in Jobs, NEW s \in Schedules, NEW e \in BOOLEAN, dbUpdateCronJob(j, s, e)
       PROVE  Grown
  BY <1>0, <1>9, <1>10, GrownQuietly DEF dbUpdateCronJob, Writes
<1>11. ASSUME NEW j \in Jobs, Disable(j) \/ dbDeleteCronJob(j)
       PROVE  Grown
  BY <1>0, <1>9, <1>11, GrownQuietly DEF Disable, dbDeleteCronJob, Writes
<1>12. ASSUME NEW j \in Jobs, RunNow(j)
       PROVE  Grown
  <2>1. Manual' = Manual /\ now' >= now /\ used'.commands = used.commands + 1
    BY <1>0, <1>9, <1>12 DEF RunNow, Manual
  <2>2. IsFiniteSet(wanted') /\ Cardinality(wanted') <= Cardinality(wanted) + 1
    <3>1. IsFiniteSet(wanted \cup {j}) /\ Cardinality(wanted \cup {j}) <= Cardinality(wanted) + 1
      BY OneAdded DEF Counted
    <3>2. QED
      BY <1>1, <1>12, <3>1 DEF RunNow, Counted
  <2>3. Cardinality(wanted') \in Nat /\ IsFiniteSet(Manual')
    BY <2>1, <2>2, FS_CardinalityType DEF Counted
  <2>4. used.commands' + Cardinality(wanted) + Cardinality(Manual) >=
          used.commands + Cardinality(wanted') + Cardinality(Manual')
    BY <1>1, <2>1, <2>2, <2>3
  <2>5. QED
    BY <2>1, <2>2, <2>3, <2>4, GrownBy
<1>13. ASSUME NEW d \in Daemons, Start(d)
       PROVE  Grown
  BY <1>0, <1>13, GrownQuietly DEF Start
<1>14. ASSUME NEW d \in Daemons, RunDueJobs(d)
       PROVE  Grown
  <2>1. \A e \in Daemons : exec'[e]["manual"] = exec[e]["manual"]
    BY <1>14, LoopsUntouched DEF RunDueJobs
  <2>2. QED
    BY <1>0, <1>14, <2>1, GrownQuietly DEF RunDueJobs
<1>15. ASSUME NEW d \in Daemons, NEW l \in Lanes, NEW stored \in BOOLEAN,
              NEW answer \in {"answered", "refused"}, Publish(d, l, stored, answer)
       PROVE  Grown
  <2>1. \A e \in Daemons : exec'[e]["manual"] # Idle <=> exec[e]["manual"] # Idle
    <3>1. Answered(d, l, answer)
      BY <1>15, PublishUntouched
    <3>2. QED
      BY <3>1 DEF Answered, Lanes
  <2>2. QED
    BY <1>0, <1>15, <2>1, GrownQuietly DEF Publish
<1>16. ASSUME NEW d \in Daemons, NEW l \in Lanes, Settle(d, l)
       PROVE  Grown
  <2>1. CASE l = "timer"
    <3>1. \A e \in Daemons : exec'[e]["manual"] = exec[e]["manual"]
      BY <1>16, <2>1, LoopsUntouched DEF Settle
    <3>2. QED
      BY <1>0, <1>16, <3>1, GrownQuietly DEF Settle
  <2>2. CASE l = "manual"
    <3>1. exec' = [exec EXCEPT ![d]["manual"] = Idle]
      BY <1>16, <2>2 DEF Settle
    <3>2. Manual' \subseteq Manual
      BY <3>1 DEF Manual, CronTyped, Lanes
    <3>3. IsFiniteSet(Manual') /\ Cardinality(Manual') <= Cardinality(Manual)
      BY <3>2, FS_Subset DEF Counted
    <3>4. Cardinality(Manual') \in Nat
      BY <3>3, FS_CardinalityType
    <3>5. now' >= now /\ wanted' = wanted /\ used'.commands = used.commands
      BY <1>0, <1>16 DEF Settle
    <3>6. used.commands' + Cardinality(wanted) + Cardinality(Manual) >=
            used.commands + Cardinality(wanted') + Cardinality(Manual')
      BY <1>1, <3>3, <3>4, <3>5
    <3>7. IsFiniteSet(wanted')
      BY <3>5 DEF Counted
    <3>8. QED
      BY <3>3, <3>5, <3>6, <3>7, GrownBy
  <2>3. QED
    BY <2>1, <2>2 DEF Lanes
<1>17. ASSUME NEW d \in Daemons, NEW j \in Jobs, TriggerJob(d, j)
       PROVE  Grown
  <2>1. Manual' \subseteq Manual \cup {d}
    BY <1>17 DEF Manual, TriggerJob, CronTyped, Lanes
  <2>2. /\ IsFiniteSet(Manual \cup {d}) /\ Cardinality(Manual \cup {d}) <= Cardinality(Manual) + 1
        /\ Cardinality(Manual \cup {d}) \in Nat
    BY OneAdded DEF Counted
  <2>3. /\ IsFiniteSet(Manual') /\ Cardinality(Manual') <= Cardinality(Manual \cup {d})
        /\ Cardinality(Manual') \in Nat
    BY <2>1, <2>2, FS_Subset, FS_CardinalityType
  <2>4. IsFiniteSet(wanted') /\ Cardinality(wanted') = Cardinality(wanted) - 1
    BY <1>17, FS_RemoveElement DEF TriggerJob, Counted
  <2>5. now' >= now /\ used'.commands = used.commands
    BY <1>0, <1>17 DEF TriggerJob
  <2>6. used.commands' + Cardinality(wanted) + Cardinality(Manual) >=
          used.commands + Cardinality(wanted') + Cardinality(Manual')
    BY <1>1, <2>2, <2>3, <2>4, <2>5
  <2>7. QED
    BY <2>3, <2>4, <2>5, <2>6, GrownBy
<1>18. QED
  BY <1>2, <1>4, <1>5, <1>6, <1>7, <1>8, <1>10, <1>11, <1>12, <1>13, <1>14, <1>15, <1>16, <1>17,
     CronActions, Zenon

------------------------------------------------------------------------------
(* What the timer works on                                                  *)

\* Jobs to be executed: each of them once, and all of them due
AllDue(rest, time) ==
  \A s \in rest : /\ s.next # Never /\ s.next <= time
                  /\ \A t \in rest : t.job = s.job => t = s

DueExecution(x, time) == x.of.next # Never /\ x.of.next <= x.started /\ x.started <= time

\* What the timer of d has read was due, one row for each job.
TimerWork(d) ==
  /\ AllDue(todo[d], now)
  /\ \A s \in todo[d] : exec[d]["timer"] # Idle /\ s.job # exec[d]["timer"].of.job
  /\ exec[d]["timer"] # Idle => DueExecution(exec[d]["timer"], now)

DueWork == \A d \in Daemons : TimerWork(d)

\* What the timer works on stays due while time passes and it works no further.
LEMMA TimerWorkKept ==
  ASSUME CronTyped, CronTyped', now' >= now, NEW d \in Daemons, TimerWork(d),
         todo'[d] = todo[d] \/ todo'[d] = {},
         exec[d]["timer"] # Idle =>
           /\ exec'[d]["timer"] # Idle
           /\ exec'[d]["timer"].of = exec[d]["timer"].of
           /\ exec'[d]["timer"].started = exec[d]["timer"].started,
         exec[d]["timer"] = Idle => exec'[d]["timer"] = Idle
  PROVE  TimerWork(d)'
<1>1. now \in Nat /\ now' \in Nat
  BY DEF CronTyped
<1>2. \A s \in todo[d] : s.next \in Nat \cup {Never}
  BY DEF CronTyped, SnapshotOf
<1>3. AllDue(todo[d], now')
  BY <1>1, <1>2 DEF AllDue, TimerWork
<1>4. AllDue(todo'[d], now')
  BY <1>3 DEF AllDue
<1>5. exec[d]["timer"] # Idle => exec[d]["timer"].started \in Nat
  BY LaneIs, ExecutingIs DEF Lanes
<1>6. exec'[d]["timer"] # Idle => DueExecution(exec'[d]["timer"], now')
  BY <1>1, <1>5 DEF TimerWork, DueExecution
<1>7. QED
  BY <1>4, <1>6 DEF TimerWork

\* When it goes on, it is with one that is due.
LEMMA LoopsDue ==
  ASSUME CronTyped, now' = now, NEW d \in Daemons, NEW rest \in SUBSET SnapshotOf, NEW r,
         AllDue(rest, now), Loops(d, rest, r)
  PROVE  TimerWork(d)'
<1>1. CASE GoesOn(d, rest)
  <2>1. PICK s \in rest :
          /\ todo' = [todo EXCEPT ![d] = rest \ {s}]
          /\ exec' = [exec EXCEPT ![d]["timer"] = [at |-> "publishing", of |-> s, started |-> now]]
    BY <1>1 DEF GoesOn
  <2>2. todo'[d] = rest \ {s}
    BY <2>1 DEF CronTyped
  <2>3. exec'[d]["timer"] = [at |-> "publishing", of |-> s, started |-> now]
    BY <2>1 DEF CronTyped, Lanes
  <2>4. exec'[d]["timer"] # Idle /\ exec'[d]["timer"].of = s /\ exec'[d]["timer"].started = now
    BY <2>3 DEF Idle
  <2>5. DueExecution(exec'[d]["timer"], now')
    <3>1. s.next # Never /\ s.next <= now /\ now \in Nat
      BY DEF AllDue, CronTyped
    <3>2. QED
      BY <2>4, <3>1 DEF DueExecution
  <2>6. AllDue(todo'[d], now')
    BY <2>2 DEF AllDue
  <2>7. \A t \in todo'[d] : t.job # s.job
    BY <2>2 DEF AllDue
  <2>8. QED
    BY <2>4, <2>5, <2>6, <2>7 DEF TimerWork
<1>2. CASE Finishes(d, r)
  <2>1. todo'[d] = {} /\ exec'[d]["timer"] = Idle
    BY <1>2 DEF Finishes, CronTyped, Lanes
  <2>2. QED
    BY <2>1 DEF TimerWork, AllDue
<1>3. QED
  BY <1>1, <1>2, LoopsIs

\* At the start the timer works on nothing.
LEMMA DueWorkInit == CronInit => DueWork
BY DEF CronInit, DueWork, TimerWork, AllDue, Lanes

\* The timer only takes up what is due, one row for each job.
LEMMA DueWorkStep ==
  ASSUME CronTyped, CronTyped', Counted, DueWork, CronNext
  PROVE  DueWork'
<1> USE DEF processes, messages, history
<1>0. now' >= now /\ now \in Nat /\ now' \in Nat
  BY CountedStep DEF Grown, CronTyped
<1>1. ASSUME UNCHANGED <<todo, exec>>
      PROVE  DueWork'
  BY <1>0, <1>1, TimerWorkKept DEF DueWork
<1>2. CASE Crash
  <2>1. PICK d \in Daemons : d = leader
    BY <1>2 DEF Crash, CronTyped
  <2>2. /\ todo'[d] = {} /\ exec'[d]["timer"] = Idle
        /\ \A e \in Daemons \ {d} : todo'[e] = todo[e] /\ exec'[e] = exec[e]
    BY <1>2, <2>1 DEF Crash, CronTyped, Lanes
  <2>3. TimerWork(d)'
    BY <2>2 DEF TimerWork, AllDue
  <2>4. QED
    BY <1>0, <2>2, <2>3, TimerWorkKept DEF DueWork
<1>3. ASSUME NEW d \in Daemons, NEW rest \in SUBSET SnapshotOf, NEW r,
             AllDue(rest, now), Loops(d, rest, r), now' = now
      PROVE  DueWork'
  <2>1. TimerWork(d)'
    BY <1>3, LoopsDue
  <2>2. \A e \in Daemons \ {d} : exec'[e] = exec[e] /\ todo'[e] = todo[e]
    BY <1>3, LoopsUntouched
  <2>3. \A e \in Daemons \ {d} : TimerWork(e)'
    BY <1>0, <2>2, TimerWorkKept DEF DueWork
  <2>4. QED
    BY <2>1, <2>3 DEF DueWork
<1>4. ASSUME NEW d \in Daemons, RunDueJobs(d)
      PROVE  DueWork'
  <2>1. AllDue(dbGetDueJobs, now) /\ dbGetDueJobs \in SUBSET SnapshotOf
    BY DueJobsAre DEF AllDue
  <2>2. now' = now
    BY <1>4 DEF RunDueJobs
  <2>3. CASE Loops(d, dbGetDueJobs, rows)
    BY <1>3, <2>1, <2>2, <2>3
  <2>4. CASE UNCHANGED <<todo, exec>>
    BY <1>1, <2>4
  <2>5. QED
    BY <1>4, <2>3, <2>4 DEF RunDueJobs
<1>5. ASSUME NEW d \in Daemons, NEW l \in Lanes, NEW stored \in BOOLEAN,
             NEW answer \in {"answered", "refused"}, Publish(d, l, stored, answer)
      PROVE  DueWork'
  <2>1. todo' = todo
    BY <1>5 DEF Publish
  <2>2. /\ exec[d][l] # Idle /\ exec'[d][l] # Idle /\ exec'[d][l].of = exec[d][l].of
        /\ exec'[d][l].started = exec[d][l].started
        /\ \A e \in Daemons, k \in Lanes : <<e, k>> # <<d, l>> => exec'[e][k] = exec[e][k]
    <3>1. Answered(d, l, answer)
      BY <1>5, PublishUntouched
    <3>2. QED
      BY <3>1 DEF Answered
  <2>3. ASSUME NEW e \in Daemons
        PROVE  TimerWork(e)'
    <3>1. CASE <<e, "timer">> = <<d, l>>
      BY <1>0, <2>1, <2>2, <3>1, TimerWorkKept DEF DueWork
    <3>2. CASE <<e, "timer">> # <<d, l>>
      <4>1. exec'[e]["timer"] = exec[e]["timer"]
        BY <2>2, <3>2 DEF Lanes
      <4>2. QED
        BY <1>0, <2>1, <4>1, TimerWorkKept DEF DueWork
    <3>3. QED
      BY <3>1, <3>2
  <2>4. QED
    BY <2>3 DEF DueWork
<1>6. ASSUME NEW d \in Daemons, NEW l \in Lanes, Settle(d, l)
      PROVE  DueWork'
  <2>1. now' = now
    BY <1>6 DEF Settle
  <2>2. CASE l = "timer"
    <3>1. Loops(d, todo[d], rows')
      BY <1>6, <2>2 DEF Settle
    <3>2. AllDue(todo[d], now) /\ todo[d] \in SUBSET SnapshotOf
      BY DEF DueWork, TimerWork, CronTyped
    <3>3. QED
      BY <1>3, <2>1, <3>1, <3>2
  <2>3. CASE l = "manual"
    <3>1. todo' = todo /\ \A e \in Daemons : exec'[e]["timer"] = exec[e]["timer"]
      BY <1>6, <2>3 DEF Settle, CronTyped, Lanes
    <3>2. QED
      BY <1>0, <3>1, TimerWorkKept DEF DueWork
  <2>4. QED
    BY <2>2, <2>3 DEF Lanes
<1>7. ASSUME NEW d \in Daemons, NEW j \in Jobs, TriggerJob(d, j)
      PROVE  DueWork'
  <2>1. todo' = todo /\ \A e \in Daemons : exec'[e]["timer"] = exec[e]["timer"]
    BY <1>7 DEF TriggerJob, CronTyped, Lanes
  <2>2. QED
    BY <1>0, <2>1, TimerWorkKept DEF DueWork
<1>8. \/ TimePasses \/ Stop \/ RefreshTimers \/ RefreshMissed
      \/ \E j \in Jobs, s \in Schedules : dbCreateCronJob(j, s)
      \/ \E j \in Jobs, s \in Schedules, e \in BOOLEAN : dbUpdateCronJob(j, s, e)
      \/ \E j \in Jobs : Disable(j) \/ dbDeleteCronJob(j) \/ RunNow(j)
      \/ \E d \in Daemons : Start(d)
      => UNCHANGED <<todo, exec>>
  BY DEF TimePasses, Stop, RefreshTimers, RefreshMissed, dbCreateCronJob, dbUpdateCronJob, Disable,
         dbDeleteCronJob, RunNow, Start, Writes
<1>9. QED
  BY <1>1, <1>2, <1>4, <1>5, <1>6, <1>7, <1>8, CronActions, Zenon

------------------------------------------------------------------------------
(* The run times of the jobs                                                *)

\* No run time is later than this.
Reach == now + Longest * (1 + Slack)

\* the same, and not too far ahead
FitsRow(s, n, time, slack) ==
  Fits(s, n, time) /\ (s.type = "every" => n <= time + s.n * (1 + slack))

NearRows == \A j \in Jobs : Present(j) /\ rows[j].next # Never => rows[j].next <= Reach

\* A row holds a run time of its schedule, unless it was overwritten.
FitRows ==
  \A j \in Jobs \ overwritten : Present(j) => FitsRow(rows[j].schedule, rows[j].next, now, Slack)

\* A manual run has the row as it was when it started.
ManualWork(d) ==
  exec[d]["manual"] # Idle =>
    LET x == exec[d]["manual"]
    IN /\ x.started <= now
       /\ x.of.next # Never => x.of.next <= Reach
       /\ x.of.job \notin overwritten => Fits(x.of.schedule, x.of.next, x.started)

NearTimer == timer # Never => Schedules # {} /\ timer <= Reach

Dated == NearRows /\ FitRows /\ NearTimer /\ \A d \in Daemons : ManualWork(d)

\* the same for any numbers
LEMMA Monotone ==
  ASSUME NEW n \in Nat, NEW k \in Nat, NEW m \in Nat, k <= m, NEW t \in Nat, NEW u \in Nat, t <= u
  PROVE  /\ t + n * (1 + k) \in Nat /\ u + n * (1 + m) \in Nat
         /\ t + n <= t + n * (1 + k) /\ u + n <= u + n * (1 + m)
         /\ t + n * (1 + k) <= u + n * (1 + m)
         /\ m >= k + 1 => t + n * (1 + k) + n <= u + n * (1 + m)
<1> DEFINE a == n * (1 + k)
           b == n * (1 + m)
           c == n * (1 + (k + 1))
<1>1. a \in Nat /\ n <= a /\ c = a + n
  BY MoreIsMore, OneMore
<1>2. b \in Nat /\ n <= b /\ a <= b
  BY MoreIsMore, OneMore
<1>3. m >= k + 1 => c <= b
  <2>1. SUFFICES ASSUME m >= k + 1
                 PROVE  c <= b
    OBVIOUS
  <2>2. k + 1 \in Nat /\ k + 1 <= m
    BY <2>1
  <2>3. QED
    BY <2>2, MoreIsMore
<1> HIDE DEF a, b, c
<1>4. /\ t + a \in Nat /\ u + b \in Nat /\ t + n <= t + a /\ u + n <= u + b /\ t + a <= u + b
      /\ m >= k + 1 => t + a + n <= u + b
  BY <1>1, <1>2, <1>3
<1>5. QED
  BY <1>4 DEF a, b

\* The time that a number of intervals may reach only grows.
LEMMA WithinGrows ==
  ASSUME CronTyped, CronTyped', Counted, Grown, NEW n \in Nat
  PROVE  /\ now + n * (1 + Slack) \in Nat /\ now' + n * (1 + Slack') \in Nat
         /\ now + n <= now + n * (1 + Slack)
         /\ now' + n <= now' + n * (1 + Slack')
         /\ now + n * (1 + Slack) <= now' + n * (1 + Slack')
         /\ Slack' >= Slack + 1 => now + n * (1 + Slack) + n <= now' + n * (1 + Slack')
<1>1. Slack \in Nat /\ Slack' \in Nat /\ Slack <= Slack' /\ now \in Nat /\ now' \in Nat /\ now <= now'
  BY SlackIs DEF Grown, CronTyped
<1> HIDE DEF Slack
<1>2. QED
  BY <1>1, Monotone

\* So does the time that any schedule may reach.
LEMMA ReachGrows ==
  ASSUME CronTyped, CronTyped', Counted, Grown, Schedules # {}
  PROVE  /\ Reach \in Nat /\ Reach' \in Nat
         /\ now + Longest <= Reach /\ now' + Longest <= Reach' /\ Reach <= Reach'
         /\ Slack' >= Slack + 1 => Reach + Longest <= Reach'
         /\ Longest \in Nat /\ now <= Reach /\ now' <= Reach'
<1>1. Longest \in Nat /\ now \in Nat /\ now' \in Nat
  BY LongestIs DEF CronTyped
<1>2. /\ now + Longest * (1 + Slack) \in Nat /\ now' + Longest * (1 + Slack') \in Nat
      /\ now + Longest <= now + Longest * (1 + Slack)
      /\ now' + Longest <= now' + Longest * (1 + Slack')
      /\ now + Longest * (1 + Slack) <= now' + Longest * (1 + Slack')
      /\ Slack' >= Slack + 1 =>
           now + Longest * (1 + Slack) + Longest <= now' + Longest * (1 + Slack')
  BY <1>1, WithinGrows
<1>3. Reach = now + Longest * (1 + Slack) /\ Reach' = now' + Longest * (1 + Slack')
  BY DEF Reach
<1> HIDE DEF Slack, Reach, Longest
<1>4. QED
  BY <1>1, <1>2, <1>3

\* A run time that fits its schedule goes on fitting.
LEMMA FitsRowGrows ==
  ASSUME CronTyped, CronTyped', Counted, Grown, NEW s \in Schedules, NEW n \in Nat \cup {Never},
         FitsRow(s, n, now, Slack)
  PROVE  FitsRow(s, n, now', Slack')
<1>1. now \in Nat /\ now' \in Nat /\ now <= now' /\ s.n \in Nat /\ Never \notin Nat
  BY CronAssumption DEF Grown, CronTyped
<1>2. Fits(s, n, now')
  BY <1>1, FitsLater DEF FitsRow
<1>3. /\ now + s.n * (1 + Slack) <= now' + s.n * (1 + Slack')
      /\ now + s.n * (1 + Slack) \in Nat /\ now' + s.n * (1 + Slack') \in Nat
  BY <1>1, WithinGrows
<1>4. s.type = "every" => n \in Nat /\ n <= now' + s.n * (1 + Slack')
  BY <1>1, <1>3 DEF FitsRow, Fits
<1>5. QED
  BY <1>2, <1>4 DEF FitsRow

\* a run time that is computed now
LEMMA NewRunFits ==
  ASSUME CronTyped, CronTyped', Counted, Grown, now' = now, NEW s \in Schedules
  PROVE  LET n == calculateNextRun(s, now)
         IN /\ n \in Nat \cup {Never} /\ (n # Never => n <= Reach' /\ n > now)
            /\ FitsRow(s, n, now', Slack')
<1> DEFINE n == calculateNextRun(s, now)
<1>1. now \in Nat /\ s.n \in Nat /\ Never \notin Nat
  BY CronAssumption DEF CronTyped
<1>2. /\ n # Never => n \in Nat /\ n > now /\ n <= now + Longest
      /\ s.type = "every" => n = now + s.n
      /\ Fits(s, n, now)
  BY <1>1, NextRunIs
<1>3. now' + Longest <= Reach' /\ Longest \in Nat /\ Reach' \in Nat
  BY ReachGrows
<1>4. now' + s.n <= now' + s.n * (1 + Slack') 
  BY <1>1, WithinGrows
<1> HIDE DEF n
<1>5. QED
  BY <1>1, <1>2, <1>3, <1>4 DEF FitsRow, n

\* A manual run that ends is one command less to reckon with.
LEMMA ManualSettles ==
  ASSUME CronTyped, CronTyped', Counted, NEW d \in Daemons, Settle(d, "manual")
  PROVE  Slack' >= Slack + 1 /\ now' = now
<1>1. Manual' = Manual \ {d} /\ d \in Manual
  BY BusyIs DEF Settle, Manual, CronTyped, Lanes
<1>2. wanted' = wanted /\ used' = used /\ now' = now
  BY DEF Settle, messages
<1> HIDE DEF Manual
<1>3. Cardinality(Manual') = Cardinality(Manual) - 1
  BY <1>1, FS_RemoveElement DEF Counted
<1>4. /\ Cardinality(Manual) \in Nat /\ Cardinality(wanted) \in Nat /\ used.commands \in Nat
      /\ Cardinality(Manual') \in Nat /\ Slack \in Nat
  <2>1. IsFiniteSet(Manual')
    BY <1>1, FS_RemoveElement DEF Counted
  <2>2. QED
    BY <2>1, SlackIs, FS_CardinalityType, CronAssumption DEF CronTyped
<1>5. Slack' = used.commands - Cardinality(wanted) - Cardinality(Manual')
  BY <1>2 DEF Slack
<1>6. QED
  BY <1>2, <1>3, <1>4, <1>5 DEF Slack

\* what Settle does to the row of the job, and to no other
LEMMA SettleIs ==
  ASSUME CronTyped, NEW d \in Daemons, NEW l \in Lanes, Settle(d, l)
  PROVE  LET x == exec[d][l]
             j == x.of.job
         IN /\ x \in Executing /\ j \in Jobs /\ now' = now
            /\ \A k \in Jobs \ {j} : rows'[k] = rows[k] /\ (k \in overwritten' <=> k \in overwritten)
                                     /\ (k \in again' <=> k \in again)
            /\ rows'[j] = Settled(x)
            /\ overwritten \subseteq overwritten' /\ again \subseteq again'
            /\ overwritten' = overwritten \cup Overwritten(x) /\ again' = again \cup Overwritten(x)
            /\ j \notin overwritten' /\ Present(j) => Read(j) = x.of \/ rows'[j] = rows[j]
<1> DEFINE x == exec[d][l]
           j == x.of.job
<1>1. x \in Executing /\ j \in Jobs /\ rows' = [rows EXCEPT ![j] = Settled(x)]
  BY SettleTyped
<1>2. /\ overwritten' = overwritten \cup Overwritten(x) /\ again' = again \cup Overwritten(x)
      /\ now' = now
  BY DEF Settle
<1>3. Overwritten(x) \subseteq {j}
  BY DEF Overwritten
<1>4. j \notin overwritten' /\ Present(j) => Read(j) = x.of \/ Settled(x) = rows[j]
  BY <1>2 DEF Overwritten
<1>5. rows'[j] = Settled(x) /\ \A k \in Jobs \ {j} : rows'[k] = rows[k]
  BY <1>1 DEF CronTyped, Tables
<1> HIDE DEF x
<1>6. QED
  BY <1>1, <1>2, <1>3, <1>4, <1>5 DEF x

\* The next run a handler writes is within reach.
LEMMA AfterNear ==
  ASSUME CronTyped, CronTyped', Counted, Grown, DueWork, Dated,
         NEW d \in Daemons, NEW l \in Lanes, Settle(d, l), After(exec[d][l]) # Never
  PROVE  After(exec[d][l]) \in Nat /\ After(exec[d][l]) <= Reach'
<1> DEFINE x == exec[d][l]
<1>1. x \in Executing /\ now' = now /\ x # Idle
  BY SettleIs, ExecutingIs
<1>2. /\ After(x) \in Nat /\ x.started \in Nat /\ x.of.next \in Nat \cup {Never}
      /\ \/ After(x) <= x.started + Longest
         \/ x.of.next # Never /\ After(x) <= x.of.next + Longest
      /\ Schedules # {}
  BY <1>1, AfterIs, ExecutingIs
<1>3. /\ Reach \in Nat /\ Reach' \in Nat /\ Longest \in Nat /\ now + Longest <= Reach'
      /\ Slack' >= Slack + 1 => Reach + Longest <= Reach'
  BY <1>1, <1>2, ReachGrows
<1>4. now \in Nat
  BY DEF CronTyped
<1>5. CASE l = "timer"
  <2>1. x.of.next # Never /\ x.of.next <= x.started /\ x.started <= now
    BY <1>1, <1>5 DEF DueWork, TimerWork, DueExecution
  <2> HIDE DEF x, Reach, Slack, Longest
  <2>2. QED
    BY <1>2, <1>3, <1>4, <2>1 DEF x
<1>6. CASE l = "manual"
  <2>1. x.started <= now /\ (x.of.next # Never => x.of.next <= Reach)
    BY <1>1, <1>6 DEF Dated, ManualWork
  <2>2. Slack' >= Slack + 1
    BY <1>6, ManualSettles
  <2> HIDE DEF x, Reach, Slack, Longest
  <2>3. QED
    BY <1>2, <1>3, <1>4, <2>1, <2>2 DEF x
<1>7. QED
  BY <1>5, <1>6 DEF Lanes

\* A row that is as it was, or as an edit leaves it
LEMMA NearRowKept ==
  ASSUME CronTyped, CronTyped', Counted, Grown, NearRows, NEW j \in Jobs,
         Present(j)' => Present(j) /\ rows'[j].next = rows[j].next,
         Present(j)', rows'[j].next # Never
  PROVE  rows'[j].next <= Reach'
<1>1. rows[j].next \in Nat \cup {Never} /\ Schedules # {}
  BY RowIs
<1>2. rows[j].next <= Reach
  BY DEF NearRows
<1>3. Reach <= Reach' /\ Reach \in Nat /\ Reach' \in Nat
  BY <1>1, ReachGrows
<1> HIDE DEF Reach
<1>4. QED
  BY <1>1, <1>2, <1>3

\* No step writes a run time out of reach.
LEMMA NearRowsStep ==
  ASSUME CronTyped, CronTyped', Counted, Grown, DueWork, Dated, CronNext
  PROVE  NearRows'
<1> USE DEF processes, messages, history
<1> HIDE DEF Reach
<1>0. NearRows
  BY DEF Dated
<1>1. ASSUME rows' = rows
      PROVE  NearRows'
  BY <1>0, <1>1, NearRowKept DEF NearRows, Present
<1>2. ASSUME NEW j \in Jobs, NEW written, Writes(j, written),
             Present(j)' /\ written.next # Never => written.next <= Reach'
      PROVE  NearRows'
  <2>1. rows' = [rows EXCEPT ![j] = written]
    BY <1>2 DEF Writes
  <2>2. rows'[j] = written /\ \A k \in Jobs \ {j} : rows'[k] = rows[k]
    BY <2>1 DEF CronTyped, Tables
  <2>3. \A k \in Jobs \ {j} : Present(k)' /\ rows'[k].next # Never => rows'[k].next <= Reach'
    BY <1>0, <2>2, NearRowKept DEF Present
  <2>4. Present(j)' /\ rows'[j].next # Never => rows'[j].next <= Reach'
    BY <1>2, <2>2
  <2>5. QED
    BY <2>3, <2>4 DEF NearRows
<1>3. ASSUME NEW j \in Jobs, NEW s \in Schedules, dbCreateCronJob(j, s)
      PROVE  NearRows'
  <2>1. now' = now /\ Writes(j, [schedule |-> s, enabled |-> TRUE, next |-> calculateNextRun(s, now)])
    BY <1>3 DEF dbCreateCronJob, Writes
  <2>2. QED
    BY <1>2, <2>1, NewRunFits
<1>4. ASSUME NEW j \in Jobs, NEW s \in Schedules, NEW e \in BOOLEAN, dbUpdateCronJob(j, s, e)
      PROVE  NearRows'
  <2>1. now' = now /\ Writes(j, [schedule |-> s, enabled |-> e, next |-> calculateNextRun(s, now)])
    BY <1>4 DEF dbUpdateCronJob, Writes
  <2>2. QED
    BY <1>2, <2>1, NewRunFits
<1>5. ASSUME NEW j \in Jobs, Disable(j)
      PROVE  NearRows'
  <2>1. Present(j) /\ rows' = [rows EXCEPT ![j] = [rows[j] EXCEPT !.enabled = FALSE]]
    BY <1>5 DEF Disable, Writes
  <2>2. \A k \in Jobs : Present(k)' => Present(k) /\ rows'[k].next = rows[k].next
    BY <2>1, RowIs DEF CronTyped, Tables, Present, RowOf
  <2>3. QED
    BY <1>0, <2>2, NearRowKept DEF NearRows
<1>6. ASSUME NEW j \in Jobs, dbDeleteCronJob(j)
      PROVE  NearRows'
  <2>1. rows' = [rows EXCEPT ![j] = Gone]
    BY <1>6 DEF dbDeleteCronJob, Writes
  <2>2. \A k \in Jobs : Present(k)' => Present(k) /\ rows'[k].next = rows[k].next
    BY <2>1 DEF CronTyped, Tables, Present
  <2>3. QED
    BY <1>0, <2>2, NearRowKept DEF NearRows
<1>7. ASSUME NEW d \in Daemons, NEW l \in Lanes, Settle(d, l)
      PROVE  NearRows'
  <2>0. PICK x \in Executing, j \in Jobs : x = exec[d][l] /\ j = x.of.job
    BY <1>7, SettleIs
  <2>1. /\ x \in Executing /\ j \in Jobs /\ rows'[j] = Settled(x)
        /\ \A k \in Jobs \ {j} : rows'[k] = rows[k]
    BY <1>7, <2>0, SettleIs
  <2>2. ASSUME NEW k \in Jobs \ {j}, Present(k)', rows'[k].next # Never
        PROVE  rows'[k].next <= Reach'
    BY <1>0, <2>1, <2>2, NearRowKept DEF Present
  <2>3. ASSUME Present(j)', rows'[j].next # Never
        PROVE  rows'[j].next <= Reach'
    <3>1. Present(j) /\ rows'[j] = [rows[j] EXCEPT !.next = After(x)]
      BY <2>0, <2>1, <2>3, SettledIs DEF Present
    <3>2. rows'[j].next = After(x)
      BY <2>1, <3>1, RowIs DEF RowOf
    <3>3. QED
      BY <1>7, <2>0, <2>3, <3>2, AfterNear
  <2>4. QED
    BY <2>2, <2>3 DEF NearRows
<1>8. \/ TimePasses \/ Stop \/ Crash \/ RefreshTimers \/ RefreshMissed
      \/ \E j \in Jobs : RunNow(j)
      \/ \E d \in Daemons : Start(d) \/ RunDueJobs(d)
      \/ \E d \in Daemons, l \in Lanes, stored \in BOOLEAN, answer \in {"answered", "refused"} :
           Publish(d, l, stored, answer)
      \/ \E d \in Daemons, j \in Jobs : TriggerJob(d, j)
      => rows' = rows
  BY DEF TimePasses, Stop, Crash, Ends, RefreshTimers, RefreshMissed, RunNow, Start, RunDueJobs, Publish,
         TriggerJob
<1>9. QED
  BY <1>1, <1>3, <1>4, <1>5, <1>6, <1>7, <1>8, CronActions, Zenon

\* A row that is not written still fits.
LEMMA FitRowKept ==
  ASSUME CronTyped, CronTyped', Counted, Grown, FitRows, NEW j \in Jobs, j \notin overwritten,
         Present(j), rows'[j].schedule = rows[j].schedule, rows'[j].next = rows[j].next
  PROVE  FitsRow(rows'[j].schedule, rows'[j].next, now', Slack')
<1>1. rows[j].schedule \in Schedules /\ rows[j].next \in Nat \cup {Never}
  BY RowIs
<1>2. FitsRow(rows[j].schedule, rows[j].next, now, Slack)
  BY DEF FitRows
<1>3. QED
  BY <1>1, <1>2, FitsRowGrows

\* When the row is still the one that was read, what is written fits it.
LEMMA AfterFits ==
  ASSUME CronTyped, CronTyped', Counted, Grown, DueWork, Dated,
         NEW d \in Daemons, NEW l \in Lanes, Settle(d, l),
         NEW j \in Jobs, j = exec[d][l].of.job, j \notin overwritten,
         Present(j), Read(j) = exec[d][l].of
  PROVE  FitsRow(rows[j].schedule, After(exec[d][l]), now', Slack')
<1> DEFINE x == exec[d][l]
           s == rows[j].schedule
           a == now + s.n * (1 + Slack)
           b == now' + s.n * (1 + Slack')
<1>1. x \in Executing /\ now' = now /\ x # Idle
  BY SettleIs, ExecutingIs
<1>2. /\ s \in Schedules /\ x.of.schedule = s /\ x.of.next = rows[j].next
      /\ rows[j].next \in Nat \cup {Never}
  <2>1. Read(j).schedule = s /\ Read(j).next = rows[j].next /\ Read(j) = x.of
    BY RowIs
  <2>2. QED
    BY <2>1, RowIs
<1>3. x.started \in Nat /\ now \in Nat /\ s.n \in Nat /\ Never \notin Nat
  <2>1. x.started \in Nat
    BY <1>1, ExecutingIs
  <2>2. now \in Nat
    BY DEF CronTyped
  <2>3. s.n \in Nat /\ Never \notin Nat
    BY <1>2, CronAssumption
  <2>4. QED
    BY <2>1, <2>2, <2>3
<1>4. x.started <= now
  <2>1. CASE l = "timer"
    BY <1>1, <2>1 DEF DueWork, TimerWork, DueExecution
  <2>2. CASE l = "manual"
    BY <1>1, <2>2 DEF Dated, ManualWork
  <2>3. QED
    BY <2>1, <2>2 DEF Lanes
<1>5. Fits(s, After(x), now')
  BY <1>1, <1>2, <1>3, <1>4, AfterIs
<1>6. Fits(s, rows[j].next, now) /\ (s.type = "every" => rows[j].next <= a)
  BY DEF Dated, FitRows, FitsRow
<1>7. a \in Nat /\ b \in Nat /\ now' + s.n <= b /\ (Slack' >= Slack + 1 => a + s.n <= b)
  BY <1>3, WithinGrows
<1>8. ASSUME s.type = "every"
      PROVE  After(x) <= b
  <2> HIDE DEF a, b, s
  <2>1. rows[j].next \in Nat /\ rows[j].next <= a
    BY <1>2, <1>6, <1>8 DEF Fits
  <2>2. After(x) = rows[j].next + s.n
    BY <1>1, <1>2, <1>3, <1>8, <2>1, AfterIs
  <2>3. CASE l = "timer"
    <3>1. rows[j].next <= x.started
      BY <1>1, <1>2, <2>3 DEF DueWork, TimerWork, DueExecution
    <3>2. rows[j].next <= now' /\ now' \in Nat
      <4> HIDE DEF x
      <4>1. QED
        BY <1>1, <1>3, <1>4, <2>1, <3>1
    <3>3. QED
      BY <1>3, <1>7, <2>1, <2>2, <3>2
  <2>4. CASE l = "manual"
    <3>1. Slack' >= Slack + 1
      BY <2>4, ManualSettles
    <3>2. a + s.n <= b
      BY <1>7, <3>1
    <3>3. QED
      BY <1>3, <1>7, <2>1, <2>2, <3>2
  <2>5. QED
    BY <2>3, <2>4 DEF Lanes
<1>9. QED
  BY <1>5, <1>8 DEF FitsRow

\* Every step that writes a row writes a run time that fits its schedule, or is recorded.
LEMMA FitRowsStep ==
  ASSUME CronTyped, CronTyped', Counted, Grown, DueWork, Dated, CronNext
  PROVE  FitRows'
<1> USE DEF processes, messages, history
<1> HIDE DEF Reach, Slack
<1>0. FitRows
  BY DEF Dated
<1> DEFINE Fit(j) == j \notin overwritten' /\ Present(j)' =>
                       FitsRow(rows'[j].schedule, rows'[j].next, now', Slack')
<1>1. SUFFICES \A j \in Jobs : Fit(j)
  BY DEF FitRows
<1>2. ASSUME NEW j \in Jobs, j \notin overwritten,
             Present(j)' => /\ Present(j) /\ rows'[j].schedule = rows[j].schedule
                            /\ rows'[j].next = rows[j].next
      PROVE  Fit(j)
  BY <1>0, <1>2, FitRowKept
<1>3. ASSUME NEW j \in Jobs, rows'[j] = rows[j], j \notin overwritten' => j \notin overwritten
      PROVE  Fit(j)
  <2>1. CASE j \in overwritten'
    BY <2>1
  <2>2. CASE j \notin overwritten'
    BY <1>2, <1>3, <2>2 DEF Present
  <2>3. QED
    BY <2>1, <2>2
<1>4. ASSUME rows' = rows, overwritten' = overwritten
      PROVE  \A j \in Jobs : Fit(j)
  BY <1>3, <1>4
<1>5. ASSUME NEW j \in Jobs, NEW written, Writes(j, written), Fit(j),
             \A k \in Jobs \ {j} : k \in overwritten' <=> k \in overwritten
      PROVE  \A k \in Jobs : Fit(k)
  <2>1. rows' = [rows EXCEPT ![j] = written]
    BY <1>5 DEF Writes
  <2>2. \A k \in Jobs \ {j} : rows'[k] = rows[k]
    BY <2>1 DEF CronTyped, Tables
  <2>3. \A k \in Jobs \ {j} : Fit(k)
    BY <1>3, <1>5, <2>2
  <2>4. QED
    BY <1>5, <2>3
<1>6. ASSUME NEW j \in Jobs, NEW s \in Schedules, NEW e \in BOOLEAN,
             Writes(j, [schedule |-> s, enabled |-> e, next |-> calculateNextRun(s, now)])
      PROVE  Fit(j)
  <2>1. now' = now /\ rows'[j] = [schedule |-> s, enabled |-> e, next |-> calculateNextRun(s, now)]
    BY <1>6 DEF Writes, CronTyped, Tables
  <2>2. FitsRow(s, calculateNextRun(s, now), now', Slack')
    BY <2>1, NewRunFits
  <2>3. QED
    BY <2>1, <2>2
<1>7. ASSUME NEW j \in Jobs, NEW s \in Schedules, dbCreateCronJob(j, s)
      PROVE  \A k \in Jobs : Fit(k)
  BY <1>5, <1>6, <1>7 DEF dbCreateCronJob
<1>8. ASSUME NEW j \in Jobs, NEW s \in Schedules, NEW e \in BOOLEAN, dbUpdateCronJob(j, s, e)
      PROVE  \A k \in Jobs : Fit(k)
  BY <1>5, <1>6, <1>8 DEF dbUpdateCronJob
<1>9. ASSUME NEW j \in Jobs, Disable(j)
      PROVE  \A k \in Jobs : Fit(k)
  <2>1. /\ Present(j) /\ Writes(j, [rows[j] EXCEPT !.enabled = FALSE]) /\ overwritten' = overwritten
        /\ rows' = [rows EXCEPT ![j] = [rows[j] EXCEPT !.enabled = FALSE]]
    BY <1>9 DEF Disable, Writes
  <2>2. rows'[j].schedule = rows[j].schedule /\ rows'[j].next = rows[j].next
    BY <2>1, RowIs DEF CronTyped, Tables, RowOf
  <2>3. Fit(j)
    <3>1. CASE j \in overwritten'
      BY <3>1
    <3>2. CASE j \notin overwritten'
      BY <1>2, <2>1, <2>2, <3>2
    <3>3. QED
      BY <3>1, <3>2
  <2>4. QED
    BY <1>5, <2>1, <2>3
<1>10. ASSUME NEW j \in Jobs, dbDeleteCronJob(j)
       PROVE  \A k \in Jobs : Fit(k)
  <2>1. Writes(j, Gone) /\ overwritten' = overwritten /\ rows' = [rows EXCEPT ![j] = Gone]
    BY <1>10 DEF dbDeleteCronJob, Writes
  <2>2. Fit(j)
    BY <2>1 DEF CronTyped, Tables, Present
  <2>3. QED
    BY <1>5, <2>1, <2>2
<1>11. ASSUME NEW d \in Daemons, NEW l \in Lanes, Settle(d, l)
       PROVE  \A k \in Jobs : Fit(k)
  <2>0. PICK x \in Executing, j \in Jobs : x = exec[d][l] /\ j = x.of.job
    BY <1>11, SettleIs
  <2>1. /\ \A k \in Jobs \ {j} : rows'[k] = rows[k] /\ (k \in overwritten' <=> k \in overwritten)
        /\ rows'[j] = Settled(x) /\ overwritten \subseteq overwritten'
        /\ j \notin overwritten' /\ Present(j) => Read(j) = x.of \/ rows'[j] = rows[j]
    BY <1>11, <2>0, SettleIs
  <2>2. \A k \in Jobs \ {j} : Fit(k)
    BY <1>3, <2>1
  <2>3. Fit(j)
    <3>1. SUFFICES ASSUME j \notin overwritten', Present(j)'
                   PROVE  FitsRow(rows'[j].schedule, rows'[j].next, now', Slack')
      OBVIOUS
    <3>2. Present(j) /\ rows'[j] = [rows[j] EXCEPT !.next = After(x)] /\ j \notin overwritten
      BY <2>0, <2>1, <3>1, SettledIs DEF Present
    <3>3. CASE rows'[j] = rows[j]
      BY <1>3, <2>1, <3>1, <3>3
    <3>4. CASE Read(j) = x.of
      <4>1. rows'[j].schedule = rows[j].schedule /\ rows'[j].next = After(x)
        BY <3>2, RowIs DEF RowOf
      <4>2. FitsRow(rows[j].schedule, After(x), now', Slack')
        BY <1>11, <2>0, <3>2, <3>4, AfterFits
      <4>3. QED
        BY <4>1, <4>2
    <3>5. QED
      BY <2>1, <3>1, <3>2, <3>3, <3>4
  <2>4. QED
    BY <2>2, <2>3
<1>12. \/ TimePasses \/ Stop \/ Crash \/ RefreshTimers \/ RefreshMissed
       \/ \E j \in Jobs : RunNow(j)
       \/ \E d \in Daemons : Start(d) \/ RunDueJobs(d)
       \/ \E d \in Daemons, l \in Lanes, stored \in BOOLEAN, answer \in {"answered", "refused"} :
            Publish(d, l, stored, answer)
       \/ \E d \in Daemons, j \in Jobs : TriggerJob(d, j)
       => rows' = rows /\ overwritten' = overwritten
  BY DEF TimePasses, Stop, Crash, Ends, RefreshTimers, RefreshMissed, RunNow, Start, RunDueJobs, Publish,
         TriggerJob
<1> HIDE DEF Fit
<1>13. QED
  BY <1>4, <1>7, <1>8, <1>9, <1>10, <1>11, <1>12, CronActions, Zenon

\* A manual run that goes on, or ends, keeps what it holds.
LEMMA ManualWorkKept ==
  ASSUME CronTyped, CronTyped', Counted, Grown, NEW d \in Daemons, ManualWork(d),
         exec'[d]["manual"] # Idle =>
           /\ exec[d]["manual"] # Idle
           /\ exec'[d]["manual"].of = exec[d]["manual"].of
           /\ exec'[d]["manual"].started = exec[d]["manual"].started
           /\ exec[d]["manual"].of.job \notin overwritten' => exec[d]["manual"].of.job \notin overwritten
  PROVE  ManualWork(d)'
<1>1. CASE exec'[d]["manual"] = Idle
  BY <1>1 DEF ManualWork
<1>2. CASE exec'[d]["manual"] # Idle
  <2> DEFINE x == exec[d]["manual"]
  <2>1. /\ x.of.next \in Nat \cup {Never} /\ x.started \in Nat /\ x.of.schedule \in Schedules
    BY <1>2, LaneIs, ExecutingIs DEF Lanes
  <2>2. Reach <= Reach' /\ Reach \in Nat /\ Reach' \in Nat
    BY <2>1, ReachGrows
  <2>3. now \in Nat /\ now' \in Nat /\ now <= now'
    BY DEF CronTyped, Grown
  <2>4. /\ x.started <= now /\ (x.of.next # Never => x.of.next <= Reach)
        /\ x.of.job \notin overwritten => Fits(x.of.schedule, x.of.next, x.started)
    BY <1>2 DEF ManualWork
  <2> HIDE DEF x, Reach
  <2>5. x.started <= now' /\ (x.of.next # Never => x.of.next <= Reach')
    BY <2>1, <2>2, <2>3, <2>4
  <2>6. QED
    BY <1>2, <2>4, <2>5 DEF ManualWork, x
<1>3. QED
  BY <1>1, <1>2

\* A manual run starts with the row as it is.
LEMMA ManualWorkStep ==
  ASSUME CronTyped, CronTyped', Counted, Grown, DueWork, Dated, CronNext, NEW d \in Daemons
  PROVE  ManualWork(d)'
<1> USE DEF processes, messages, history
<1> HIDE DEF Reach, Slack
<1>0. ManualWork(d)
  BY DEF Dated
<1>1. ASSUME exec'[d]["manual"] = exec[d]["manual"] \/ exec'[d]["manual"] = Idle,
             overwritten \subseteq overwritten'
      PROVE  ManualWork(d)'
  BY <1>0, <1>1, ManualWorkKept
<1>2. CASE Crash
  <2>1. exec'[d]["manual"] = exec[d]["manual"] \/ exec'[d]["manual"] = Idle
    BY <1>2 DEF Crash, CronTyped, Lanes
  <2>2. QED
    BY <1>1, <1>2, <2>1 DEF Crash, Ends
<1>3. ASSUME NEW j \in Jobs, NEW s \in Schedules, NEW e \in BOOLEAN, dbUpdateCronJob(j, s, e)
      PROVE  ManualWork(d)'
  <2>1. exec' = exec /\ overwritten' = overwritten \ ({j} \ Executed)
    BY <1>3 DEF dbUpdateCronJob, Writes
  <2>2. exec[d]["manual"] # Idle => exec[d]["manual"].of.job \in Executed
    BY LaneIs DEF Executed, Lanes
  <2>3. QED
    BY <1>0, <2>1, <2>2, ManualWorkKept
<1>4. ASSUME NEW e \in Daemons, RunDueJobs(e)
      PROVE  ManualWork(d)'
  <2>1. exec'[d]["manual"] = exec[d]["manual"] /\ overwritten' = overwritten
    BY <1>4, LoopsUntouched DEF RunDueJobs
  <2>2. QED
    BY <1>1, <2>1
<1>5. ASSUME NEW e \in Daemons, NEW l \in Lanes, NEW stored \in BOOLEAN,
             NEW answer \in {"answered", "refused"}, Publish(e, l, stored, answer)
      PROVE  ManualWork(d)'
  <2>1. overwritten' = overwritten /\ Answered(e, l, answer)
    BY <1>5, PublishUntouched DEF Publish
  <2>2. CASE <<d, "manual">> = <<e, l>>
    BY <1>0, <2>1, <2>2, ManualWorkKept DEF Answered
  <2>3. CASE <<d, "manual">> # <<e, l>>
    BY <1>1, <2>1, <2>3 DEF Answered, Lanes
  <2>4. QED
    BY <2>2, <2>3
<1>6. ASSUME NEW e \in Daemons, NEW l \in Lanes, Settle(e, l)
      PROVE  ManualWork(d)'
  <2>1. overwritten \subseteq overwritten'
    BY <1>6 DEF Settle
  <2>2. exec'[d]["manual"] = exec[d]["manual"] \/ exec'[d]["manual"] = Idle
    <3>1. CASE l = "timer"
      BY <1>6, <3>1, LoopsUntouched DEF Settle
    <3>2. CASE l = "manual"
      BY <1>6, <3>2 DEF Settle, CronTyped, Lanes
    <3>3. QED
      BY <3>1, <3>2 DEF Lanes
  <2>3. QED
    BY <1>1, <2>1, <2>2
<1>7. ASSUME NEW e \in Daemons, NEW j \in Jobs, TriggerJob(e, j)
      PROVE  ManualWork(d)'
  <2>1. overwritten' = overwritten /\ now' = now
    BY <1>7 DEF TriggerJob
  <2>2. CASE exec'[d]["manual"] = exec[d]["manual"]
    BY <1>1, <2>1, <2>2
  <2>3. CASE exec'[d]["manual"] # exec[d]["manual"]
    <3>1. d = e /\ Present(j)
          /\ exec'[d]["manual"] = [at |-> "publishing", of |-> Read(j), started |-> now]
      BY <1>7, <2>3 DEF TriggerJob, CronTyped, Lanes
    <3>2. /\ rows[j].next # Never => rows[j].next <= Reach
          /\ j \notin overwritten => Fits(rows[j].schedule, rows[j].next, now)
      BY <3>1 DEF Dated, NearRows, FitRows, FitsRow
    <3>3. /\ Read(j).job = j /\ Read(j).schedule = rows[j].schedule /\ Read(j).next = rows[j].next
          /\ rows[j].schedule \in Schedules /\ rows[j].next \in Nat \cup {Never}
      BY <3>1, RowIs
    <3>4. Reach <= Reach' /\ Reach \in Nat /\ Reach' \in Nat /\ now \in Nat
      BY <3>3, ReachGrows DEF CronTyped
    <3>5. rows[j].next # Never => rows[j].next <= Reach'
      BY <3>2, <3>3, <3>4
    <3>6. LET x == exec'[d]["manual"]
          IN /\ x.started = now /\ x.of.next = rows[j].next /\ x.of.job = j
             /\ x.of.schedule = rows[j].schedule
      BY <3>1, <3>3
    <3>7. QED
      BY <2>1, <3>2, <3>4, <3>5, <3>6 DEF ManualWork
  <2>4. QED
    BY <2>2, <2>3
<1>8. \/ TimePasses \/ Stop \/ RefreshTimers \/ RefreshMissed
      \/ \E j \in Jobs, s \in Schedules : dbCreateCronJob(j, s)
      \/ \E j \in Jobs : Disable(j) \/ dbDeleteCronJob(j) \/ RunNow(j)
      \/ \E e \in Daemons : Start(e)
      => exec' = exec /\ overwritten' = overwritten
  BY DEF TimePasses, Stop, Ends, RefreshTimers, RefreshMissed, dbCreateCronJob, Disable, dbDeleteCronJob,
         RunNow, Start, Writes
<1>9. exec' = exec /\ overwritten' = overwritten => ManualWork(d)'
  BY <1>1
<1>10. QED
  BY <1>2, <1>3, <1>4, <1>5, <1>6, <1>7, <1>8, <1>9, CronActions, Zenon

\* A timer that has been armed fires within reach.
LEMMA ArmedNear ==
  ASSUME CronTyped, CronTyped', Counted, Grown, NearRows', now' = now, timer' = NextDue(rows')
  PROVE  NearTimer'
<1>1. SUFFICES ASSUME timer' # Never
               PROVE  Schedules # {} /\ timer' <= Reach'
  BY DEF NearTimer
<1>2. now \in Nat /\ rows' \in Tables
  BY DEF CronTyped
<1>3. timer' \in Nat
  BY <1>1 DEF CronTyped
<1>4. PICK j \in Jobs : /\ rows'[j] \notin {NotYet, Gone} /\ rows'[j].enabled /\ rows'[j].next # Never
                        /\ timer' <= Max({now, rows'[j].next})
  BY <1>1, <1>2, NextDueIs
<1>5. rows'[j].next \in Nat /\ rows'[j].schedule \in Schedules
  BY <1>2, <1>4 DEF Tables, RowOf
<1>6. rows'[j].next <= Reach'
  BY <1>4 DEF NearRows, Present
<1>7. now' <= Reach' /\ Reach' \in Nat
  BY <1>5, ReachGrows
<1>8. Max({now, rows'[j].next}) = IF now >= rows'[j].next THEN now ELSE rows'[j].next
  BY <1>2, <1>5, MaxOfTwo
<1> HIDE DEF Reach
<1>9. QED
  BY <1>2, <1>3, <1>4, <1>5, <1>6, <1>7, <1>8

\* The timer is armed for a time within reach.
LEMMA NearTimerStep ==
  ASSUME CronTyped, CronTyped', Counted, Grown, Dated, NearRows', CronNext
  PROVE  NearTimer'
<1> USE DEF processes, messages, history
<1> HIDE DEF Reach, Slack
<1>1. ASSUME timer' = timer \/ timer' = Never
      PROVE  NearTimer'
  <2>1. CASE timer' = Never
    BY <2>1 DEF NearTimer
  <2>2. CASE timer' = timer /\ timer # Never
    <3>1. Schedules # {} /\ timer <= Reach /\ timer \in Nat
      BY <2>2 DEF Dated, NearTimer, CronTyped
    <3>2. Reach <= Reach' /\ Reach \in Nat /\ Reach' \in Nat
      BY <3>1, ReachGrows
    <3>3. QED
      BY <2>2, <3>1, <3>2 DEF NearTimer
  <2>3. QED
    BY <1>1, <2>1, <2>2
<1>2. ASSUME NEW d \in Daemons, NEW rest, NEW r, Loops(d, rest, r), r = rows', now' = now
      PROVE  NearTimer'
  BY <1>1, <1>2, LoopsIs, ArmedNear DEF GoesOn, Finishes, ArmTimer
<1>3. CASE RefreshTimers \/ \E d \in Daemons : Start(d)
  BY <1>3, ArmedNear DEF RefreshTimers, Start, ArmTimer
<1>4. ASSUME NEW d \in Daemons, RunDueJobs(d)
      PROVE  NearTimer'
  BY <1>1, <1>2, <1>4 DEF RunDueJobs
<1>5. ASSUME NEW d \in Daemons, NEW l \in Lanes, Settle(d, l)
      PROVE  NearTimer'
  <2>1. CASE l = "timer"
    <3>1. Loops(d, todo[d], rows') /\ now' = now
      BY <1>5, <2>1 DEF Settle
    <3>2. QED
      BY <1>2, <3>1
  <2>2. CASE l # "timer"
    BY <1>1, <1>5, <2>2 DEF Settle
  <2>3. QED
    BY <2>1, <2>2
<1>6. \/ TimePasses \/ Stop \/ Crash \/ RefreshMissed
      \/ \E j \in Jobs, s \in Schedules : dbCreateCronJob(j, s)
      \/ \E j \in Jobs, s \in Schedules, e \in BOOLEAN : dbUpdateCronJob(j, s, e)
      \/ \E j \in Jobs : Disable(j) \/ dbDeleteCronJob(j) \/ RunNow(j)
      \/ \E d \in Daemons, l \in Lanes, stored \in BOOLEAN, answer \in {"answered", "refused"} :
           Publish(d, l, stored, answer)
      \/ \E d \in Daemons, j \in Jobs : TriggerJob(d, j)
      => timer' = timer \/ timer' = Never
  BY DEF TimePasses, Stop, Crash, Ends, RefreshMissed, dbCreateCronJob, dbUpdateCronJob, Disable,
         dbDeleteCronJob, RunNow, Publish, TriggerJob, Writes
<1>7. QED
  BY <1>1, <1>3, <1>4, <1>5, <1>6, CronActions, Zenon

\* The first rows are within reach and fit.
LEMMA DatedInit == CronInit => Dated
BY DEF CronInit, Dated, NearRows, FitRows, NearTimer, ManualWork, Present, Lanes

\* Every step keeps the times of rows, manual runs and timers within reach.
LEMMA DatedStep ==
  ASSUME CronTyped, CronTyped', Counted, Grown, DueWork, Dated, CronNext
  PROVE  Dated'
<1>1. NearRows' /\ FitRows'
  BY NearRowsStep, FitRowsStep
<1>2. NearTimer'
  BY <1>1, NearTimerStep
<1>3. \A d \in Daemons : ManualWork(d)'
  BY ManualWorkStep
<1>4. QED
  BY <1>1, <1>2, <1>3 DEF Dated

------------------------------------------------------------------------------
(* What has been published                                                  *)

\* What a daemon that no longer leads is still executing may fire again.
LeftBehind ==
  \A d \in Daemons, l \in Lanes :
    d # leader /\ exec[d][l] # Idle => exec[d][l].of.job \in again

\* Nothing is published before its time.
FiredBy == \A j \in Jobs : fired[j] # Never => fired[j] <= now /\ Schedules # {}

\* The leader has published the run time of j, and has not yet written the next one.
Answers(d, j) ==
  /\ d = leader /\ exec[d]["timer"] # Idle /\ exec[d]["timer"].at # "publishing"
  /\ exec[d]["timer"].of.job = j /\ exec[d]["timer"].of.next = fired[j]

\* The run time in the row of j is later than the last one that was published.
RowAhead(j) ==
  j \notin again /\ Present(j) /\ rows[j].next # Never /\ fired[j] # Never =>
    fired[j] < rows[j].next \/ \E d \in Daemons : Answers(d, j)

\* So is what the leader has read and not yet published.
WorkAhead(d) ==
  d = leader =>
    /\ exec[d]["timer"] # Idle =>
         LET x == exec[d]["timer"]
         IN x.of.job \notin again /\ fired[x.of.job] # Never =>
              fired[x.of.job] <= x.of.next /\ (x.at = "publishing" => fired[x.of.job] < x.of.next)
    /\ \A s \in todo[d] : s.job \notin again /\ fired[s.job] # Never => fired[s.job] < s.next

Ahead ==
  /\ overwritten \subseteq again /\ LeftBehind /\ FiredBy
  /\ \A j \in Jobs : RowAhead(j)
  /\ \A d \in Daemons : WorkAhead(d)

\* At the start nothing has been published.
LEMMA AheadInit == CronInit => Ahead
BY DEF CronInit, Ahead, LeftBehind, FiredBy, RowAhead, WorkAhead, Present, Lanes

\* The history only grows.
LEMMA AgainGrows ==
  ASSUME CronTyped, CronNext, overwritten \subseteq again
  PROVE  again \subseteq again' /\ overwritten' \subseteq again'
<1> USE DEF processes, messages, history
<1>1. \/ \E j \in Jobs, s \in Schedules : dbCreateCronJob(j, s)
      \/ \E j \in Jobs, s \in Schedules, e \in BOOLEAN : dbUpdateCronJob(j, s, e)
      \/ \E j \in Jobs : Disable(j) \/ dbDeleteCronJob(j) \/ RunNow(j)
      => again' = again /\ overwritten' \subseteq overwritten
  BY DEF dbCreateCronJob, dbUpdateCronJob, Disable, dbDeleteCronJob, RunNow, Writes
<1>2. \/ TimePasses \/ RefreshTimers \/ RefreshMissed
      \/ \E d \in Daemons : Start(d) \/ RunDueJobs(d)
      \/ \E d \in Daemons, l \in Lanes, stored \in BOOLEAN, answer \in {"answered", "refused"} :
           Publish(d, l, stored, answer)
      \/ \E d \in Daemons, j \in Jobs : TriggerJob(d, j)
      => again' = again /\ overwritten' = overwritten
  BY DEF TimePasses, RefreshTimers, RefreshMissed, Start, RunDueJobs, Publish, TriggerJob
<1>3. Stop \/ Crash => again \subseteq again' /\ overwritten' = overwritten
  BY DEF Stop, Crash, Ends
<1>4. (\E d \in Daemons, l \in Lanes : Settle(d, l)) =>
        again \subseteq again' /\ overwritten' \subseteq overwritten \cup again'
  BY DEF Settle
<1>5. QED
  BY <1>1, <1>2, <1>3, <1>4, CronActions

\* Who is no longer the leader may only repeat what is recorded as such.
LEMMA LeftBehindKept ==
  ASSUME LeftBehind, again \subseteq again',
         NEW d \in Daemons, NEW l \in Lanes, d # leader', exec'[d][l] # Idle,
         \/ exec'[d][l].of.job \in again'
         \/ d # leader /\ exec[d][l] # Idle /\ exec'[d][l].of = exec[d][l].of
  PROVE  exec'[d][l].of.job \in again'
BY DEF LeftBehind

\* Losing the lease records what is still being executed.
LEMMA LeftBehindStep ==
  ASSUME CronTyped, CronTyped', Ahead, CronNext
  PROVE  LeftBehind'
<1> USE DEF processes, messages, history
<1>0. LeftBehind /\ again \subseteq again'
  BY AgainGrows DEF Ahead
<1>1. SUFFICES ASSUME NEW d \in Daemons, NEW l \in Lanes, d # leader', exec'[d][l] # Idle
               PROVE  exec'[d][l].of.job \in again'
  BY DEF LeftBehind
<1>2. ASSUME leader' = leader, exec'[d][l] = exec[d][l]
      PROVE  exec'[d][l].of.job \in again'
  BY <1>0, <1>1, <1>2, LeftBehindKept
<1>3. ASSUME Ends, leader # Nobody, exec'[d][l] = exec[d][l]
      PROVE  exec'[d][l].of.job \in again'
  <2>1. CASE d = leader
    BY <1>1, <1>3, <2>1 DEF Ends
  <2>2. CASE d # leader
    BY <1>0, <1>1, <1>3, <2>2, LeftBehindKept
  <2>3. QED
    BY <2>1, <2>2
<1>4. CASE Stop
  BY <1>3, <1>4 DEF Stop
<1>5. CASE Crash
  <2>1. CASE d = leader
    BY <1>1, <1>5, <2>1 DEF Crash, CronTyped
  <2>2. CASE d # leader
    <3>1. exec'[d][l] = exec[d][l]
      BY <1>5, <2>2 DEF Crash, CronTyped
    <3>2. QED
      BY <1>3, <1>5, <3>1 DEF Crash
  <2>3. QED
    BY <2>1, <2>2
<1>6. ASSUME NEW e \in Daemons, Start(e)
      PROVE  exec'[d][l].of.job \in again'
  <2>1. d # leader /\ exec' = exec
    BY <1>6, CronAssumption DEF Start
  <2>2. QED
    BY <1>0, <1>1, <2>1, LeftBehindKept
<1>7. ASSUME NEW e \in Daemons, RunDueJobs(e)
      PROVE  exec'[d][l].of.job \in again'
  <2>1. leader = e /\ leader' = leader
    BY <1>7 DEF RunDueJobs, TimerIsUp
  <2>2. exec'[d][l] = exec[d][l]
    BY <1>1, <1>7, <2>1, LoopsUntouched DEF RunDueJobs
  <2>3. QED
    BY <1>2, <2>1, <2>2
<1>8. ASSUME NEW e \in Daemons, NEW k \in Lanes, NEW stored \in BOOLEAN,
             NEW answer \in {"answered", "refused"}, Publish(e, k, stored, answer)
      PROVE  exec'[d][l].of.job \in again'
  <2>1. leader' = leader /\ Answered(e, k, answer)
    BY <1>8, PublishUntouched DEF Publish
  <2>2. CASE <<d, l>> = <<e, k>>
    BY <1>0, <1>1, <2>1, <2>2, LeftBehindKept DEF Answered
  <2>3. CASE <<d, l>> # <<e, k>>
    BY <1>2, <2>1, <2>3 DEF Answered
  <2>4. QED
    BY <2>2, <2>3
<1>9. ASSUME NEW e \in Daemons, NEW k \in Lanes, Settle(e, k)
      PROVE  exec'[d][l].of.job \in again'
  <2>1. leader' = leader
    BY <1>9 DEF Settle
  <2>2. CASE k = "manual"
    <3>1. exec' = [exec EXCEPT ![e]["manual"] = Idle]
      BY <1>9, <2>2 DEF Settle
    <3>2. exec'[d][l] = exec[d][l]
      BY <1>1, <3>1 DEF CronTyped, Lanes
    <3>3. QED
      BY <1>2, <2>1, <3>2
  <2>3. CASE k = "timer"
    <3>1. Loops(e, todo[e], rows')
      BY <1>9, <2>3 DEF Settle
    <3>2. CASE d # e \/ l = "manual"
      BY <1>2, <2>1, <3>1, <3>2, LoopsUntouched
    <3>3. CASE d = e /\ l = "timer"
      <4>1. leader # e
        BY <1>1, <2>1, <3>3
      <4>2. exec'[d][l] = Idle
        BY <3>1, <3>3, <4>1 DEF Loops, CronTyped, Lanes
      <4>3. QED
        BY <1>1, <4>2
    <3>4. QED
      BY <3>2, <3>3 DEF Lanes
  <2>4. QED
    BY <2>2, <2>3 DEF Lanes
<1>10. ASSUME NEW e \in Daemons, NEW j \in Jobs, TriggerJob(e, j)
       PROVE  exec'[d][l].of.job \in again'
  <2>1. leader = e /\ leader' = leader
    BY <1>10 DEF TriggerJob
  <2>2. exec'[d][l] = exec[d][l]
    BY <1>1, <1>10, <2>1 DEF TriggerJob, CronTyped
  <2>3. QED
    BY <1>2, <2>1, <2>2
<1>11. \/ TimePasses \/ RefreshTimers \/ RefreshMissed
       \/ \E j \in Jobs, s \in Schedules : dbCreateCronJob(j, s)
       \/ \E j \in Jobs, s \in Schedules, e \in BOOLEAN : dbUpdateCronJob(j, s, e)
       \/ \E j \in Jobs : Disable(j) \/ dbDeleteCronJob(j) \/ RunNow(j)
       => exec' = exec /\ leader' = leader
  BY DEF TimePasses, RefreshTimers, RefreshMissed, dbCreateCronJob, dbUpdateCronJob, Disable,
         dbDeleteCronJob, RunNow, Writes
<1>12. exec' = exec /\ leader' = leader => exec'[d][l].of.job \in again'
  BY <1>2
<1>13. QED
  BY <1>4, <1>5, <1>6, <1>7, <1>8, <1>9, <1>10, <1>11, <1>12, CronActions, Zenon

\* what a publication by the timer of d adds to the history, if anything
LEMMA FiredIs ==
  ASSUME CronTyped, NEW d \in Daemons, NEW l \in Lanes, NEW stored \in BOOLEAN,
         NEW answer \in {"answered", "refused"}, Publish(d, l, stored, answer)
  PROVE  \/ fired' = fired
         \/ /\ l = "timer" /\ exec[d][l].of.job \in Jobs
            /\ fired' = [fired EXCEPT ![exec[d][l].of.job] = exec[d][l].of.next]
BY BusyIs, LaneIs DEF Publish

\* Only a publication says that a run time was published.
LEMMA FiredUnlessPublished ==
  ASSUME CronTyped, CronNext
  PROVE  \/ fired' = fired
         \/ \E d \in Daemons, l \in Lanes, stored \in BOOLEAN, answer \in {"answered", "refused"} :
              Publish(d, l, stored, answer)
<1> USE DEF processes, messages, history
<1>1. \/ TimePasses \/ Stop \/ Crash \/ RefreshTimers \/ RefreshMissed
      \/ \E j \in Jobs, s \in Schedules : dbCreateCronJob(j, s)
      \/ \E j \in Jobs, s \in Schedules, e \in BOOLEAN : dbUpdateCronJob(j, s, e)
      \/ \E j \in Jobs : Disable(j) \/ dbDeleteCronJob(j) \/ RunNow(j)
      \/ \E d \in Daemons : Start(d) \/ RunDueJobs(d)
      \/ \E d \in Daemons, l \in Lanes : Settle(d, l)
      \/ \E d \in Daemons, j \in Jobs : TriggerJob(d, j)
      => fired' = fired
  BY DEF TimePasses, Stop, Crash, Ends, RefreshTimers, RefreshMissed, dbCreateCronJob, dbUpdateCronJob,
         Disable, dbDeleteCronJob, RunNow, Start, RunDueJobs, Settle, TriggerJob, Writes
<1>2. QED
  BY <1>1, CronActions, Zenon

\* What has been published was due by now.
LEMMA FiredByStep ==
  ASSUME CronTyped, CronTyped', Grown, DueWork, Ahead, CronNext
  PROVE  FiredBy'
<1>1. now \in Nat /\ now' \in Nat /\ now <= now' /\ FiredBy /\ \A j \in Jobs : fired[j] \in Nat \cup {Never}
  BY DEF CronTyped, Grown, Ahead
<1>2. CASE fired' = fired
  BY <1>1, <1>2 DEF FiredBy
<1>3. ASSUME NEW d \in Daemons, NEW l \in Lanes, NEW stored \in BOOLEAN,
             NEW answer \in {"answered", "refused"}, Publish(d, l, stored, answer)
      PROVE  FiredBy'
  <2>1. CASE fired' = fired
    BY <1>2, <2>1
  <2>2. CASE /\ l = "timer" /\ exec[d][l].of.job \in Jobs
             /\ fired' = [fired EXCEPT ![exec[d][l].of.job] = exec[d][l].of.next]
    <3>1. exec[d]["timer"] \in Executing /\ exec[d]["timer"] # Idle
      BY <1>3, <2>2, BusyIs, LaneIs DEF Publish
    <3>2. LET x == exec[d]["timer"]
          IN x.of.next # Never /\ x.of.next <= x.started /\ x.started <= now
      BY <3>1 DEF DueWork, TimerWork, DueExecution
    <3>3. exec[d]["timer"].of.next \in Nat /\ exec[d]["timer"].started \in Nat
      BY <3>1, <3>2, ExecutingIs
    <3>4. exec[d]["timer"].of.next <= now'
      BY <1>1, <3>2, <3>3
    <3>5. \A j \in Jobs : fired'[j] = fired[j] \/ fired'[j] = exec[d]["timer"].of.next
      BY <2>2 DEF CronTyped
    <3>6. QED
      BY <1>1, <3>1, <3>4, <3>5, ExecutingIs DEF FiredBy
  <2>3. QED
    BY <1>3, <2>1, <2>2, FiredIs
<1>4. QED
  BY <1>2, <1>3, FiredUnlessPublished

\* A row that moves to a later time stays ahead of the last publication.
LEMMA RowAheadKept ==
  ASSUME CronTyped, CronTyped', NEW j \in Jobs, RowAhead(j), j \notin again, Present(j), Present(j)',
         rows[j].next # Never, rows'[j].next # Never, rows[j].next <= rows'[j].next,
         fired[j] # Never, fired'[j] = fired[j],
         \A d \in Daemons : Answers(d, j) => Answers(d, j)'
  PROVE  RowAhead(j)'
<1>1. rows[j].next \in Nat /\ rows'[j].next \in Nat /\ fired[j] \in Nat
  BY DEF CronTyped, Tables, RowOf, Present
<1>2. fired[j] < rows[j].next \/ \E d \in Daemons : Answers(d, j)'
  BY DEF RowAhead
<1> HIDE DEF Answers
<1>3. fired'[j] < rows'[j].next \/ \E d \in Daemons : Answers(d, j)'
  BY <1>1, <1>2
<1>4. QED
  BY <1>3 DEF RowAhead

\* Every step leaves a row ahead of what was published, unless it is recorded.
LEMMA RowAheadStep ==
  ASSUME CronTyped, CronTyped', Grown, DueWork, Dated, Ahead, CronNext, NEW j \in Jobs
  PROVE  RowAhead(j)'
<1> USE DEF processes, messages, history
<1>0. again \subseteq again' /\ overwritten' \subseteq again' /\ RowAhead(j)
      /\ fired[j] \in Nat \cup {Never}
  BY AgainGrows DEF Ahead, CronTyped
<1>1. SUFFICES ASSUME j \notin again', Present(j)', rows'[j].next # Never, fired'[j] # Never
               PROVE  RowAhead(j)'
  BY DEF RowAhead
<1>2. j \notin again /\ rows'[j].next \in Nat /\ fired'[j] \in Nat
  BY <1>0, <1>1 DEF CronTyped, Tables, RowOf, Present
<1>3. ASSUME rows'[j] = rows[j], fired'[j] = fired[j],
             \A d \in Daemons : Answers(d, j) => Answers(d, j)'
      PROVE  RowAhead(j)'
  BY <1>0, <1>1, <1>2, <1>3, RowAheadKept DEF Present
<1>4. ASSUME rows'[j] = rows[j], fired'[j] = fired[j], leader' = leader,
             \A d \in Daemons : d = leader => exec'[d]["timer"] = exec[d]["timer"]
      PROVE  RowAhead(j)'
  BY <1>3, <1>4 DEF Answers
<1>5. ASSUME rows'[j] = rows[j], fired'[j] = fired[j], \A d \in Daemons : ~Answers(d, j)
      PROVE  RowAhead(j)'
  BY <1>3, <1>5
\* the end of a leader
<1>6. ASSUME leader \in Daemons, Ends, exec[leader]["timer"] # Idle
      PROVE  exec[leader]["timer"].of.job \in again'
  BY <1>6 DEF Ends, Lanes
<1>7. CASE Stop \/ Crash
  <2>1. leader \in Daemons /\ Ends
    BY <1>7 DEF Stop, Crash, CronTyped
  <2>2. \A d \in Daemons : ~Answers(d, j)
    BY <1>1, <1>6, <2>1 DEF Answers
  <2>3. rows'[j] = rows[j] /\ fired'[j] = fired[j]
    BY <2>1 DEF Ends
  <2>4. QED
    BY <1>5, <2>2, <2>3
<1>8. ASSUME NEW d \in Daemons, Start(d)
      PROVE  RowAhead(j)'
  <2>1. \A e \in Daemons : ~Answers(e, j)
    BY <1>8, CronAssumption DEF Start, Answers
  <2>2. rows'[j] = rows[j] /\ fired'[j] = fired[j]
    BY <1>8 DEF Start
  <2>3. QED
    BY <1>5, <2>1, <2>2
\* edits
<1>9. ASSUME NEW k \in Jobs, NEW written, Writes(k, written), k # j
      PROVE  RowAhead(j)'
  BY <1>4, <1>9 DEF Writes, CronTyped, Tables
<1>10. ASSUME NEW s \in Schedules, NEW e \in BOOLEAN,
              Writes(j, [schedule |-> s, enabled |-> e, next |-> calculateNextRun(s, now)])
       PROVE  RowAhead(j)'
  <2>1. rows'[j].next = calculateNextRun(s, now) /\ fired' = fired
    BY <1>10 DEF Writes, CronTyped, Tables
  <2>2. rows'[j].next > now /\ now \in Nat
    BY <1>1, <2>1, NextRunIs DEF CronTyped
  <2>3. fired'[j] <= now
    BY <1>1, <2>1 DEF Ahead, FiredBy
  <2>4. fired'[j] < rows'[j].next
    BY <1>2, <2>2, <2>3
  <2>5. QED
    BY <2>4 DEF RowAhead
<1>11. ASSUME NEW k \in Jobs, NEW s \in Schedules, dbCreateCronJob(k, s)
       PROVE  RowAhead(j)'
  BY <1>9, <1>10, <1>11 DEF dbCreateCronJob
<1>12. ASSUME NEW k \in Jobs, NEW s \in Schedules, NEW e \in BOOLEAN, dbUpdateCronJob(k, s, e)
       PROVE  RowAhead(j)'
  BY <1>9, <1>10, <1>12 DEF dbUpdateCronJob
<1>13. ASSUME NEW k \in Jobs, dbDeleteCronJob(k)
       PROVE  RowAhead(j)'
  <2>1. k # j
    BY <1>1, <1>13 DEF dbDeleteCronJob, Writes, CronTyped, Tables, Present
  <2>2. QED
    BY <1>9, <1>13, <2>1 DEF dbDeleteCronJob
<1>14. ASSUME NEW k \in Jobs, Disable(k)
       PROVE  RowAhead(j)'
  <2>1. CASE k # j
    BY <1>9, <1>14, <2>1 DEF Disable
  <2>2. CASE k = j
    <3>1. Present(j) /\ rows' = [rows EXCEPT ![j] = [rows[j] EXCEPT !.enabled = FALSE]]
          /\ fired' = fired /\ leader' = leader /\ exec' = exec
      BY <1>14, <2>2 DEF Disable, Writes
    <3>2. rows'[j].next = rows[j].next
      BY <3>1, RowIs DEF CronTyped, Tables, RowOf
    <3>3. \A d \in Daemons : Answers(d, j) => Answers(d, j)'
      BY <3>1 DEF Answers
    <3>4. QED
      BY <1>0, <1>1, <1>2, <3>1, <3>2, <3>3, RowAheadKept
  <2>3. QED
    BY <2>1, <2>2
\* the runner
<1>15. ASSUME NEW d \in Daemons, RunDueJobs(d)
       PROVE  RowAhead(j)'
  <2>1. rows' = rows /\ fired' = fired /\ leader' = leader /\ leader = d
    BY <1>15 DEF RunDueJobs, TimerIsUp
  <2>2. CASE exec[d]["timer"] = Idle
    BY <1>5, <2>1, <2>2 DEF Answers
  <2>3. CASE exec[d]["timer"] # Idle
    BY <1>4, <1>15, <2>1, <2>3 DEF RunDueJobs
  <2>4. QED
    BY <2>2, <2>3
<1>16. ASSUME NEW d \in Daemons, NEW l \in Lanes, NEW stored \in BOOLEAN,
              NEW answer \in {"answered", "refused"}, Publish(d, l, stored, answer)
       PROVE  RowAhead(j)'
  <2>1. rows' = rows /\ leader' = leader /\ Answered(d, l, answer)
    BY <1>16, PublishUntouched DEF Publish
  <2>2. CASE l = "manual"
    <3>1. fired' = fired
      BY <1>16, <2>2, FiredIs
    <3>2. \A e \in Daemons : exec'[e]["timer"] = exec[e]["timer"]
      BY <2>1, <2>2 DEF Answered, Lanes
    <3>3. QED
      BY <1>4, <2>1, <3>1, <3>2
  <2>3. CASE l = "timer" /\ d # leader
    <3>1. exec[d]["timer"].of.job # j
      BY <1>2, <2>1, <2>3 DEF Answered, Ahead, LeftBehind
    <3>2. fired'[j] = fired[j]
      BY <1>16, <2>3, <3>1, FiredIs DEF CronTyped
    <3>3. \A e \in Daemons : e = leader => exec'[e]["timer"] = exec[e]["timer"]
      BY <2>1, <2>3 DEF Answered, Lanes
    <3>4. QED
      BY <1>4, <2>1, <3>2, <3>3
  <2>4. CASE l = "timer" /\ d = leader
    <3>1. \A e \in Daemons : ~Answers(e, j)
      BY <2>1, <2>4 DEF Answered, Answers
    <3>2. CASE fired'[j] = fired[j]
      BY <1>5, <2>1, <3>1, <3>2
    <3>3. CASE fired'[j] # fired[j]
      <4>1. exec[d]["timer"].of.job = j /\ fired'[j] = exec[d]["timer"].of.next
        BY <1>16, <2>4, <3>3, FiredIs DEF CronTyped
      <4>2. /\ exec'[d]["timer"] # Idle /\ exec'[d]["timer"].at # "publishing"
            /\ exec'[d]["timer"].of = exec[d]["timer"].of
        BY <2>1, <2>4 DEF Answered
      <4>3. Answers(d, j)'
        BY <2>1, <2>4, <4>1, <4>2 DEF Answers
      <4>4. QED
        BY <4>3 DEF RowAhead
    <3>4. QED
      BY <3>2, <3>3
  <2>5. QED
    BY <2>2, <2>3, <2>4 DEF Lanes
<1>17. ASSUME NEW d \in Daemons, NEW l \in Lanes, Settle(d, l)
       PROVE  RowAhead(j)'
  <2>0. PICK x \in Executing, k \in Jobs : x = exec[d][l] /\ k = x.of.job /\ x # Idle
    BY <1>17, SettleIs, ExecutingIs
  <2>1. /\ \A i \in Jobs \ {k} : rows'[i] = rows[i]
        /\ rows'[k] = Settled(x) /\ overwritten \subseteq overwritten' /\ again \subseteq again'
        /\ k \notin overwritten' /\ Present(k) => Read(k) = x.of \/ rows'[k] = rows[k]
    BY <1>17, <2>0, SettleIs
  <2>2. fired' = fired /\ leader' = leader
    BY <1>17 DEF Settle
  <2>3. ASSUME l = "manual" \/ d # leader
        PROVE  \A e \in Daemons : e = leader => exec'[e]["timer"] = exec[e]["timer"]
    <3>1. CASE l = "manual"
      BY <1>17, <3>1 DEF Settle, CronTyped, Lanes
    <3>2. CASE l = "timer" /\ d # leader
      <4>1. Loops(d, todo[d], rows')
        BY <1>17, <3>2 DEF Settle
      <4>2. QED
        BY <3>2, <4>1, LoopsUntouched
    <3>3. QED
      BY <2>3, <3>1, <3>2 DEF Lanes
  <2>4. CASE l = "timer" /\ d = leader /\ k # j
    <3>1. \A e \in Daemons : ~Answers(e, j)
      BY <2>0, <2>4 DEF Answers
    <3>2. QED
      BY <1>5, <2>1, <2>2, <2>4, <3>1
  <2>5. CASE l = "timer" /\ d = leader /\ k = j
    <3>1. Present(j) /\ rows'[j] = [rows[j] EXCEPT !.next = After(x)]
      BY <1>1, <2>0, <2>1, <2>5, SettledIs DEF Present
    <3>2. rows'[j].next = After(x)
      BY <3>1, RowIs DEF RowOf
    <3>3. x.of.next # Never /\ x.of.next <= x.started
      BY <2>0, <2>5 DEF DueWork, TimerWork, DueExecution
    <3>4. x.of.next < After(x) /\ x.of.next \in Nat
      BY <1>1, <2>0, <3>2, <3>3, AfterIs, ExecutingIs
    <3>5. fired[j] <= x.of.next
      BY <1>1, <1>2, <2>0, <2>2, <2>5 DEF Ahead, WorkAhead
    <3>6. fired'[j] < rows'[j].next
      BY <1>2, <2>2, <3>2, <3>4, <3>5
    <3>7. QED
      BY <3>6 DEF RowAhead
  <2>6. CASE (l = "manual" \/ d # leader) /\ rows'[j] = rows[j]
    BY <1>4, <2>2, <2>3, <2>6
  <2>7. CASE l = "timer" /\ d # leader /\ k = j
    BY <1>2, <2>0, <2>7 DEF Ahead, LeftBehind
  <2>8. CASE l = "manual" /\ k = j /\ rows'[j] # rows[j]
    <3>1. Present(j) /\ rows'[j] = [rows[j] EXCEPT !.next = After(x)]
      BY <1>1, <2>0, <2>1, <2>8, SettledIs DEF Present
    <3>2. rows'[j].next = After(x)
      BY <3>1, RowIs DEF RowOf
    <3>3. j \notin overwritten' /\ j \notin overwritten /\ Read(j) = x.of
      BY <1>0, <1>1, <2>1, <2>8, <3>1
    <3>4. Fits(x.of.schedule, x.of.next, x.started)
      BY <2>0, <2>8, <3>3 DEF Dated, ManualWork
    <3>5. x.of.next = rows[j].next
      BY <3>1, <3>3, RowIs
    <3>6. rows[j].next # Never /\ rows[j].next <= rows'[j].next
      BY <1>1, <3>2, <3>4, <3>5, AfterIs
    <3>7. \A e \in Daemons : Answers(e, j) => Answers(e, j)'
      BY <2>2, <2>3, <2>8 DEF Answers
    <3>8. QED
      BY <1>0, <1>1, <1>2, <2>2, <3>1, <3>6, <3>7, RowAheadKept
  <2>9. QED
    BY <2>0, <2>1, <2>4, <2>5, <2>6, <2>7, <2>8 DEF Lanes
<1>18. ASSUME NEW d \in Daemons, NEW k \in Jobs, TriggerJob(d, k)
       PROVE  RowAhead(j)'
  <2>1. rows' = rows /\ fired' = fired /\ leader' = leader
        /\ \A e \in Daemons : exec'[e]["timer"] = exec[e]["timer"]
    BY <1>18 DEF TriggerJob, CronTyped, Lanes
  <2>2. QED
    BY <1>4, <2>1
<1>19. \/ TimePasses \/ RefreshTimers \/ RefreshMissed \/ \E k \in Jobs : RunNow(k)
       => rows' = rows /\ fired' = fired /\ leader' = leader /\ exec' = exec
  BY DEF TimePasses, RefreshTimers, RefreshMissed, RunNow
<1>20. rows' = rows /\ fired' = fired /\ leader' = leader /\ exec' = exec => RowAhead(j)'
  BY <1>4
<1>21. QED
  BY <1>7, <1>8, <1>11, <1>12, <1>13, <1>14, <1>15, <1>16, <1>17, <1>18, <1>19, <1>20, CronActions, Zenon

\* The timer goes on only with rows ahead of the last publication.
LEMMA LoopsAhead ==
  ASSUME CronTyped, CronTyped', NEW d \in Daemons, NEW rest \in SUBSET SnapshotOf, NEW r,
         AllDue(rest, now), Loops(d, rest, r), again \subseteq again', fired' = fired,
         \A s \in rest : s.job \notin again /\ fired[s.job] # Never => fired[s.job] < s.next
  PROVE  WorkAhead(d)'
<1>1. CASE GoesOn(d, rest)
  <2>1. PICK s \in rest :
          /\ todo' = [todo EXCEPT ![d] = rest \ {s}]
          /\ exec' = [exec EXCEPT ![d]["timer"] = [at |-> "publishing", of |-> s, started |-> now]]
    BY <1>1 DEF GoesOn
  <2>2. todo'[d] = rest \ {s}
    BY <2>1 DEF CronTyped
  <2>3. exec'[d]["timer"] = [at |-> "publishing", of |-> s, started |-> now]
    BY <2>1 DEF CronTyped, Lanes
  <2>4. s.job \in Jobs /\ s.next \in Nat /\ fired[s.job] \in Nat \cup {Never}
    BY DEF AllDue, SnapshotOf, CronTyped
  <2>5. s.job \notin again' /\ fired[s.job] # Never =>
          fired[s.job] < s.next /\ fired[s.job] <= s.next
    BY <2>4
  <2>6. \A t \in todo'[d] : t.job \notin again' /\ fired'[t.job] # Never => fired'[t.job] < t.next
    BY <2>2
  <2>7. exec'[d]["timer"].of = s
    BY <2>3
  <2>8. QED
    BY <2>5, <2>6, <2>7 DEF WorkAhead
<1>2. CASE Finishes(d, r)
  <2>1. todo'[d] = {} /\ exec'[d]["timer"] = Idle
    BY <1>2 DEF Finishes, CronTyped, Lanes
  <2>2. QED
    BY <2>1 DEF WorkAhead
<1>3. QED
  BY <1>1, <1>2, LoopsIs

\* So every step leaves it with such rows.
LEMMA WorkAheadStep ==
  ASSUME CronTyped, CronTyped', DueWork, Ahead, CronNext, NEW d \in Daemons
  PROVE  WorkAhead(d)'
<1> USE DEF processes, messages, history
<1>0. again \subseteq again' /\ WorkAhead(d)
  BY AgainGrows DEF Ahead
<1>1. SUFFICES ASSUME d = leader'
               PROVE  WorkAhead(d)'
  BY DEF WorkAhead
<1>2. ASSUME leader' = leader, fired' = fired, todo'[d] = todo[d], exec'[d]["timer"] = exec[d]["timer"]
      PROVE  WorkAhead(d)'
  BY <1>0, <1>1, <1>2 DEF WorkAhead
<1>3. Stop \/ Crash => leader' = Nobody
  BY DEF Stop, Crash, Ends
<1>4. ASSUME NEW e \in Daemons, Start(e)
      PROVE  WorkAhead(d)'
  <2>1. e = d /\ exec[d] = [l \in Lanes |-> Idle] /\ exec' = exec /\ todo' = todo
    BY <1>1, <1>4 DEF Start
  <2>2. exec'[d]["timer"] = Idle /\ todo'[d] = {}
    BY <2>1 DEF DueWork, TimerWork, Lanes
  <2>3. QED
    BY <2>2 DEF WorkAhead
<1>5. ASSUME NEW e \in Daemons, RunDueJobs(e)
      PROVE  WorkAhead(d)'
  <2>1. e = d /\ fired' = fired /\ leader' = leader
    BY <1>1, <1>5 DEF RunDueJobs, TimerIsUp
  <2>2. CASE exec[d]["timer"] = Idle
    <3>1. Loops(d, dbGetDueJobs, rows)
      BY <1>5, <2>1, <2>2 DEF RunDueJobs
    <3>2. AllDue(dbGetDueJobs, now) /\ dbGetDueJobs \in SUBSET SnapshotOf
      BY DueJobsAre DEF AllDue
    <3>3. ASSUME NEW s \in dbGetDueJobs, s.job \notin again, fired[s.job] # Never
          PROVE  fired[s.job] < s.next
      <4>1. s.job \in Jobs /\ Present(s.job) /\ rows[s.job].next # Never /\ s = Read(s.job)
        BY DueJobsAre DEF Scheduled
      <4>2. s.next = rows[s.job].next
        BY <4>1, RowIs
      <4>3. \A f \in Daemons : ~Answers(f, s.job)
        BY <1>1, <2>1, <2>2 DEF Answers
      <4>4. QED
        BY <3>3, <4>1, <4>2, <4>3 DEF Ahead, RowAhead
    <3>4. QED
      BY <1>0, <2>1, <3>1, <3>2, <3>3, LoopsAhead
  <2>3. CASE exec[d]["timer"] # Idle
    BY <1>2, <1>5, <2>1, <2>3 DEF RunDueJobs
  <2>4. QED
    BY <2>2, <2>3
<1>6. ASSUME NEW e \in Daemons, NEW l \in Lanes, NEW stored \in BOOLEAN,
             NEW answer \in {"answered", "refused"}, Publish(e, l, stored, answer)
      PROVE  WorkAhead(d)'
  <2>1. leader' = leader /\ again' = again /\ todo' = todo /\ Answered(e, l, answer)
    BY <1>6, PublishUntouched DEF Publish
  <2>2. CASE l = "manual"
    <3>1. fired' = fired /\ exec'[d]["timer"] = exec[d]["timer"]
      BY <1>6, <2>1, <2>2, FiredIs DEF Answered, Lanes
    <3>2. QED
      BY <1>2, <2>1, <3>1
  <2>3. CASE l = "timer" /\ e # d
    <3>1. exec'[d]["timer"] = exec[d]["timer"]
      BY <2>1, <2>3 DEF Answered, Lanes
    <3>2. exec[e]["timer"].of.job \in again
      BY <1>1, <2>1, <2>3 DEF Answered, Ahead, LeftBehind
    <3>3. \A j \in Jobs \ again : fired'[j] = fired[j]
      BY <1>6, <2>3, <3>2, FiredIs DEF CronTyped
    <3>4. \A s \in todo[d] : s.job \in Jobs
      BY DEF CronTyped, SnapshotOf
    <3>5. exec[d]["timer"] # Idle => exec[d]["timer"].of.job \in Jobs
      BY LaneIs DEF Lanes
    <3>6. QED
      BY <1>0, <1>1, <2>1, <3>1, <3>3, <3>4, <3>5 DEF WorkAhead
  <2>4. CASE l = "timer" /\ e = d
    <3> DEFINE x == exec[d]["timer"]
    <3>1. /\ x \in Executing /\ x.at = "publishing" /\ x # Idle /\ x.of.job \in Jobs
          /\ x.of.next \in Nat \cup {Never} /\ fired[x.of.job] \in Nat \cup {Never}
      BY <2>1, <2>4, ExecutingIs DEF Answered, CronTyped
    <3>2. exec'[d]["timer"] # Idle /\ exec'[d]["timer"].of = x.of /\ exec'[d]["timer"].at # "publishing"
      BY <2>1, <2>4 DEF Answered
    <3>3. x.of.next # Never
      BY <3>1 DEF DueWork, TimerWork, DueExecution
    <3>4. x.of.job \notin again /\ fired[x.of.job] # Never => fired[x.of.job] <= x.of.next
      BY <1>0, <1>1, <2>1, <3>1 DEF WorkAhead
    <3>5. fired' = fired \/ fired' = [fired EXCEPT ![x.of.job] = x.of.next]
      BY <1>6, <2>4, FiredIs
    <3>6. fired'[x.of.job] = fired[x.of.job] \/ fired'[x.of.job] = x.of.next
      BY <3>1, <3>5 DEF CronTyped
    <3>7. \A s \in todo[d] : s.job # x.of.job /\ s.job \in Jobs
      BY DEF DueWork, TimerWork, CronTyped, SnapshotOf
    <3>8. \A s \in todo[d] : fired'[s.job] = fired[s.job]
      BY <3>5, <3>7 DEF CronTyped
    <3>9. x.of.job \notin again' /\ fired'[x.of.job] # Never => fired'[x.of.job] <= x.of.next
      BY <2>1, <3>1, <3>3, <3>4, <3>6
    <3> HIDE DEF x
    <3>10. \A s \in todo'[d] : s.job \notin again' /\ fired'[s.job] # Never => fired'[s.job] < s.next
      BY <1>0, <1>1, <2>1, <3>8 DEF WorkAhead
    <3>11. QED
      BY <3>2, <3>9, <3>10 DEF WorkAhead
  <2>5. QED
    BY <2>2, <2>3, <2>4 DEF Lanes
<1>7. ASSUME NEW e \in Daemons, NEW l \in Lanes, Settle(e, l)
      PROVE  WorkAhead(d)'
  <2>1. fired' = fired /\ leader' = leader
    BY <1>7 DEF Settle
  <2>2. CASE l = "timer" /\ e = d
    <3>1. Loops(d, todo[d], rows')
      BY <1>7, <2>2 DEF Settle
    <3>2. AllDue(todo[d], now) /\ todo[d] \in SUBSET SnapshotOf
      BY DEF DueWork, TimerWork, CronTyped
    <3>3. \A s \in todo[d] : s.job \notin again /\ fired[s.job] # Never => fired[s.job] < s.next
      BY <1>0, <1>1, <2>1 DEF WorkAhead
    <3>4. QED
      BY <1>0, <2>1, <3>1, <3>2, <3>3, LoopsAhead
  <2>3. CASE l = "timer" /\ e # d
    <3>1. Loops(e, todo[e], rows')
      BY <1>7, <2>3 DEF Settle
    <3>2. exec'[d] = exec[d] /\ todo'[d] = todo[d]
      BY <2>3, <3>1, LoopsUntouched
    <3>3. QED
      BY <1>2, <2>1, <3>2
  <2>4. CASE l = "manual"
    <3>1. todo' = todo /\ exec'[d]["timer"] = exec[d]["timer"]
      BY <1>7, <2>4 DEF Settle, CronTyped, Lanes
    <3>2. QED
      BY <1>2, <2>1, <3>1
  <2>5. QED
    BY <2>2, <2>3, <2>4 DEF Lanes
<1>8. ASSUME NEW e \in Daemons, NEW j \in Jobs, TriggerJob(e, j)
      PROVE  WorkAhead(d)'
  <2>1. /\ fired' = fired /\ leader' = leader /\ todo' = todo
        /\ exec'[d]["timer"] = exec[d]["timer"]
    BY <1>8 DEF TriggerJob, CronTyped, Lanes
  <2>2. QED
    BY <1>2, <2>1
<1>9. \/ TimePasses \/ RefreshTimers \/ RefreshMissed
      \/ \E j \in Jobs, s \in Schedules : dbCreateCronJob(j, s)
      \/ \E j \in Jobs, s \in Schedules, e \in BOOLEAN : dbUpdateCronJob(j, s, e)
      \/ \E j \in Jobs : Disable(j) \/ dbDeleteCronJob(j) \/ RunNow(j)
      => leader' = leader /\ fired' = fired /\ todo' = todo /\ exec' = exec
  BY DEF TimePasses, RefreshTimers, RefreshMissed, dbCreateCronJob, dbUpdateCronJob, Disable,
         dbDeleteCronJob, RunNow, Writes
<1>10. leader' = leader /\ fired' = fired /\ todo' = todo /\ exec' = exec => WorkAhead(d)'
  BY <1>2
<1>11. leader' = Nobody => WorkAhead(d)'
  BY <1>1, CronAssumption
<1>12. QED
  BY <1>3, <1>4, <1>5, <1>6, <1>7, <1>8, <1>9, <1>10, <1>11, CronActions, Zenon

\* Rows and what was read of them stay ahead of the last publication.
LEMMA AheadStep ==
  ASSUME CronTyped, CronTyped', Grown, DueWork, Dated, Ahead, CronNext
  PROVE  Ahead'
<1>1. overwritten' \subseteq again'
  BY AgainGrows DEF Ahead
<1>2. LeftBehind' /\ FiredBy'
  BY LeftBehindStep, FiredByStep
<1>3. \A j \in Jobs : RowAhead(j)'
  BY RowAheadStep
<1>4. \A d \in Daemons : WorkAhead(d)'
  BY WorkAheadStep
<1>5. QED
  BY <1>1, <1>2, <1>3, <1>4 DEF Ahead

------------------------------------------------------------------------------
(* The timer is never late                                                  *)

\* A timer that has been armed covers every scheduled job.
LEMMA ArmedCovers ==
  ASSUME CronTyped, CronTyped', now' = now, timer' = NextDue(rows')
  PROVE  TimerCoversJobs'
<1>1. now \in Nat /\ rows' \in Tables
  BY DEF CronTyped
<1>2. ASSUME NEW j \in Jobs, Scheduled(j)'
      PROVE  timer' # Never /\ timer' <= Max({now, rows'[j].next})
  BY <1>1, <1>2, NextDueIs DEF Scheduled, Present
<1>3. QED
  BY <1>2 DEF TimerCoversJobs

\* No step leaves a row earlier than the timer that should run it.
LEMMA CoversStep ==
  ASSUME CronTyped, CronTyped', Counted, Grown, DueWork, Dated, TimerCoversJobs, CronNext
  PROVE  TimerCoversJobs'
<1> USE DEF processes, messages, history
<1>1. SUFFICES ASSUME NEW d \in Daemons, d = leader', exec'[d]["timer"] = Idle, ~edited', ~unheard',
                      NEW j \in Jobs, j \notin overwritten', Scheduled(j)', timer' # NextDue(rows') \/ now' # now
               PROVE  timer' # Never /\ timer' <= Max({now', rows'[j].next})
  <2>1. CASE timer' = NextDue(rows') /\ now' = now
    BY <2>1, ArmedCovers
  <2>2. CASE ~(timer' = NextDue(rows') /\ now' = now)
    BY <1>1, <2>2, CronAssumption DEF TimerCoversJobs, CronTyped
  <2>3. QED
    BY <2>1, <2>2
<1>2. /\ now \in Nat /\ now' \in Nat /\ now <= now' /\ timer \in Nat \cup {Never}
      /\ Present(j)' /\ rows'[j].next # Never /\ rows'[j].next \in Nat /\ rows'[j].enabled
  BY <1>1 DEF CronTyped, Grown, Tables, RowOf, Scheduled, Present
\* A row that is scheduled, and whose next run has not moved back
<1>3. ASSUME d = leader, exec[d]["timer"] = Idle, ~edited, ~unheard, timer' = timer,
             j \notin overwritten, Scheduled(j), rows[j].next <= rows'[j].next
      PROVE  timer' # Never /\ timer' <= Max({now', rows'[j].next})
  <2>1. leader # Nobody
    BY <1>3, CronAssumption
  <2>2. timer # Never /\ timer <= Max({now, rows[j].next})
    BY <1>3, <2>1 DEF TimerCoversJobs
  <2>3. rows[j].next \in Nat
    BY <1>3, RowIs DEF Scheduled
  <2>4. Max({now, rows[j].next}) = IF now >= rows[j].next THEN now ELSE rows[j].next
    BY <1>2, <2>3, MaxOfTwo
  <2>5. Max({now', rows'[j].next}) = IF now' >= rows'[j].next THEN now' ELSE rows'[j].next
    BY <1>2, MaxOfTwo
  <2>6. QED
    BY <1>2, <1>3, <2>2, <2>3, <2>4, <2>5
<1>4. ASSUME d = leader, exec[d]["timer"] = Idle, ~edited, ~unheard, timer' = timer,
             j \notin overwritten, rows'[j] = rows[j]
      PROVE  timer' # Never /\ timer' <= Max({now', rows'[j].next})
  <2>1. Scheduled(j) /\ rows[j].next <= rows'[j].next
    BY <1>1, <1>2, <1>4 DEF Scheduled, Present
  <2>2. QED
    BY <1>3, <1>4, <2>1
<1> DEFINE Covered == timer' # Never /\ timer' <= Max({now', rows'[j].next})
<1>5. CASE Stop \/ Crash
  BY <1>1, <1>5, CronAssumption DEF Stop, Crash, Ends
<1>6. ASSUME NEW written, NEW k \in Jobs, Writes(k, written)
      PROVE  FALSE
  BY <1>1, <1>6, CronAssumption DEF Writes
<1>7. CASE \/ \E k \in Jobs, s \in Schedules : dbCreateCronJob(k, s)
           \/ \E k \in Jobs, s \in Schedules, e \in BOOLEAN : dbUpdateCronJob(k, s, e)
           \/ \E k \in Jobs : Disable(k) \/ dbDeleteCronJob(k)
  BY <1>6, <1>7 DEF dbCreateCronJob, dbUpdateCronJob, Disable, dbDeleteCronJob
<1>8. CASE RefreshTimers \/ \E e \in Daemons : Start(e)
  BY <1>1, <1>8 DEF RefreshTimers, Start, ArmTimer
<1>9. CASE RefreshMissed
  BY <1>1, <1>9 DEF RefreshMissed
<1>10. CASE TimePasses \/ \E k \in Jobs : RunNow(k)
  BY <1>1, <1>4, <1>10 DEF TimePasses, RunNow
<1>11. ASSUME NEW e \in Daemons, NEW rest, Loops(e, rest, rows'), now' = now, leader' = leader, e = d
       PROVE  FALSE
  <2>1. CASE GoesOn(e, rest)
    <3>1. PICK s \in rest :
            exec' = [exec EXCEPT ![d]["timer"] = [at |-> "publishing", of |-> s, started |-> now]]
      BY <1>11, <2>1 DEF GoesOn
    <3>2. exec'[d]["timer"] = [at |-> "publishing", of |-> s, started |-> now]
      BY <3>1 DEF CronTyped, Lanes
    <3>3. QED
      BY <1>1, <3>2 DEF Idle
  <2>2. CASE Finishes(e, rows')
    BY <1>1, <1>11, <2>2 DEF Finishes, ArmTimer
  <2>3. QED
    BY <1>11, <2>1, <2>2, LoopsIs
<1>12. ASSUME NEW e \in Daemons, RunDueJobs(e)
       PROVE  FALSE
  <2>1. e = d /\ leader' = leader /\ now' = now /\ rows' = rows
    BY <1>1, <1>12 DEF RunDueJobs, TimerIsUp
  <2>2. exec[d]["timer"] = Idle
    BY <1>1, <1>12, <2>1 DEF RunDueJobs
  <2>3. Loops(e, dbGetDueJobs, rows')
    BY <1>12, <2>1, <2>2 DEF RunDueJobs
  <2>4. QED
    BY <1>11, <2>1, <2>3
<1>13. ASSUME NEW e \in Daemons, NEW l \in Lanes, NEW stored \in BOOLEAN,
              NEW answer \in {"answered", "refused"}, Publish(e, l, stored, answer)
       PROVE  Covered
  <2>1. /\ rows' = rows /\ leader' = leader /\ timer' = timer /\ edited' = edited
        /\ unheard' = unheard /\ overwritten' = overwritten /\ Answered(e, l, answer)
    BY <1>13, PublishUntouched DEF Publish
  <2>2. exec[d]["timer"] = Idle
    BY <1>1, <2>1 DEF Answered, Lanes
  <2>3. QED
    BY <1>1, <1>4, <2>1, <2>2
<1>14. ASSUME NEW e \in Daemons, NEW k \in Jobs, TriggerJob(e, k)
       PROVE  Covered
  <2>1. /\ rows' = rows /\ leader' = leader /\ timer' = timer /\ edited' = edited
        /\ unheard' = unheard /\ overwritten' = overwritten
        /\ exec'[d]["timer"] = exec[d]["timer"]
    BY <1>14 DEF TriggerJob, CronTyped, Lanes
  <2>2. QED
    BY <1>1, <1>4, <2>1
<1>15. ASSUME NEW e \in Daemons, NEW l \in Lanes, Settle(e, l)
       PROVE  Covered
  <2>0. PICK x \in Executing, k \in Jobs : x = exec[e][l] /\ k = x.of.job /\ x # Idle
    BY <1>15, SettleIs, ExecutingIs
  <2>1. /\ \A i \in Jobs \ {k} : rows'[i] = rows[i]
        /\ rows'[k] = Settled(x) /\ overwritten \subseteq overwritten'
        /\ k \notin overwritten' /\ Present(k) => Read(k) = x.of \/ rows'[k] = rows[k]
        /\ now' = now
    BY <1>15, <2>0, SettleIs
  <2>2. leader' = leader /\ edited' = edited
    BY <1>15 DEF Settle
  <2>3. l = "manual" \/ e # d
    <3>1. CASE l = "timer" /\ e = d
      <4>1. Loops(e, todo[e], rows')
        BY <1>15, <3>1 DEF Settle
      <4>2. QED
        BY <1>11, <2>1, <2>2, <3>1, <4>1
    <3>2. QED
      BY <3>1 DEF Lanes
  <2>4. timer' = timer /\ unheard' = unheard /\ exec'[d]["timer"] = exec[d]["timer"]
    <3>1. CASE l = "manual"
      BY <1>15, <3>1 DEF Settle, CronTyped, Lanes
    <3>2. CASE l = "timer" /\ e # d
      <4>1. Loops(e, todo[e], rows')
        BY <1>15, <3>2 DEF Settle
      <4>2. exec'[d] = exec[d]
        BY <3>2, <4>1, LoopsUntouched
      <4>3. timer' = timer /\ unheard' = unheard
        BY <1>1, <2>2, <3>2, <4>1 DEF Loops
      <4>4. QED
        BY <4>2, <4>3
    <3>3. QED
      BY <2>3, <3>1, <3>2 DEF Lanes
  <2>5. j \notin overwritten
    BY <1>1, <2>1
  <2>6. CASE rows'[j] = rows[j]
    BY <1>1, <1>4, <2>2, <2>4, <2>5, <2>6
  <2>7. CASE rows'[j] # rows[j]
    <3>1. k = j /\ Present(j) /\ rows'[j] = [rows[j] EXCEPT !.next = After(x)] /\ Read(j) = x.of
      BY <1>1, <1>2, <2>0, <2>1, <2>7, SettledIs DEF Present
    <3>2. rows'[j].next = After(x) /\ rows'[j].enabled = rows[j].enabled
      BY <3>1, RowIs DEF RowOf
    <3>3. x.of.next = rows[j].next
      BY <3>1, RowIs
    <3>4. x.of.next # Never /\ x.of.next <= After(x)
      <4>1. CASE l = "manual"
        <5>1. Fits(x.of.schedule, x.of.next, x.started)
          BY <2>0, <2>5, <3>1, <4>1 DEF Dated, ManualWork
        <5>2. QED
          BY <1>2, <3>2, <5>1, AfterIs
      <4>2. CASE l = "timer"
        <5>1. x.of.next # Never /\ x.of.next <= x.started
          BY <2>0, <4>2 DEF DueWork, TimerWork, DueExecution
        <5>2. x.of.next < After(x) /\ x.of.next \in Nat
          BY <1>2, <3>2, <5>1, AfterIs, ExecutingIs
        <5>3. QED
          BY <1>2, <3>2, <5>1, <5>2
      <4>3. QED
        BY <4>1, <4>2 DEF Lanes
    <3>5. Scheduled(j) /\ rows[j].next <= rows'[j].next
      BY <1>2, <3>1, <3>2, <3>3, <3>4 DEF Scheduled
    <3>6. QED
      BY <1>1, <1>3, <2>2, <2>4, <2>5, <3>5
  <2>8. QED
    BY <2>6, <2>7
<1> HIDE DEF Covered
<1>16. Covered
  BY <1>5, <1>7, <1>8, <1>9, <1>10, <1>12, <1>13, <1>14, <1>15, CronActions, Zenon DEF Covered
<1>17. QED
  BY <1>16 DEF Covered

------------------------------------------------------------------------------
(* The inductive invariant                                                  *)

CronInv == CronTyped /\ Counted /\ DueWork /\ Dated /\ Ahead /\ TimerCoversJobs

\* The strengthened invariant holds at the start,
LEMMA CronInvInit == CronInit => CronInv
<1>1. CronInit => TimerCoversJobs
  BY DEF CronInit, TimerCoversJobs
<1>2. QED
  BY <1>1, CronTypedInit, CountedInit, DueWorkInit, DatedInit, AheadInit DEF CronInv

\* when nothing happens,
LEMMA CronInvStutter ==
  ASSUME CronInv, UNCHANGED cronVars
  PROVE  CronInv'
<1> USE DEF CronInv, cronVars, processes, messages, history
<1>1. CronTyped'
  BY DEF CronTyped
<1>2. Slack' = Slack /\ Manual' = Manual
  BY DEF Slack, Manual
<1>3. Counted'
  BY <1>2 DEF Counted
<1>4. DueWork'
  BY DEF DueWork, TimerWork, AllDue, DueExecution
<1>5. Dated'
  <2>1. Reach' = Reach
    BY <1>2 DEF Reach
  <2>2. FitRows'
    BY <1>2 DEF Dated, FitRows, FitsRow, Fits, Present
  <2>3. QED
    BY <2>1, <2>2 DEF Dated, NearRows, NearTimer, ManualWork, Present
<1>6. Ahead'
  BY DEF Ahead, LeftBehind, FiredBy, RowAhead, WorkAhead, Answers, Present
<1>7. TimerCoversJobs'
  BY DEF TimerCoversJobs, Scheduled, Present
<1>8. QED
  BY <1>1, <1>3, <1>4, <1>5, <1>6, <1>7

\* and after every step,
LEMMA CronInvStep ==
  ASSUME CronInv, CronNext
  PROVE  CronInv'
<1>1. CronTyped /\ Counted /\ DueWork /\ Dated /\ Ahead /\ TimerCoversJobs
  BY DEF CronInv
<1>2. CronTyped'
  BY <1>1, CronTypedStep
<1>3. Grown
  BY <1>1, <1>2, CountedStep
<1>4. Counted'
  BY <1>3 DEF Grown
<1>5. DueWork' /\ Dated' /\ Ahead' /\ TimerCoversJobs'
  BY <1>1, <1>2, <1>3, DueWorkStep, DatedStep, AheadStep, CoversStep
<1>6. QED
  BY <1>2, <1>4, <1>5 DEF CronInv

\* hence in every reachable state.
LEMMA AlwaysCronInv == CronSpec => []CronInv
<1>1. CronInv /\ [CronNext]_cronVars => CronInv'
  BY CronInvStep, CronInvStutter
<1>2. QED
  BY <1>1, CronInvInit, PTL DEF CronSpec

------------------------------------------------------------------------------
(* Times                                                                    *)

\* The commands there can be account for every time.
LEMMA WithinTimes ==
  ASSUME CronTyped, Counted, Schedules # {}, NEW t \in Nat, t <= Reach
  PROVE  t \in Times
<1> DEFINE a == Longest * (1 + Slack)
           b == Longest * (1 + MaxCommands)
           c == Longest * (1 + (MaxCommands + 1))
<1>1. Longest \in Nat /\ Slack \in Nat /\ MaxCommands \in Nat /\ Slack <= MaxCommands
  BY LongestIs, SlackIs, CronAssumption
<1>2. now \in Nat /\ Horizon \in Nat /\ now <= Horizon
  BY CronAssumption DEF CronTyped
<1>3. a \in Nat /\ b \in Nat /\ a <= b
  <2> HIDE DEF Slack, Longest
  <2>1. QED
    BY <1>1, MoreIsMore
<1>4. c = b + Longest
  <2> HIDE DEF Longest
  <2>1. QED
    BY <1>1, OneMore
<1>5. (2 + MaxCommands) * Longest = c
  <2> HIDE DEF Longest
  <2>1. QED
    BY <1>1
<1>6. t <= now + a
  BY DEF Reach
<1>7. Times = 0 .. Horizon + c
  BY <1>5 DEF Times, Longest
<1> HIDE DEF a, b, c, Longest
<1>8. QED
  BY <1>1, <1>2, <1>3, <1>4, <1>6, <1>7

\* Every time is within reach.
LEMMA TimesAre ==
  ASSUME CronInv
  PROVE  /\ \A j \in Jobs : Present(j) => rows[j].next \in Times \cup {Never}
         /\ timer \in Times \cup {Never}
         /\ \A d \in Daemons : \A s \in todo[d] : s.next \in Times
         /\ \A d \in Daemons, l \in Lanes : exec[d][l] # Idle =>
              exec[d][l].of.next \in Times \cup {Never} /\ exec[d][l].started \in Times
         /\ \A j \in Jobs : fired[j] \in Times \cup {Never}
<1> USE DEF CronInv
<1>1. ASSUME Schedules # {}
      PROVE  /\ \A t \in Nat : t <= Reach => t \in Times
             /\ \A t \in Nat : t <= now => t \in Times
  <2>1. \A t \in Nat : t <= Reach => t \in Times
    BY <1>1, WithinTimes
  <2>2. now \in Nat /\ Reach \in Nat /\ now <= Reach
    <3>1. now \in Nat /\ Longest \in Nat /\ Slack \in Nat
      BY <1>1, LongestIs, SlackIs DEF CronTyped
    <3> HIDE DEF Longest, Slack
    <3>2. Longest * (1 + Slack) \in Nat
      BY <3>1, MoreIsMore
    <3>3. QED
      BY <3>1, <3>2 DEF Reach
  <2>3. QED
    BY <2>1, <2>2
<1>2. ASSUME NEW j \in Jobs, Present(j)
      PROVE  rows[j].next \in Times \cup {Never}
  <2>1. rows[j].next \in Nat \cup {Never} /\ Schedules # {}
    BY <1>2, RowIs
  <2>2. rows[j].next # Never => rows[j].next <= Reach
    BY <1>2 DEF Dated, NearRows
  <2>3. QED
    BY <1>1, <2>1, <2>2
<1>3. timer \in Times \cup {Never}
  BY <1>1 DEF Dated, NearTimer, CronTyped
<1>4. ASSUME NEW d \in Daemons, NEW s \in todo[d]
      PROVE  s.next \in Times
  <2>1. s.next # Never /\ s.next <= now
    BY DEF DueWork, TimerWork, AllDue
  <2>2. s.next \in Nat /\ Schedules # {}
    BY <2>1 DEF CronTyped, SnapshotOf
  <2>3. QED
    BY <1>1, <2>1, <2>2
<1>5. ASSUME NEW d \in Daemons, NEW l \in Lanes, exec[d][l] # Idle
      PROVE  exec[d][l].of.next \in Times \cup {Never} /\ exec[d][l].started \in Times
  <2>1. /\ exec[d][l].of.next \in Nat \cup {Never} /\ exec[d][l].started \in Nat /\ now \in Nat
        /\ Schedules # {}
    BY <1>5, LaneIs, ExecutingIs DEF CronTyped
  <2>2. CASE l = "manual"
    BY <1>1, <1>5, <2>1, <2>2 DEF Dated, ManualWork
  <2>3. CASE l = "timer"
    <3>1. exec[d][l].of.next # Never /\ exec[d][l].of.next <= exec[d][l].started
          /\ exec[d][l].started <= now
      BY <1>5, <2>3 DEF DueWork, TimerWork, DueExecution
    <3>2. exec[d][l].of.next \in Nat /\ exec[d][l].of.next <= now
      BY <2>1, <3>1
    <3>3. QED
      BY <1>1, <2>1, <3>1, <3>2
  <2>4. QED
    BY <2>2, <2>3 DEF Lanes
<1>6. ASSUME NEW j \in Jobs
      PROVE  fired[j] \in Times \cup {Never}
  BY <1>1 DEF Ahead, FiredBy, CronTyped
<1>7. QED
  BY <1>2, <1>3, <1>4, <1>5, <1>6

\* It implies that the types are right within their bounds,
LEMMA TypeOKHolds ==
  ASSUME CronInv
  PROVE  CronTypeOK
<1> USE DEF CronInv
<1>1. rows \in [Jobs -> Row \cup {NotYet, Gone}]
  <2>1. ASSUME NEW j \in Jobs
        PROVE  rows[j] \in Row \cup {NotYet, Gone}
    <3>1. CASE Present(j)
      <4>1. rows[j] \in RowOf /\ rows[j].next \in Times \cup {Never}
        BY <3>1, RowIs, TimesAre
      <4>2. QED
        BY <4>1 DEF RowOf, Row
    <3>2. CASE ~Present(j)
      BY <3>2 DEF Present
    <3>3. QED
      BY <3>1, <3>2
  <2>2. QED
    BY <2>1 DEF CronTyped, Tables
<1>2. ASSUME NEW s \in SnapshotOf, s.next \in Times \cup {Never}
      PROVE  s \in Snapshot
  BY <1>2 DEF SnapshotOf, Snapshot
<1>3. todo \in [Daemons -> SUBSET Snapshot]
  <2>1. ASSUME NEW d \in Daemons, NEW s \in todo[d]
        PROVE  s \in Snapshot
    <3>1. s \in SnapshotOf
      BY DEF CronTyped
    <3>2. QED
      BY <1>2, <3>1, TimesAre
  <2>2. QED
    BY <2>1 DEF CronTyped
<1>4. exec \in [Daemons -> [Lanes -> Execution]]
  <2>1. ASSUME NEW d \in Daemons, NEW l \in Lanes
        PROVE  exec[d][l] \in Execution
    <3>1. CASE exec[d][l] = Idle
      BY <3>1 DEF Execution
    <3>2. CASE exec[d][l] # Idle
      <4>1. exec[d][l] \in Executing /\ exec[d][l].of \in Snapshot /\ exec[d][l].started \in Times
        BY <1>2, <3>2, LaneIs, ExecutingIs, TimesAre
      <4>2. QED
        BY <4>1 DEF Executing, Execution
    <3>3. QED
      BY <3>1, <3>2
  <2>2. exec \in [Daemons -> [Lanes -> {Idle} \cup Executing]]
    BY DEF CronTyped
  <2>3. QED
    BY <2>1, <2>2
<1>5. timer \in Times \cup {Never} /\ fired \in [Jobs -> Times \cup {Never}]
  BY TimesAre DEF CronTyped
<1>6. QED
  BY <1>1, <1>3, <1>4, <1>5 DEF CronTyped, CronTypeOK

\* that no run time is published twice,
LEMMA FiresOnceHolds ==
  ASSUME CronInv
  PROVE  FiresOnce
<1>1. ASSUME NEW d \in Daemons, exec[d]["timer"].at = "publishing",
             exec[d]["timer"].of.job \notin again, fired[exec[d]["timer"].of.job] # Never
      PROVE  fired[exec[d]["timer"].of.job] < exec[d]["timer"].of.next
  <2>1. exec[d]["timer"] # Idle
    BY <1>1, BusyIs
  <2>2. d = leader
    BY <1>1, <2>1 DEF CronInv, Ahead, LeftBehind, Lanes
  <2>3. QED
    BY <1>1, <2>1, <2>2 DEF CronInv, Ahead, WorkAhead
<1>2. QED
  BY <1>1 DEF FiresOnce

\* and that what an edit sets stays.
LEMMA NextFitsScheduleHolds ==
  ASSUME CronInv
  PROVE  NextFitsSchedule
<1>1. ASSUME NEW j \in Jobs, j \notin overwritten, Scheduled(j)
      PROVE  LET s == rows[j].schedule
             IN /\ s.type = "at" => rows[j].next = s.n
                /\ s.type = "cron" => rows[j].next % s.n = 0
                /\ s.type = "every" => rows[j].next <= now + s.n * (1 + used.commands)
  <2> DEFINE s == rows[j].schedule
             n == rows[j].next
  <2>1. Present(j) /\ n # Never
    BY <1>1 DEF Scheduled
  <2>2. s \in Schedules /\ n \in Nat
    BY <2>1, RowIs DEF CronInv
  <2>3. Fits(s, n, now) /\ (s.type = "every" => n <= now + s.n * (1 + Slack))
    BY <1>1, <2>1 DEF CronInv, Dated, FitRows, FitsRow
  <2>4. s.n \in Nat /\ now \in Nat /\ Slack \in Nat /\ used.commands \in Nat /\ Slack <= used.commands
    BY <2>2, SlackIs, CronAssumption DEF CronInv, CronTyped
  <2> HIDE DEF s, n, Slack
  <2>5. s.n * (1 + Slack) \in Nat /\ s.n * (1 + Slack) <= s.n * (1 + used.commands)
        /\ s.n * (1 + used.commands) \in Nat
    BY <2>4, MoreIsMore
  <2>6. s.type = "every" => n <= now + s.n * (1 + used.commands)
    BY <2>2, <2>3, <2>4, <2>5
  <2>7. /\ s.type = "at" => n = s.n
        /\ s.type = "cron" => n % s.n = 0
    BY <2>1, <2>3 DEF Fits
  <2>8. QED
    BY <2>6, <2>7 DEF s, n
<1>2. QED
  BY <1>1 DEF NextFitsSchedule

------------------------------------------------------------------------------
(* Theorems about CronRunner                                                *)

\* The table and the runners hold what they are declared to hold, and no time lies
\* further ahead than the commands account for.
THEOREM CronTypeCorrect == CronSpec => []CronTypeOK
<1>1. CronInv => CronTypeOK
  BY TypeOKHolds
<1>2. QED
  BY <1>1, AlwaysCronInv, PTL

\* Whatever is edited, run by hand, stopped or lost, the timer of a leader that has
\* heard of the last edit is never late for a job whose row was not overwritten.
THEOREM NeverLate == CronSpec => []TimerCoversJobs
<1>1. CronInv => TimerCoversJobs
  BY DEF CronInv
<1>2. QED
  BY <1>1, AlwaysCronInv, PTL

\* The timer publishes no run time twice, and none out of order, unless a daemon
\* ended in the middle or the row was overwritten.
THEOREM PublishedOnce == CronSpec => []FiresOnce
<1>1. CronInv => FiresOnce
  BY FiresOnceHolds
<1>2. QED
  BY <1>1, AlwaysCronInv, PTL

\* No edit leaves a run time of the old schedule behind, unless it was overwritten.
THEOREM RunTimesFit == CronSpec => []NextFitsSchedule
<1>1. CronInv => NextFitsSchedule
  BY NextFitsScheduleHolds
<1>2. QED
  BY <1>1, AlwaysCronInv, PTL

==============================================================================
