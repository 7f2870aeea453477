--------------------------- MODULE PromptStreamProofs ---------------------------
(***************************************************************************)
(* Theorems about PromptStream, for any number of prompts, daemons and     *)
(* faults, and any times with max_age no longer than ack_wait: the types,  *)
(* and that no prompt is handled twice.                                    *)
(*                                                                         *)
(* HandledOnce rests on where a prompt can be (Tracked): in one iterator   *)
(* at most, and in none when it has been handled or may be delivered; and  *)
(* on the clocks, for as long as a delivered prompt is in the stream its   *)
(* age ends no later than its wait for the ack (Covered).                  *)
(***************************************************************************)
EXTENDS PromptStream, TLAPS

------------------------------------------------------------------------------
(* Iterators                                                                *)

\* What is left of a queue of deliveries without the first.
LEMMA TailIs ==
  ASSUME NEW S, NEW s \in Seq(S), s # <<>>
  PROVE  /\ Head(s) \in S /\ Head(s) = s[1] /\ Len(s) \in Nat /\ Len(s) >= 1
         /\ Tail(s) \in Seq(S) /\ Len(Tail(s)) = Len(s) - 1
         /\ \A i \in 1..Len(Tail(s)) : Tail(s)[i] = s[i + 1] /\ i + 1 \in 1..Len(s)
OBVIOUS

\* A queue of deliveries with one more at the end.
LEMMA AppendIs ==
  ASSUME NEW S, NEW s \in Seq(S), NEW x \in S
  PROVE  /\ Append(s, x) \in Seq(S) /\ Append(s, x) # <<>>
         /\ Len(s) \in Nat /\ Len(Append(s, x)) = Len(s) + 1
         /\ \A i \in 1..Len(s) : Append(s, x)[i] = s[i]
         /\ Append(s, x)[Len(s) + 1] = x
OBVIOUS

------------------------------------------------------------------------------
(* Types                                                                    *)

TypedServer ==
  /\ streamUp \in BOOLEAN /\ consumerUp \in BOOLEAN
  /\ stored \subseteq Prompts
  /\ age \in [Prompts -> 0..MaxAge] /\ pending \in [Prompts -> 0..AckWait]
  /\ publishing \in [Prompts -> {"no", "consumer", "ensured", "done", "failed"}]
  /\ handled \in [Prompts -> Nat] /\ faults \in 0..MaxFaults
  /\ \A m \in stored : publishing[m] = "done" /\ age[m] > 0

TypedDaemons ==
  /\ running \in [Daemons -> BOOLEAN] /\ pull \in [Daemons -> Stages]
  /\ buffer \in [Daemons -> Seq(Prompts)]
  /\ \A d \in Daemons : buffer[d] # <<>> => pull[d] = "pulling"

\* The types are those of the server and those of the daemons.
LEMMA TypeParts == TypeOK <=> TypedServer /\ TypedDaemons
BY DEF TypeOK, TypedServer, TypedDaemons

\* Every step keeps the types.
LEMMA TypedStep ==
  ASSUME TypedServer, TypedDaemons, [Next]_vars
  PROVE  TypedServer' /\ TypedDaemons'
<1> USE TimesAssumption, PromptsAssumption
<1>1. ASSUME NEW m \in Prompts, PublishEnsures(m) \/ PublishRefused(m) \/ Publish(m)
      PROVE  TypedServer' /\ TypedDaemons'
  <2>1. TypedServer'
    <3>1. CASE PublishEnsures(m)
      BY <3>1 DEF PublishEnsures, ensureSessionPromptsStream, ensureSessionConsumer, TypedServer
    <3>2. CASE PublishRefused(m)
      BY <3>2 DEF PublishRefused, server, TypedServer
    <3>3. CASE Publish(m)
      <4>1. age' \in [Prompts -> 0..MaxAge] /\ (streamUp => age'[m] > 0)
        BY <3>3 DEF Publish, TypedServer
      <4>2. QED
        BY <3>3, <4>1 DEF Publish, TypedServer
    <3>4. QED
      BY <1>1, <3>1, <3>2, <3>3
  <2>2. TypedDaemons'
    BY <1>1 DEF PublishEnsures, PublishRefused, Publish, daemon, TypedDaemons
  <2>3. QED
    BY <2>1, <2>2
<1>2. ASSUME NEW d \in Daemons,
             StartBot(d) \/ Ensures(d) \/ EnsureFails(d) \/ Resubscribe(d) \/ OpenPull(d)
      PROVE  TypedServer' /\ TypedDaemons'
  <2>1. TypedServer'
    <3>1. CASE Ensures(d)
      BY <3>1 DEF Ensures, ensureSessionPromptsStream, ensureSessionConsumer, TypedServer
    <3>2. CASE EnsureFails(d)
      BY <3>2 DEF EnsureFails, Fault, server, TypedServer
    <3>3. CASE StartBot(d) \/ Resubscribe(d) \/ OpenPull(d)
      BY <3>3 DEF StartBot, Resubscribe, OpenPull, server, TypedServer
    <3>4. QED
      BY <1>2, <3>1, <3>2, <3>3
  <2>2. TypedDaemons'
    BY <1>2 DEF StartBot, Ensures, EnsureFails, Resubscribe, OpenPull, At, Stages, TypedDaemons
  <2>3. QED
    BY <2>1, <2>2
<1>3. ASSUME NEW d \in Daemons, HealthCheck(d)
      PROVE  TypedServer' /\ TypedDaemons'
  BY <1>3 DEF HealthCheck, ensureSessionPromptsStream, ensureSessionConsumer, daemon,
    TypedServer, TypedDaemons
<1>4. ASSUME NEW d \in Daemons,
             PullAborts(d) \/ StopBot(d) \/ Exit(d) \/ Crash(d)
      PROVE  TypedServer' /\ TypedDaemons'
  <2>1. TypedServer'
    BY <1>4 DEF PullAborts, StopBot, Exit, Crash, ProcessEnds, Fault, server, TypedServer
  <2>2. TypedDaemons'
    <3>1. CASE PullAborts(d)
      <4>1. buffer' \in [Daemons -> Seq(Prompts)] /\ buffer'[d] = <<>>
        BY <3>1 DEF PullAborts, TypedDaemons
      <4>2. QED
        BY <3>1, <4>1 DEF PullAborts, At, Stages, TypedDaemons
    <3>2. CASE StopBot(d)
      BY <3>2 DEF StopBot, TypedDaemons
    <3>3. CASE ProcessEnds(d)
      <4>1. buffer' \in [Daemons -> Seq(Prompts)] /\ buffer'[d] = <<>>
        BY <3>3 DEF ProcessEnds, TypedDaemons
      <4>2. QED
        BY <3>3, <4>1 DEF ProcessEnds, At, Stages, TypedDaemons
    <3>4. QED
      BY <1>4, <3>1, <3>2, <3>3 DEF Exit, Crash
  <2>3. QED
    BY <2>1, <2>2
<1>5. ASSUME NEW d \in Daemons, NEW m \in Prompts, Deliver(d, m)
      PROVE  TypedServer' /\ TypedDaemons'
  <2>1. TypedServer'
    BY <1>5 DEF Deliver, TypedServer
  <2>2. Append(buffer[d], m) \in Seq(Prompts)
    BY AppendIs DEF TypedDaemons
  <2>3. TypedDaemons'
    BY <1>5, <2>2 DEF Deliver, TypedDaemons
  <2>4. QED
    BY <2>1, <2>3
<1>6. ASSUME NEW d \in Daemons,
             HandlePrompt(d) \/ HandlePromptAckLost(d) \/ RejectPrompt(d) \/ StopAtPrompt(d)
      PROVE  TypedServer' /\ TypedDaemons'
  <2>1. Head(buffer[d]) \in Prompts /\ Tail(buffer[d]) \in Seq(Prompts) /\ Takes(d)
    BY <1>6, TailIs DEF HandlePrompt, HandlePromptAckLost, RejectPrompt, StopAtPrompt, Takes, TypedDaemons
  <2>2. TypedServer'
    <3> DEFINE m == Head(buffer[d])
    <3>1. pending' \in [Prompts -> 0..AckWait] /\ stored' \subseteq stored
      <4>1. \/ UNCHANGED <<pending, stored>>
            \/ pending' = [pending EXCEPT ![m] = 0] /\ stored' \in {stored, stored \ {m}}
        BY <1>6 DEF HandlePrompt, HandlePromptAckLost, RejectPrompt, StopAtPrompt, server
      <4>2. 0 \in 0..AckWait
        OBVIOUS
      <4>3. QED
        BY <4>1, <4>2 DEF TypedServer
    <3>2. handled' \in [Prompts -> Nat]
      <4>1. CASE handled' = [handled EXCEPT ![m] = @ + 1]
        BY SMTT(30), <2>1, <4>1 DEF TypedServer
      <4>2. CASE UNCHANGED handled
        BY <4>2 DEF TypedServer
      <4>3. QED
        BY <1>6, <4>1, <4>2 DEF HandlePrompt, HandlePromptAckLost, RejectPrompt, StopAtPrompt
    <3>3. faults' \in 0..MaxFaults
      BY <1>6 DEF HandlePrompt, HandlePromptAckLost, RejectPrompt, StopAtPrompt, Fault, TypedServer
    <3>4. UNCHANGED <<streamUp, consumerUp, age, publishing>>
      BY <1>6 DEF HandlePrompt, HandlePromptAckLost, RejectPrompt, StopAtPrompt, server
    <3>5. QED
      BY <3>1, <3>2, <3>3, <3>4 DEF TypedServer
  <2>3. TypedDaemons'
    <3>1. CASE StopAtPrompt(d)
      <4>1. buffer' \in [Daemons -> Seq(Prompts)] /\ buffer'[d] = <<>>
        BY <3>1 DEF StopAtPrompt, TypedDaemons
      <4>2. QED
        BY <3>1, <4>1 DEF StopAtPrompt, At, Stages, TypedDaemons
    <3>2. CASE UNCHANGED <<running, pull>> /\ buffer' = [buffer EXCEPT ![d] = Tail(@)]
      BY <2>1, <3>2 DEF Takes, TypedDaemons
    <3>3. QED
      BY <1>6, <3>1, <3>2 DEF HandlePrompt, HandlePromptAckLost, RejectPrompt
  <2>4. QED
    BY <2>2, <2>3
<1>7. CASE ServerRestarts \/ Tick
  <2>1. TypedServer'
    <3>1. CASE ServerRestarts
      <4>1. pending' \in [Prompts -> 0..AckWait]
        BY <3>1 DEF ServerRestarts
      <4>2. faults' \in 0..MaxFaults
        BY <3>1 DEF ServerRestarts, Fault, TypedServer
      <4>3. streamUp' = FALSE /\ consumerUp' = FALSE /\ stored' = {} /\ UNCHANGED <<age, publishing, handled>>
        BY <3>1 DEF ServerRestarts
      <4>4. QED
        BY <4>1, <4>2, <4>3 DEF TypedServer
    <3>2. CASE Tick
      <4>1. ASSUME NEW m \in Prompts
            PROVE  /\ age'[m] \in 0..MaxAge /\ pending'[m] \in 0..AckWait
                   /\ m \in stored' => m \in stored /\ age'[m] > 0
        BY <3>2 DEF Tick, TypedServer
      <4>2. age' \in [Prompts -> 0..MaxAge] /\ pending' \in [Prompts -> 0..AckWait]
        BY <3>2, <4>1 DEF Tick
      <4>3. stored' \subseteq stored
        BY <3>2 DEF Tick
      <4>4. QED
        BY <3>2, <4>1, <4>2, <4>3 DEF Tick, TypedServer
    <3>3. QED
      BY <1>7, <3>1, <3>2
  <2>2. TypedDaemons'
    BY <1>7 DEF ServerRestarts, Tick, daemon, TypedDaemons
  <2>3. QED
    BY <2>1, <2>2
<1>8. CASE UNCHANGED vars
  BY <1>8 DEF vars, server, daemon, TypedServer, TypedDaemons
<1>9. QED
  BY <1>1, <1>2, <1>3, <1>4, <1>5, <1>6, <1>7, <1>8 DEF Next

\* Both start with their types.
LEMMA TypedInit == Init => TypedServer /\ TypedDaemons
<1> SUFFICES ASSUME Init PROVE TypedServer /\ TypedDaemons
  OBVIOUS
<1>1. TypedServer
  <2>1. age \in [Prompts -> 0..MaxAge] /\ pending \in [Prompts -> 0..AckWait] /\ faults \in 0..MaxFaults
    BY TimesAssumption DEF Init
  <2>2. handled \in [Prompts -> Nat]
        /\ publishing \in [Prompts -> {"no", "consumer", "ensured", "done", "failed"}]
    BY DEF Init
  <2>3. QED
    BY <2>1, <2>2 DEF Init, TypedServer
<1>2. TypedDaemons
  BY DEF Init, TypedDaemons, Stages
<1>3. QED
  BY <1>1, <1>2

\* The queue and the loops hold what they may hold; what is in the stream has been
\* published and has not expired.
THEOREM TypeCorrect == Spec => []TypeOK
<1>1. Init => TypeOK
  BY TypedInit, TypeParts
<1>2. TypeOK /\ [Next]_vars => TypeOK'
  <2> SUFFICES ASSUME TypeOK, [Next]_vars PROVE TypeOK'
    OBVIOUS
  <2>1. TypedServer' /\ TypedDaemons'
    BY TypedStep, TypeParts
  <2>2. QED
    BY <2>1 DEF TypeOK, TypedServer, TypedDaemons
<1>3. QED
  BY <1>1, <1>2, PTL DEF Spec

------------------------------------------------------------------------------
(* Handled once                                                             *)

\* Prompt m is at position i of the iterator of daemon d.
Holds(d, i, m) == i \in 1..Len(buffer[d]) /\ buffer[d][i] = m

InFlight(m) == \E d \in Daemons, i \in Nat : Holds(d, i, m)

Tracked(m) ==
  /\ \A d, e \in Daemons, i, j \in Nat : Holds(d, i, m) /\ Holds(e, j, m) => d = e /\ i = j
  /\ handled[m] <= 1
  /\ InFlight(m) => handled[m] = 0
  /\ m \in stored /\ pending[m] = 0 => handled[m] = 0 /\ ~InFlight(m)
  /\ publishing[m] # "done" => handled[m] = 0 /\ ~InFlight(m) /\ pending[m] = 0

Covered(m) == m \in stored /\ pending[m] > 0 => age[m] <= pending[m]

OnceInv ==
  /\ TypeOK
  /\ \A m \in Prompts \ Poison : Tracked(m) /\ Covered(m)
  /\ \A m \in Prompts \cap Poison : handled[m] = 0

\* Steps after which every prompt in an iterator was there before, though perhaps
\* not at the same place.
LEMMA FewerTracked ==
  ASSUME NEW m, Tracked(m), handled'[m] = handled[m],
         \A d \in Daemons, i \in Nat : Holds(d, i, m)' => Holds(d, i, m),
         m \in stored' /\ pending'[m] = 0 => m \in stored /\ pending[m] = 0,
         publishing'[m] # "done" => publishing[m] # "done" /\ pending'[m] = 0
  PROVE  Tracked(m)'
BY DEF Tracked, InFlight

\* Iterators that did not change.
LEMMA SameIterators ==
  ASSUME UNCHANGED buffer
  PROVE  \A d \in Daemons, i \in Nat : \A m : Holds(d, i, m)' <=> Holds(d, i, m)
BY DEF Holds

\* An iterator that was emptied.
LEMMA EmptiedIterator ==
  ASSUME TypeOK, NEW d \in Daemons, buffer' = [buffer EXCEPT ![d] = <<>>]
  PROVE  /\ \A i \in Nat : \A m : ~Holds(d, i, m)'
         /\ \A e \in Daemons \ {d}, i \in Nat : \A m : Holds(e, i, m)' <=> Holds(e, i, m)
<1>1. buffer'[d] = <<>> /\ \A e \in Daemons \ {d} : buffer'[e] = buffer[e]
  BY DEF TypeOK
<1>2. QED
  BY <1>1 DEF Holds

\* The loop takes the first prompt of its iterator: the others move up.
LEMMA TakenFromIterator ==
  ASSUME TypeOK, NEW d \in Daemons, buffer[d] # <<>>, buffer' = [buffer EXCEPT ![d] = Tail(@)]
  PROVE  /\ Head(buffer[d]) \in Prompts /\ Holds(d, 1, Head(buffer[d]))
         /\ \A i \in Nat : \A m : Holds(d, i, m)' => i + 1 \in Nat /\ Holds(d, i + 1, m)
         /\ \A i \in Nat : \A m : Holds(d, i, m)' => i >= 1
         /\ \A e \in Daemons \ {d}, i \in Nat : \A m : Holds(e, i, m)' <=> Holds(e, i, m)
<1>1. buffer[d] \in Seq(Prompts)
  BY DEF TypeOK
<1>2. buffer'[d] = Tail(buffer[d]) /\ \A e \in Daemons \ {d} : buffer'[e] = buffer[e]
  BY DEF TypeOK
<1>3. Head(buffer[d]) \in Prompts /\ Holds(d, 1, Head(buffer[d]))
  BY <1>1, TailIs DEF Holds
<1>4. ASSUME NEW i \in Nat, NEW m, Holds(d, i, m)'
      PROVE  i >= 1 /\ i + 1 \in Nat /\ Holds(d, i + 1, m)
  <2>1. i \in 1..Len(Tail(buffer[d])) /\ Tail(buffer[d])[i] = m
    BY <1>2, <1>4 DEF Holds
  <2>2. Tail(buffer[d])[i] = buffer[d][i + 1] /\ i + 1 \in 1..Len(buffer[d]) /\ i >= 1
    BY <1>1, <2>1, TailIs
  <2>3. QED
    BY <2>1, <2>2 DEF Holds
<1>5. \A e \in Daemons \ {d}, i \in Nat : \A m : Holds(e, i, m)' <=> Holds(e, i, m)
  BY <1>2 DEF Holds
<1>6. QED
  BY <1>3, <1>4, <1>5

\* A prompt is put at the end of an iterator.
LEMMA PutInIterator ==
  ASSUME TypeOK, NEW d \in Daemons, NEW m \in Prompts, buffer' = [buffer EXCEPT ![d] = Append(@, m)]
  PROVE  /\ \A i \in Nat : \A n : Holds(d, i, n)' => Holds(d, i, n) \/ (n = m /\ i = Len(buffer[d]) + 1)
         /\ \A e \in Daemons \ {d}, i \in Nat : \A n : Holds(e, i, n)' <=> Holds(e, i, n)
<1>1. buffer[d] \in Seq(Prompts)
  BY DEF TypeOK
<1>2. buffer'[d] = Append(buffer[d], m) /\ \A e \in Daemons \ {d} : buffer'[e] = buffer[e]
  BY DEF TypeOK
<1>3. ASSUME NEW i \in Nat, NEW n, Holds(d, i, n)'
      PROVE  Holds(d, i, n) \/ (n = m /\ i = Len(buffer[d]) + 1)
  <2>1. i \in 1..Len(Append(buffer[d], m)) /\ Append(buffer[d], m)[i] = n
    BY <1>2, <1>3 DEF Holds
  <2>2. i \in 1..Len(buffer[d]) \/ i = Len(buffer[d]) + 1
    BY <1>1, <2>1, AppendIs
  <2>3. QED
    BY <1>1, <2>1, <2>2, AppendIs DEF Holds
<1>4. \A e \in Daemons \ {d}, i \in Nat : \A n : Holds(e, i, n)' <=> Holds(e, i, n)
  BY <1>2 DEF Holds
<1>5. QED
  BY <1>3, <1>4

\* The loop takes the first prompt: it is in no iterator then, and another one is
\* where it was or moved up.
LEMMA TakesTracked ==
  ASSUME TypeOK, NEW d \in Daemons, buffer[d] # <<>>, buffer' = [buffer EXCEPT ![d] = Tail(@)],
         NEW m \in Prompts, Tracked(m)
  PROVE  /\ m = Head(buffer[d]) => ~InFlight(m)' /\ InFlight(m)
         /\ InFlight(m)' => InFlight(m)
         /\ \A e, f \in Daemons, i, j \in Nat : Holds(e, i, m)' /\ Holds(f, j, m)' => e = f /\ i = j
<1>1. \A e \in Daemons, i \in Nat : Holds(e, i, m)' =>
        IF e = d THEN i >= 1 /\ i + 1 \in Nat /\ Holds(e, i + 1, m) ELSE Holds(e, i, m)
  BY TakenFromIterator
<1>2. InFlight(m)' => InFlight(m)
  BY <1>1 DEF InFlight
<1>3. ASSUME NEW e \in Daemons, NEW f \in Daemons, NEW i \in Nat, NEW j \in Nat,
             Holds(e, i, m)', Holds(f, j, m)'
      PROVE  e = f /\ i = j
  <2>1. PICK k \in Nat : Holds(e, k, m) /\ k = IF e = d THEN i + 1 ELSE i
    BY <1>1, <1>3
  <2>2. PICK l \in Nat : Holds(f, l, m) /\ l = IF f = d THEN j + 1 ELSE j
    BY <1>1, <1>3
  <2>3. e = f /\ k = l
    BY <2>1, <2>2 DEF Tracked
  <2>4. QED
    BY <2>1, <2>2, <2>3
<1>4. ASSUME m = Head(buffer[d])
      PROVE  ~InFlight(m)' /\ InFlight(m)
  <2>1. Holds(d, 1, m)
    BY <1>4, TakenFromIterator
  <2>2. SUFFICES ASSUME NEW e \in Daemons, NEW i \in Nat, Holds(e, i, m)'
                 PROVE  FALSE
    BY <2>1 DEF InFlight
  <2>3. PICK k \in Nat : Holds(e, k, m) /\ k = IF e = d THEN i + 1 ELSE i
    BY <1>1, <2>2
  <2>4. e = d /\ k = 1
    BY <2>1, <2>3 DEF Tracked
  <2>5. i >= 1
    BY <1>1, <2>2, <2>4
  <2>6. QED
    BY <2>3, <2>4, <2>5
<1>5. QED
  BY <1>2, <1>3, <1>4

\* Each step keeps each prompt that can be handled where it can be.
LEMMA TrackedStep ==
  ASSUME OnceInv, [Next]_vars, NEW m \in Prompts \ Poison
  PROVE  Tracked(m)'
<1> USE DEF OnceInv
<1>1. TypeOK /\ Tracked(m) /\ Covered(m) /\ m \in Prompts
  OBVIOUS
<1>2. pending[m] \in 0..AckWait /\ age[m] \in 0..MaxAge /\ handled[m] \in Nat
  BY DEF TypeOK
<1>3. ASSUME UNCHANGED <<buffer, handled>>,
             m \in stored' /\ pending'[m] = 0 => m \in stored /\ pending[m] = 0,
             publishing'[m] # "done" => publishing[m] # "done" /\ pending'[m] = 0
      PROVE  Tracked(m)'
  BY <1>1, <1>3, SameIterators, FewerTracked
<1>4. publishing[m] # "done" => pending[m] = 0
  BY DEF Tracked
<1>5. ASSUME NEW n \in Prompts, PublishEnsures(n) \/ PublishRefused(n)
      PROVE  Tracked(m)'
  <2>1. UNCHANGED <<stored, pending, buffer, handled>> /\ (publishing[m] = "done" => publishing'[m] = "done")
    BY <1>5 DEF PublishEnsures, PublishRefused, ensureSessionPromptsStream, ensureSessionConsumer,
      server, daemon, TypeOK
  <2>2. QED
    BY <1>3, <1>4, <2>1
<1>6. ASSUME NEW n \in Prompts, Publish(n)
      PROVE  Tracked(m)'
  <2>1. UNCHANGED <<pending, buffer, handled>> /\ (publishing[m] = "done" => publishing'[m] = "done")
    BY <1>6 DEF Publish, daemon, TypeOK
  <2>2. CASE m \in stored' => m \in stored
    BY <1>3, <1>4, <2>1, <2>2
  <2>3. CASE m \in stored' /\ m \notin stored
    <3>1. m = n /\ publishing[m] = "ensured" /\ publishing'[m] = "done"
      BY <1>6, <2>3 DEF Publish, TypeOK
    <3>2. handled[m] = 0 /\ ~InFlight(m)
      BY <1>1, <3>1 DEF Tracked
    <3>3. ~InFlight(m)'
      BY <2>1, <3>2, SameIterators DEF InFlight
    <3>4. QED
      BY <2>1, <3>1, <3>2, <3>3 DEF Tracked, InFlight
  <2>4. QED
    BY <2>2, <2>3
<1>7. ASSUME NEW d \in Daemons,
             \/ StartBot(d) \/ Ensures(d) \/ EnsureFails(d) \/ Resubscribe(d) \/ OpenPull(d)
             \/ HealthCheck(d) \/ StopBot(d)
      PROVE  Tracked(m)'
  <2>1. UNCHANGED <<stored, pending, publishing, buffer, handled>>
    BY <1>7 DEF StartBot, Ensures, EnsureFails, Resubscribe, OpenPull, HealthCheck, StopBot,
      ensureSessionPromptsStream, ensureSessionConsumer, server, daemon
  <2>2. QED
    BY <1>3, <1>4, <2>1
<1>8. ASSUME NEW d \in Daemons, PullAborts(d) \/ ProcessEnds(d)
      PROVE  Tracked(m)'
  <2>1. UNCHANGED <<stored, pending, publishing, handled>> /\ buffer' = [buffer EXCEPT ![d] = <<>>]
    BY <1>8 DEF PullAborts, ProcessEnds, server
  <2>2. \A e \in Daemons, i \in Nat : Holds(e, i, m)' => Holds(e, i, m)
    BY <1>1, <2>1, EmptiedIterator
  <2>3. QED
    BY <1>1, <1>4, <2>1, <2>2, FewerTracked
<1>9. ASSUME NEW d \in Daemons, NEW n \in Prompts, Deliver(d, n)
      PROVE  Tracked(m)'
  <2>1. /\ UNCHANGED <<stored, publishing, handled>>
        /\ buffer' = [buffer EXCEPT ![d] = Append(@, n)]
        /\ pending' = [pending EXCEPT ![n] = AckWait] /\ n \in stored /\ pending[n] = 0
    BY <1>9 DEF Deliver, Deliverable
  <2>2. CASE m # n
    <3>1. \A e \in Daemons, i \in Nat : Holds(e, i, m)' => Holds(e, i, m)
      BY ZenonT(30), <1>1, <2>1, <2>2, PutInIterator
    <3>2. pending'[m] = pending[m]
      BY <2>1, <2>2 DEF TypeOK
    <3>3. QED
      BY <1>1, <1>4, <2>1, <3>1, <3>2, FewerTracked
  <2>3. CASE m = n
    <3>1. handled[m] = 0 /\ ~InFlight(m)
      BY <1>1, <2>1, <2>3 DEF Tracked
    <3>2. \A e \in Daemons, i \in Nat : Holds(e, i, m)' => e = d /\ i = Len(buffer[d]) + 1
      BY <1>1, <2>1, <2>3, <3>1, PutInIterator DEF InFlight
    <3>3. publishing[m] = "done"
      BY <2>1, <2>3 DEF TypeOK
    <3>4. pending'[m] = AckWait /\ AckWait \in Nat /\ AckWait # 0
      BY <2>1, <2>3, TimesAssumption, WindowAssumption DEF TypeOK
    <3>5. QED
      BY <2>1, <3>1, <3>2, <3>3, <3>4 DEF Tracked
  <2>4. QED
    BY <2>2, <2>3
<1>10. ASSUME NEW d \in Daemons, HandlePrompt(d) \/ HandlePromptAckLost(d)
       PROVE  Tracked(m)'
  <2> DEFINE n == Head(buffer[d])
  <2>1. /\ buffer[d] # <<>> /\ buffer' = [buffer EXCEPT ![d] = Tail(@)] /\ UNCHANGED publishing
        /\ handled' = [handled EXCEPT ![n] = @ + 1]
    BY <1>10 DEF HandlePrompt, HandlePromptAckLost, Takes
  <2>2. /\ m = n => ~InFlight(m)' /\ InFlight(m)
        /\ InFlight(m)' => InFlight(m)
        /\ \A e, f \in Daemons, i, j \in Nat : Holds(e, i, m)' /\ Holds(f, j, m)' => e = f /\ i = j
    BY <1>1, <2>1, TakesTracked
  <2>3. \/ UNCHANGED <<stored, pending>>
        \/ stored' = stored \ {n} /\ pending' = [pending EXCEPT ![n] = 0]
    BY <1>10 DEF HandlePrompt, HandlePromptAckLost, server
  <2> HIDE DEF n
  <2>4. CASE m # n
    <3>1. handled'[m] = handled[m] /\ pending'[m] = pending[m] /\ (m \in stored' => m \in stored)
      BY <2>1, <2>3, <2>4 DEF TypeOK
    <3>2. QED
      BY <1>1, <2>1, <2>2, <3>1 DEF Tracked
  <2>5. CASE m = n
    <3>1. handled[m] = 0 /\ publishing[m] = "done"
      BY <1>1, <2>2, <2>5 DEF Tracked
    <3>2. handled'[m] = 1
      BY <2>1, <2>5, <3>1 DEF TypeOK
    <3>3. m \in stored' => pending'[m] # 0
      BY <1>1, <2>2, <2>3, <2>5 DEF Tracked
    <3>4. QED
      BY <2>1, <2>2, <2>5, <3>1, <3>2, <3>3 DEF Tracked
  <2>6. QED
    BY <2>4, <2>5
<1>11. ASSUME NEW d \in Daemons, RejectPrompt(d)
       PROVE  Tracked(m)'
  <2> DEFINE n == Head(buffer[d])
  <2>1. /\ buffer[d] # <<>> /\ buffer' = [buffer EXCEPT ![d] = Tail(@)]
        /\ UNCHANGED <<stored, publishing, handled>> /\ pending' = [pending EXCEPT ![n] = 0] /\ m # n
    BY <1>11 DEF RejectPrompt, Takes
  <2>2. /\ InFlight(m)' => InFlight(m)
        /\ \A e, f \in Daemons, i, j \in Nat : Holds(e, i, m)' /\ Holds(f, j, m)' => e = f /\ i = j
    BY <1>1, <2>1, TakesTracked
  <2> HIDE DEF n
  <2>3. pending'[m] = pending[m]
    BY <2>1 DEF TypeOK
  <2>4. QED
    BY <1>1, <2>1, <2>2, <2>3 DEF Tracked
<1>12. ASSUME NEW d \in Daemons, StopAtPrompt(d)
       PROVE  Tracked(m)'
  <2> DEFINE n == Head(buffer[d])
  <2>1. /\ buffer[d] # <<>> /\ buffer' = [buffer EXCEPT ![d] = <<>>]
        /\ UNCHANGED <<stored, publishing, handled>> /\ pending' = [pending EXCEPT ![n] = 0]
    BY <1>12 DEF StopAtPrompt, Takes
  <2>2. buffer[d] \in Seq(Prompts)
    BY DEF TypeOK
  <2>3. Holds(d, 1, n)
    BY <2>1, <2>2, TailIs DEF Holds
  <2>4. \A e \in Daemons, i \in Nat : Holds(e, i, m)' => e # d /\ Holds(e, i, m)
    BY <1>1, <2>1, EmptiedIterator
  <2> HIDE DEF n
  <2>5. CASE m # n
    <3>1. pending'[m] = pending[m]
      BY <2>1, <2>5 DEF TypeOK
    <3>2. QED
      BY <1>1, <1>4, <2>1, <2>4, <3>1, FewerTracked
  <2>6. CASE m = n
    <3>1. handled[m] = 0 /\ publishing[m] = "done"
      BY <1>1, <2>3, <2>6 DEF Tracked, InFlight
    <3>2. ~InFlight(m)'
      BY <1>1, <2>3, <2>4, <2>6 DEF Tracked, InFlight
    <3>3. QED
      BY <2>1, <3>1, <3>2 DEF Tracked, InFlight
  <2>7. QED
    BY <2>5, <2>6
<1>13. CASE ServerRestarts
  BY <1>3, <1>13, <1>1 DEF ServerRestarts, daemon, TypeOK
<1>14. CASE Tick
  <2>1. UNCHANGED <<buffer, handled, publishing>>
    BY <1>14 DEF Tick, daemon
  <2>2. m \in stored' => m \in stored /\ age[m] > 1
    BY <1>14 DEF Tick
  <2>3. pending'[m] = IF pending[m] = 0 THEN 0 ELSE pending[m] - 1
    BY <1>1, <1>14 DEF Tick
  <2>4. m \in stored' /\ pending'[m] = 0 => m \in stored /\ pending[m] = 0
    BY <1>1, <1>2, <2>2, <2>3, TimesAssumption DEF Covered
  <2>5. QED
    BY <1>3, <1>4, <2>1, <2>3, <2>4
<1>15. CASE UNCHANGED vars
  BY <1>3, <1>4, <1>15 DEF vars, server, daemon
<1>16. QED
  BY <1>5, <1>6, <1>7, <1>8, <1>9, <1>10, <1>11, <1>12, <1>13, <1>14, <1>15 DEF Next, Exit, Crash

\* Each step keeps the age of a delivered prompt below its wait for the ack.
LEMMA CoveredStep ==
  ASSUME OnceInv, [Next]_vars, NEW m \in Prompts \ Poison
  PROVE  Covered(m)'
<1> USE DEF OnceInv
<1>1. TypeOK /\ Tracked(m) /\ Covered(m) /\ m \in Prompts
  OBVIOUS
<1>2. pending[m] \in 0..AckWait /\ age[m] \in 0..MaxAge
  BY DEF TypeOK
<1>3. ASSUME m \in stored' => m \in stored, age'[m] = age[m], pending'[m] \in {0, pending[m]}
      PROVE  Covered(m)'
  BY <1>1, <1>2, <1>3 DEF Covered
<1>4. ASSUME NEW n \in Prompts, Publish(n)
      PROVE  Covered(m)'
  <2>1. CASE m # n
    BY <1>3, <1>4, <2>1 DEF Publish, TypeOK
  <2>2. CASE m = n
    <3>1. pending'[m] = 0
      BY <1>1, <1>4, <2>2 DEF Publish, Tracked
    <3>2. QED
      BY <3>1 DEF Covered
  <2>3. QED
    BY <2>1, <2>2
<1>5. ASSUME NEW n \in Prompts, PublishEnsures(n) \/ PublishRefused(n)
      PROVE  Covered(m)'
  BY <1>3, <1>5 DEF PublishEnsures, PublishRefused, ensureSessionPromptsStream, ensureSessionConsumer,
    server
<1>6. ASSUME NEW d \in Daemons,
             \/ StartBot(d) \/ Ensures(d) \/ EnsureFails(d) \/ Resubscribe(d) \/ OpenPull(d)
             \/ HealthCheck(d) \/ StopBot(d) \/ PullAborts(d) \/ ProcessEnds(d)
             \/ HandlePromptAckLost(d)
      PROVE  Covered(m)'
  <2>1. UNCHANGED <<stored, age, pending>>
    BY <1>6 DEF StartBot, Ensures, EnsureFails, Resubscribe, OpenPull, HealthCheck, StopBot,
      PullAborts, ProcessEnds, HandlePromptAckLost, ensureSessionPromptsStream,
      ensureSessionConsumer, server
  <2>2. QED
    BY <1>3, <2>1
<1>7. ASSUME NEW d \in Daemons, NEW n \in Prompts, Deliver(d, n)
      PROVE  Covered(m)'
  <2>1. CASE m # n
    BY <1>3, <1>7, <2>1 DEF Deliver, TypeOK
  <2>2. CASE m = n
    <3>1. pending'[m] = AckWait /\ age'[m] = age[m]
      BY <1>7, <2>2 DEF Deliver, TypeOK
    <3>2. QED
      BY <1>2, <3>1, TimesAssumption, WindowAssumption DEF Covered
  <2>3. QED
    BY <2>1, <2>2
<1>8. ASSUME NEW d \in Daemons, HandlePrompt(d) \/ RejectPrompt(d) \/ StopAtPrompt(d)
      PROVE  Covered(m)'
  <2>1. pending' = [pending EXCEPT ![Head(buffer[d])] = 0] /\ UNCHANGED age /\ stored' \subseteq stored
    BY <1>8 DEF HandlePrompt, RejectPrompt, StopAtPrompt
  <2>2. pending'[m] \in {0, pending[m]}
    BY <1>1, <2>1 DEF TypeOK
  <2>3. QED
    BY <1>3, <2>1, <2>2
<1>9. CASE ServerRestarts
  BY <1>9 DEF ServerRestarts, Covered
<1>10. CASE Tick
  <2>1. m \in stored' => m \in stored
    BY <1>10 DEF Tick
  <2>2. pending'[m] = IF pending[m] = 0 THEN 0 ELSE pending[m] - 1
    BY <1>1, <1>10 DEF Tick
  <2>3. m \in stored => age'[m] = age[m] - 1
    BY <1>1, <1>10 DEF Tick
  <2>4. QED
    BY <1>1, <1>2, <2>1, <2>2, <2>3, TimesAssumption DEF Covered
<1>11. CASE UNCHANGED vars
  BY <1>3, <1>11 DEF vars, server
<1>12. QED
  BY <1>4, <1>5, <1>6, <1>7, <1>8, <1>9, <1>10, <1>11 DEF Next, Exit, Crash

\* A prompt whose payload does not parse is never handled.
LEMMA PoisonStep ==
  ASSUME OnceInv, [Next]_vars, NEW m \in Prompts \cap Poison
  PROVE  handled'[m] = 0
<1>1. handled[m] = 0 /\ TypeOK
  BY DEF OnceInv
<1>2. ASSUME NEW d \in Daemons, HandlePrompt(d) \/ HandlePromptAckLost(d)
      PROVE  handled'[m] = 0
  <2>1. handled' = [handled EXCEPT ![Head(buffer[d])] = @ + 1] /\ Head(buffer[d]) \notin Poison
    BY <1>2 DEF HandlePrompt, HandlePromptAckLost
  <2>2. QED
    BY <1>1, <2>1 DEF TypeOK
<1>3. CASE UNCHANGED handled
  BY <1>1, <1>3
<1>4. QED
  BY <1>2, <1>3 DEF Next, PublishEnsures, PublishRefused, Publish, StartBot, Ensures, EnsureFails,
    Resubscribe, OpenPull, PullAborts, HealthCheck, Deliver, RejectPrompt, StopAtPrompt, StopBot,
    Exit, Crash, ProcessEnds, ServerRestarts, Tick, vars

\* No prompt is given to handlePrompt twice, whatever is delivered again, as long as
\* max_age is no longer than ack_wait.
THEOREM HandledAtMostOnce == Spec => []HandledOnce
<1>1. Init => OnceInv
  <2> SUFFICES ASSUME Init PROVE OnceInv
    OBVIOUS
  <2>1. TypeOK
    BY TypedInit, TypeParts
  <2>2. \A m \in Prompts : handled[m] = 0 /\ ~InFlight(m) /\ m \notin stored /\ pending[m] = 0
    BY DEF Init, InFlight, Holds
  <2>3. QED
    BY <2>1, <2>2 DEF OnceInv, Tracked, Covered, InFlight
<1>2. OnceInv /\ [Next]_vars => OnceInv'
  <2> SUFFICES ASSUME OnceInv, [Next]_vars PROVE OnceInv'
    OBVIOUS
  <2>1. TypeOK'
    <3>1. TypedServer' /\ TypedDaemons'
      BY TypedStep, TypeParts DEF OnceInv
    <3>2. QED
      BY <3>1 DEF TypeOK, TypedServer, TypedDaemons
  <2>2. \A m \in Prompts \ Poison : Tracked(m)' /\ Covered(m)'
    BY TrackedStep, CoveredStep
  <2>3. \A m \in Prompts \cap Poison : handled'[m] = 0
    BY PoisonStep
  <2>4. QED
    BY <2>1, <2>2, <2>3 DEF OnceInv
<1>3. OnceInv => HandledOnce
  <2>1. SUFFICES ASSUME OnceInv, NEW m \in Prompts
                 PROVE  handled[m] <= 1
    BY DEF HandledOnce
  <2>2. CASE m \in Poison
    BY <2>1, <2>2 DEF OnceInv
  <2>3. CASE m \notin Poison
    BY <2>1, <2>3 DEF OnceInv, Tracked
  <2>4. QED
    BY <2>2, <2>3
<1>4. QED
  BY <1>1, <1>2, <1>3, PTL DEF Spec

==================================================================================
