-------------------------- MODULE LeaderElectionProofs --------------------------
(***************************************************************************)
(* Theorems about LeaderElection, for any number of daemons, faults and    *)
(* lost renewals: the types, and that one daemon runs the runners, with a  *)
(* lease, when timers and answers are on time (Timely = TRUE).             *)
(*                                                                         *)
(* That a leader has a lease is not inductive.  The invariant says how     *)
(* much of the lease is left: no less than what the ticks since the last   *)
(* renewal have used up (Elapsed), counted by the renewals lost in a row,  *)
(* the one in flight and the timer.  RenewalAssumption bounds that.        *)
(***************************************************************************)
EXTENDS LeaderElection, TLAPS

\* Ticks since the key of d was last put, as its timer and its losses show them.
Elapsed(d) == lost[d] * Renewal + (IF d \in inflight THEN Renewal ELSE 0) + (Renewal - due[d])

\* While a put is in flight the timer has just been set.
JustSent == \A d \in inflight : due[d] = Renewal

\* A leader's lease is as long as its last renewal made it, less the ticks since.
Lasts == \A d \in Daemons : Leads(d) => lease >= LeaseTTL - Elapsed(d)

Alone == \A d, e \in Daemons : Leads(d) /\ Leads(e) => d = e

Leased == TypeOK /\ JustSent /\ (freed \/ (Lasts /\ Alone))

\* Renewals lost in a row cost no more than as many as may be lost.
LEMMA LostTicks ==
  ASSUME NEW n \in 0..MaxLost
  PROVE  n * Renewal \in Nat /\ n * Renewal + Renewal < LeaseTTL
<1>1. MaxLost \in Nat /\ Renewal \in Nat /\ LeaseTTL \in Nat
  BY TimesAssumption
<1>2. PICK k \in Nat : MaxLost = n + k
  <2>1. MaxLost - n \in Nat /\ MaxLost = n + (MaxLost - n)
    BY <1>1
  <2>2. QED
    BY <2>1
<1>3. k * Renewal \in Nat /\ n * Renewal \in Nat
  BY <1>1, <1>2
<1>4. Renewal * (MaxLost + 1) = n * Renewal + k * Renewal + Renewal
  BY <1>1, <1>2
<1>5. QED
  BY <1>1, <1>3, <1>4, RenewalAssumption

\* One renewal more that is lost.
LEMMA OneMoreLost ==
  ASSUME NEW n \in Nat
  PROVE  (n + 1) * Renewal = n * Renewal + Renewal
BY TimesAssumption

\* Every step keeps the types.
LEMMA TypeStep ==
  ASSUME TypeOK, [Next]_vars
  PROVE  TypeOK'
<1> USE TimesAssumption DEF TypeOK, Leads, Up, Phases
<1>1. ASSUME NEW d \in Daemons, Boot(d)
      PROVE  TypeOK'
  BY <1>1 DEF Boot
<1>2. ASSUME NEW d \in Daemons, tryAcquireLeadership(d)
      PROVE  TypeOK'
  <2>1. CASE Create(d, "acquiring", "starting")
    BY <2>1 DEF Create
  <2>2. CASE CreateRefused(d, "acquiring")
    BY <2>2 DEF CreateRefused
  <2>3. CASE CreateAnswerLost(d, "acquiring")
    BY <2>3 DEF CreateAnswerLost, Fault
  <2>4. QED
    BY <1>2, <2>1, <2>2, <2>3 DEF tryAcquireLeadership
<1>3. ASSUME NEW d \in Daemons, PollFindsNoKey(d)
      PROVE  TypeOK'
  BY <1>3 DEF PollFindsNoKey
<1>4. ASSUME NEW d \in Daemons, watchForLeadershipVacancy(d)
      PROVE  TypeOK'
  <2>1. CASE Create(d, "taking", "takingOver")
    BY <2>1 DEF Create
  <2>2. CASE CreateRefused(d, "taking")
    BY <2>2 DEF CreateRefused
  <2>3. CASE CreateAnswerLost(d, "taking")
    BY <2>3 DEF CreateAnswerLost, Fault
  <2>4. QED
    BY <1>4, <2>1, <2>2, <2>3 DEF watchForLeadershipVacancy
<1>5. ASSUME NEW d \in Daemons, RunnersStarted(d)
      PROVE  TypeOK'
  BY <1>5 DEF RunnersStarted
<1>6. ASSUME NEW d \in Daemons, RunnersFail(d)
      PROVE  TypeOK'
  BY <1>6 DEF RunnersFail, Fault
<1>7. ASSUME NEW d \in Daemons, RenewalFires(d)
      PROVE  TypeOK'
  BY <1>7 DEF RenewalFires
<1>8. ASSUME NEW d \in Daemons, PutApplied(d)
      PROVE  TypeOK'
  BY <1>8 DEF PutApplied
<1>9. ASSUME NEW d \in Daemons, PutLost(d)
      PROVE  TypeOK'
  BY <1>9 DEF PutLost
<1>10. ASSUME NEW d \in Daemons, Crash(d)
       PROVE  TypeOK'
  BY <1>10 DEF Crash, Gone, Fault
<1>11. ASSUME NEW d \in Daemons, StopRunners(d)
       PROVE  TypeOK'
  BY <1>11 DEF StopRunners, Fault
<1>12. ASSUME NEW d \in Daemons, releaseLeadership(d)
       PROVE  TypeOK'
  BY <1>12 DEF releaseLeadership, Gone
<1>13. CASE Tick
  BY <1>13 DEF Tick
<1>14. CASE UNCHANGED vars
  BY <1>14 DEF vars
<1>15. QED
  BY <1>1, <1>2, <1>3, <1>4, <1>5, <1>6, <1>7, <1>8, <1>9, <1>10, <1>11, <1>12, <1>13, <1>14 DEF Next

\* Every step keeps timers and puts in flight together.
LEMMA JustSentStep ==
  ASSUME Timely = TRUE, TypeOK, JustSent, [Next]_vars
  PROVE  JustSent'
<1> USE TimesAssumption DEF TypeOK, JustSent
<1>1. ASSUME NEW d \in Daemons, Boot(d)
      PROVE  JustSent'
  BY <1>1 DEF Boot
<1>2. ASSUME NEW d \in Daemons, tryAcquireLeadership(d)
      PROVE  JustSent'
  BY <1>2 DEF tryAcquireLeadership, Create, CreateRefused, CreateAnswerLost, Fault
<1>3. ASSUME NEW d \in Daemons, PollFindsNoKey(d)
      PROVE  JustSent'
  BY <1>3 DEF PollFindsNoKey
<1>4. ASSUME NEW d \in Daemons, watchForLeadershipVacancy(d)
      PROVE  JustSent'
  BY <1>4 DEF watchForLeadershipVacancy, Create, CreateRefused, CreateAnswerLost, Fault
<1>5. ASSUME NEW d \in Daemons, RunnersStarted(d)
      PROVE  JustSent'
  BY <1>5 DEF RunnersStarted
<1>6. ASSUME NEW d \in Daemons, RunnersFail(d)
      PROVE  JustSent'
  BY <1>6 DEF RunnersFail, Fault
<1>7. ASSUME NEW d \in Daemons, RenewalFires(d)
      PROVE  JustSent'
  BY <1>7 DEF RenewalFires
<1>8. ASSUME NEW d \in Daemons, PutApplied(d)
      PROVE  JustSent'
  BY <1>8 DEF PutApplied
<1>9. ASSUME NEW d \in Daemons, PutLost(d)
      PROVE  JustSent'
  BY <1>9 DEF PutLost
<1>10. ASSUME NEW d \in Daemons, Crash(d)
       PROVE  JustSent'
  BY <1>10 DEF Crash, Gone, Fault
<1>11. ASSUME NEW d \in Daemons, StopRunners(d)
       PROVE  JustSent'
  BY <1>11 DEF StopRunners, Fault
<1>12. ASSUME NEW d \in Daemons, releaseLeadership(d)
       PROVE  JustSent'
  BY <1>12 DEF releaseLeadership, Gone
<1>13. CASE Tick
  BY <1>13 DEF Tick, OnTime
<1>14. CASE UNCHANGED vars
  BY <1>14 DEF vars
<1>15. QED
  BY <1>1, <1>2, <1>3, <1>4, <1>5, <1>6, <1>7, <1>8, <1>9, <1>10, <1>11, <1>12, <1>13, <1>14 DEF Next

\* While a daemon leads, the key exists, and stays longer than a tick if its timer
\* has yet to fire.
LEMMA LeaseLeft ==
  ASSUME TypeOK, JustSent, Lasts, NEW d \in Daemons, Leads(d)
  PROVE  lease > 0
<1>1. lost[d] * Renewal \in Nat /\ lost[d] * Renewal + Renewal < LeaseTTL
  BY LostTicks DEF TypeOK
<1>2. Elapsed(d) <= lost[d] * Renewal + Renewal
  BY <1>1, TimesAssumption DEF TypeOK, JustSent, Elapsed
<1>3. Elapsed(d) \in Int
  BY <1>1, TimesAssumption DEF TypeOK, Elapsed
<1>4. QED
  BY <1>1, <1>2, <1>3, TimesAssumption DEF Lasts, TypeOK

\* A lease that has just been put is as long as it can be.
LEMMA FreshLease ==
  ASSUME TypeOK', lease' = LeaseTTL
  PROVE  Lasts'
<1> SUFFICES ASSUME NEW e \in Daemons
             PROVE  (lease >= LeaseTTL - Elapsed(e))'
  BY DEF Lasts
<1>1. lost'[e] * Renewal \in Nat
  BY LostTicks DEF TypeOK
<1>2. QED
  BY <1>1, TimesAssumption DEF TypeOK, Elapsed

\* Only the daemon that creates the key begins to lead, and nobody else leads then.
LEMMA CreateAlone ==
  ASSUME TypeOK, JustSent, Lasts, NEW d \in Daemons,
         NEW from, NEW to, Create(d, from, to)
  PROVE  Alone'
<1>1. \A e \in Daemons : ~Leads(e)
  BY LeaseLeft DEF Create
<1>2. \A e \in Daemons : Leads(e)' => e = d
  BY <1>1 DEF Create, Leads, TypeOK
<1>3. QED
  BY <1>2 DEF Alone

\* Nobody begins to lead, and the lease and its timers stay as they are.
LEMMA SameLease ==
  ASSUME TypeOK, Lasts, Alone, UNCHANGED <<lease, due, inflight, lost>>,
         \A e \in Daemons : Leads(e)' => Leads(e)
  PROVE  Lasts' /\ Alone'
BY DEF Lasts, Alone, Elapsed

\* Every step keeps the leader alone and its lease long enough, until a daemon that
\* stops deletes the key of another.
LEMMA LeasedStep ==
  ASSUME Timely = TRUE, TypeOK, JustSent, Lasts, Alone, [Next]_vars, TypeOK', ~freed'
  PROVE  Lasts' /\ Alone'
<1>1. ASSUME NEW d \in Daemons, NEW from, NEW to, Create(d, from, to)
      PROVE  Lasts' /\ Alone'
  BY <1>1, FreshLease, CreateAlone DEF Create
<1>2. ASSUME NEW d \in Daemons, NEW from, CreateRefused(d, from)
      PROVE  Lasts' /\ Alone'
  BY <1>2, SameLease DEF CreateRefused, Leads, TypeOK
<1>3. ASSUME NEW d \in Daemons, NEW from, CreateAnswerLost(d, from)
      PROVE  Lasts' /\ Alone'
  BY <1>3, FreshLease DEF CreateAnswerLost, Leads, Alone, TypeOK
<1>4. ASSUME NEW d \in Daemons, Boot(d) \/ PollFindsNoKey(d) \/ RunnersStarted(d)
                                \/ RunnersFail(d) \/ StopRunners(d)
      PROVE  Lasts' /\ Alone'
  BY <1>4, SameLease DEF Boot, PollFindsNoKey, RunnersStarted, RunnersFail, StopRunners, Leads, TypeOK
<1>5. ASSUME NEW d \in Daemons, RenewalFires(d)
      PROVE  Lasts' /\ Alone'
  <2>1. ASSUME NEW e \in Daemons
        PROVE  Elapsed(e)' = Elapsed(e)
    <3>1. lost'[e] = lost[e] /\ lost[e] * Renewal \in Nat
      BY <1>5, LostTicks DEF RenewalFires, TypeOK
    <3>2. CASE e = d
      BY <1>5, <3>1, <3>2, TimesAssumption DEF RenewalFires, Elapsed, TypeOK
    <3>3. CASE e # d
      BY <1>5, <3>1, <3>3 DEF RenewalFires, Elapsed, TypeOK
    <3>4. QED
      BY <3>2, <3>3
  <2>2. QED
    BY <1>5, <2>1 DEF RenewalFires, Lasts, Alone, Leads
<1>6. ASSUME NEW d \in Daemons, PutApplied(d)
      PROVE  Lasts' /\ Alone'
  BY <1>6, FreshLease DEF PutApplied, Alone, Leads
<1>7. ASSUME NEW d \in Daemons, PutLost(d)
      PROVE  Lasts' /\ Alone'
  <2>1. lost'[d] * Renewal = lost[d] * Renewal + Renewal
    BY <1>7, OneMoreLost DEF PutLost, TypeOK
  <2>2. \A e \in Daemons : Elapsed(e)' = Elapsed(e)
    BY <1>7, <2>1, TimesAssumption, LostTicks DEF PutLost, Elapsed, TypeOK
  <2>3. QED
    BY <1>7, <2>2 DEF PutLost, Lasts, Alone, Leads
<1>8. ASSUME NEW d \in Daemons, Crash(d)
      PROVE  Lasts' /\ Alone'
  BY <1>8 DEF Crash, Gone, Lasts, Alone, Leads, Elapsed, TypeOK
<1>9. ASSUME NEW d \in Daemons, releaseLeadership(d)
      PROVE  Lasts' /\ Alone'
  BY <1>9 DEF releaseLeadership, Gone, Lasts, Alone, Leads, TypeOK
<1>10. CASE Tick
  <2>1. \A e \in Daemons : Leads(e) => /\ due[e] > 0 /\ e \notin inflight
                                       /\ due'[e] = due[e] - 1
    BY <1>10 DEF Tick, OnTime, TypeOK
  <2>2. ASSUME NEW e \in Daemons, Leads(e)
        PROVE  Elapsed(e)' = Elapsed(e) + 1
    BY <1>10, <2>1, <2>2, TimesAssumption, LostTicks DEF Tick, Elapsed, TypeOK
  <2>3. ASSUME NEW e \in Daemons, Leads(e)
        PROVE  (lease >= LeaseTTL - Elapsed(e))'
    <3>1. lease' = lease - 1
      BY <1>10, <2>3, LeaseLeft DEF Tick
    <3>2. lost[e] * Renewal \in Nat
      BY LostTicks DEF TypeOK
    <3>3. Elapsed(e) \in Int
      BY <3>2, TimesAssumption DEF TypeOK, Elapsed
    <3>4. QED
      BY <2>2, <2>3, <3>1, <3>3, TimesAssumption DEF Lasts, TypeOK
  <2>4. QED
    BY <1>10, <2>3 DEF Tick, Lasts, Alone, Leads
<1>11. CASE UNCHANGED vars
  BY <1>11, SameLease DEF vars, Leads
<1>12. QED
  BY <1>1, <1>2, <1>3, <1>4, <1>5, <1>6, <1>7, <1>8, <1>9, <1>10, <1>11
  DEF Next, tryAcquireLeadership, watchForLeadershipVacancy

\* A deleted key stays on record.
LEMMA FreedStays ==
  ASSUME freed, [Next]_vars
  PROVE  freed'
BY DEF Next, vars, Boot, tryAcquireLeadership, watchForLeadershipVacancy, Create, CreateRefused,
       CreateAnswerLost, PollFindsNoKey, RunnersStarted, RunnersFail, RenewalFires, PutApplied,
       PutLost, Crash, StopRunners, releaseLeadership, Tick

\* The types hold at the beginning.
LEMMA TypeInit == Init => TypeOK
<1> SUFFICES ASSUME Init
             PROVE  TypeOK
  OBVIOUS
<1>1. lease \in 0..LeaseTTL /\ faults \in 0..MaxFaults
  BY TimesAssumption DEF Init
<1>2. lost \in [Daemons -> 0..MaxLost] /\ due \in [Daemons -> 0..Renewal]
  BY TimesAssumption DEF Init
<1>3. QED
  BY <1>1, <1>2 DEF Init, TypeOK, Phases, Leads, Up

\* The lease, the timers and the daemons hold what they are declared to hold.
THEOREM TypeCorrect == Spec => []TypeOK
<1>1. Init => TypeOK
  BY TypeInit
<1>2. TypeOK /\ [Next]_vars => TypeOK'
  BY TypeStep
<1>3. QED
  BY <1>1, <1>2, PTL DEF Spec

\* The invariant holds.
LEMMA LeasedCorrect ==
  ASSUME Timely = TRUE
  PROVE  Spec => []Leased
<1>1. Init => Leased
  BY TypeInit DEF Init, Leased, JustSent, Lasts, Alone, Leads
<1>2. Leased /\ [Next]_vars => Leased'
  <2> SUFFICES ASSUME Leased, [Next]_vars
               PROVE  Leased'
    OBVIOUS
  <2>1. TypeOK' /\ JustSent'
    BY TypeStep, JustSentStep DEF Leased
  <2>2. QED
    BY <2>1, LeasedStep, FreedStays DEF Leased
<1>3. QED
  BY <1>1, <1>2, PTL DEF Spec

\* One daemon runs the heartbeat, cron and checkpoint runners at a time, whatever
\* crashes and whichever renewals and answers are lost, until a daemon that is
\* shut down deletes the key of another (leader/index.ts, daemon.ts).
THEOREM OneRunner ==
  ASSUME Timely = TRUE
  PROVE  Spec => []AtMostOneRunner
<1>1. Leased => AtMostOneRunner
  BY DEF Leased, Alone, AtMostOneRunner, OnlyOneRuns, TypeOK, Leads
<1>2. QED
  BY <1>1, LeasedCorrect, PTL

\* While a daemon leads, the key exists.
THEOREM LeaseHeld ==
  ASSUME Timely = TRUE
  PROVE  Spec => []LeaderHoldsLease
<1>1. Leased => LeaderHoldsLease
  BY LeaseLeft DEF Leased, LeaderHoldsLease
<1>2. QED
  BY <1>1, LeasedCorrect, PTL

================================================================================
