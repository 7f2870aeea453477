---------------------------- MODULE LeaderElection ----------------------------
(***************************************************************************)
(* The lease that decides which daemon runs the heartbeat, cron and task   *)
(* checkpoint runners (src/src/leader/index.ts, as src/src/daemon.ts uses  *)
(* it): a key of a NATS KV bucket that expires unless it is put again.     *)
(*                                                                         *)
(* The code never compares the value of the key, so the lease is only the  *)
(* time the key has left, in ticks.  A tick passes when Tick is taken; the *)
(* environment decides how the ticks fall between the steps.               *)
(***************************************************************************)
EXTENDS Integers, FiniteSets

CONSTANTS
  Daemons,
  LeaseTTL,    \* LEASE_TTL_S, in ticks
  Renewal,     \* RENEWAL_INTERVAL_MS, in ticks
  Timely,      \* TRUE: a due timer fires, and a put is answered, within its tick
  MaxLost,     \* renewals of one daemon that may be lost in a row
  MaxFaults    \* crashes, shutdowns, lost answers and failed starts, together

ASSUME DaemonsAssumption == IsFiniteSet(Daemons)
ASSUME TimesAssumption == LeaseTTL \in Nat \ {0} /\ Renewal \in Nat \ {0}
                          /\ MaxLost \in Nat /\ MaxFaults \in Nat
\* LEASE_TTL_S = 30 s and RENEWAL_INTERVAL_MS = 10 s: "Must be < LEASE_TTL_S",
\* with room for the renewals that may be lost
ASSUME RenewalAssumption == Renewal * (MaxLost + 1) < LeaseTTL
ASSUME SwitchAssumption == Timely \in BOOLEAN

VARIABLES
  lease,      \* ticks until the key expires; 0: there is no key
  phase,      \* where the daemon's start-up or watch loop is
  timer,      \* renewalTimer is set
  due,        \* ticks until the renewal timer fires
  runners,    \* the runners of the daemon are started
  stopping,   \* shutdown() has begun
  inflight,   \* puts sent and not yet applied, by sender
  lost,       \* renewals lost in a row
  faults,
  freed       \* history: a daemon that was shut down deleted the key of another

vars == <<lease, phase, timer, due, runners, stopping, inflight, lost, faults, freed>>

\* acquiring: create sent at start-up; starting, takingOver: leader, the runners
\* being started; leading: started; watching: polling; taking: the poll found no key
Phases == {"down", "acquiring", "starting", "watching", "taking", "takingOver", "leading"}

Up(d) == phase[d] # "down"
\* Leadership as the daemon sees it
Leads(d) == phase[d] \in {"starting", "takingOver", "leading"}

Init ==
  /\ lease = 0
  /\ phase = [d \in Daemons |-> "down"]
  /\ timer = [d \in Daemons |-> FALSE] /\ due = [d \in Daemons |-> Renewal]
  /\ runners = [d \in Daemons |-> FALSE] /\ stopping = [d \in Daemons |-> FALSE]
  /\ inflight = {}
  /\ lost = [d \in Daemons |-> 0] /\ faults = 0 /\ freed = FALSE

Fault == faults < MaxFaults /\ faults' = faults + 1

------------------------------------------------------------------------------
(* Acquiring the lease                                                      *)

Boot(d) ==
  /\ phase[d] = "down"
  /\ phase' = [phase EXCEPT ![d] = "acquiring"]
  /\ UNCHANGED <<lease, timer, due, runners, stopping, inflight, lost, faults, freed>>

\* store.put instead of store.create
CreateOverwrites(d, from, to) ==
  /\ phase[d] = from
  /\ lease' = LeaseTTL
  /\ phase' = [phase EXCEPT ![d] = to]
  /\ timer' = [timer EXCEPT ![d] = TRUE]
  /\ due' = [due EXCEPT ![d] = IF timer[d] THEN @ ELSE Renewal]
  /\ lost' = [lost EXCEPT ![d] = 0]
  /\ UNCHANGED <<runners, stopping, inflight, faults, freed>>

\* the timer is forgotten
CreateNoRenewal(d, from, to) ==
  /\ phase[d] = from /\ lease = 0
  /\ lease' = LeaseTTL
  /\ phase' = [phase EXCEPT ![d] = to]
  /\ UNCHANGED <<timer, due, lost, runners, stopping, inflight, faults, freed>>

\* store.create succeeds, and startLeadershipRenewal sets the timer unless it is set
Create(d, from, to) ==
  /\ phase[d] = from /\ lease = 0
  /\ lease' = LeaseTTL
  /\ phase' = [phase EXCEPT ![d] = to]
  /\ timer' = [timer EXCEPT ![d] = TRUE]
  /\ due' = [due EXCEPT ![d] = IF timer[d] THEN @ ELSE Renewal]
  /\ lost' = [lost EXCEPT ![d] = 0]
  /\ UNCHANGED <<runners, stopping, inflight, faults, freed>>

\* the polling loop returns after a lost race
CreateRefusedGivesUp(d, from) ==
  /\ phase[d] = from /\ lease > 0
  /\ phase' = [phase EXCEPT ![d] = IF from = "taking" THEN "leading" ELSE "watching"]
  /\ UNCHANGED <<lease, timer, due, runners, stopping, inflight, lost, faults, freed>>

\* store.create fails: the key exists
CreateRefused(d, from) ==
  /\ phase[d] = from /\ lease > 0
  /\ phase' = [phase EXCEPT ![d] = "watching"]
  /\ UNCHANGED <<lease, timer, due, runners, stopping, inflight, lost, faults, freed>>

\* The key is created but the answer is an error: tryAcquireLeadership says no.
CreateAnswerLost(d, from) ==
  /\ phase[d] = from /\ lease = 0 /\ Fault
  /\ lease' = LeaseTTL
  /\ phase' = [phase EXCEPT ![d] = "watching"]
  /\ UNCHANGED <<timer, due, runners, stopping, inflight, lost, freed>>

tryAcquireLeadership(d) ==
  \/ Create(d, "acquiring", "starting")
  \/ CreateRefused(d, "acquiring")
  \/ CreateAnswerLost(d, "acquiring")

\* One round of the polling loop finds no key ...
PollFindsNoKey(d) ==
  /\ phase[d] = "watching" /\ lease = 0
  /\ phase' = [phase EXCEPT ![d] = "taking"]
  /\ UNCHANGED <<lease, timer, due, runners, stopping, inflight, lost, faults, freed>>

\* ... and tries to take over, on its own or in a race.
watchForLeadershipVacancy(d) ==
  \/ Create(d, "taking", "takingOver")
  \/ CreateRefused(d, "taking")
  \/ CreateAnswerLost(d, "taking")

RunnersStarted(d) ==
  /\ phase[d] \in {"starting", "takingOver"}
  /\ phase' = [phase EXCEPT ![d] = "leading"]
  /\ runners' = [runners EXCEPT ![d] = TRUE]
  /\ UNCHANGED <<lease, timer, due, stopping, inflight, lost, faults, freed>>

\* onVacancy throws: the loop goes on polling, with the renewal timer running.
RunnersFail(d) ==
  /\ phase[d] = "takingOver" /\ Fault
  /\ phase' = [phase EXCEPT ![d] = "watching"]
  /\ UNCHANGED <<lease, timer, due, runners, stopping, inflight, lost, freed>>

------------------------------------------------------------------------------
(* Renewing it                                                              *)

RenewalFires(d) ==
  /\ timer[d] /\ due[d] = 0 /\ d \notin inflight
  /\ inflight' = inflight \cup {d}
  /\ due' = [due EXCEPT ![d] = Renewal]
  /\ UNCHANGED <<lease, phase, timer, runners, stopping, lost, faults, freed>>

\* A put renews nothing.
PutIgnored(d) ==
  /\ d \in inflight
  /\ inflight' = inflight \ {d}
  /\ lost' = [lost EXCEPT ![d] = 0]
  /\ UNCHANGED <<lease, phase, timer, due, runners, stopping, faults, freed>>

\* store.put writes whatever the key holds, and also when it is gone; it may be
\* the last put of a daemon that has crashed since.
PutApplied(d) ==
  /\ d \in inflight
  /\ inflight' = inflight \ {d}
  /\ lease' = LeaseTTL
  /\ lost' = [lost EXCEPT ![d] = 0]
  /\ UNCHANGED <<phase, timer, due, runners, stopping, faults, freed>>

\* "Failed to renew leadership": the timer keeps trying.
PutLost(d) ==
  /\ d \in inflight /\ lost[d] < MaxLost
  /\ inflight' = inflight \ {d}
  /\ lost' = [lost EXCEPT ![d] = @ + 1]
  /\ UNCHANGED <<lease, phase, timer, due, runners, stopping, faults, freed>>

\* The timers of a daemon are set when a tick may pass.
OnTime(d) == timer[d] => due[d] > 0 /\ d \notin inflight

Tick ==
  /\ Timely => \A d \in Daemons : OnTime(d)
  /\ lease' = IF lease = 0 THEN 0 ELSE lease - 1
  /\ due' = [d \in Daemons |-> IF timer[d] /\ due[d] > 0 THEN due[d] - 1 ELSE due[d]]
  /\ UNCHANGED <<phase, timer, runners, stopping, inflight, lost, faults, freed>>

------------------------------------------------------------------------------
(* The end of a daemon                                                      *)

Gone(d) ==
  /\ phase' = [phase EXCEPT ![d] = "down"]
  /\ timer' = [timer EXCEPT ![d] = FALSE] /\ due' = [due EXCEPT ![d] = Renewal]
  /\ runners' = [runners EXCEPT ![d] = FALSE] /\ stopping' = [stopping EXCEPT ![d] = FALSE]
  /\ lost' = [lost EXCEPT ![d] = 0]

Crash(d) ==
  /\ Up(d) /\ Fault /\ Gone(d)
  /\ UNCHANGED <<lease, inflight, freed>>

\* shutdown(): the runners are stopped first ...
StopRunners(d) ==
  /\ Up(d) /\ ~stopping[d] /\ Fault
  /\ stopping' = [stopping EXCEPT ![d] = TRUE]
  /\ runners' = [runners EXCEPT ![d] = FALSE]
  /\ UNCHANGED <<lease, phase, timer, due, inflight, lost, freed>>

\* ... then the key is deleted, by a leader and by any other daemon, and the
\* process exits.
releaseLeadership(d) ==
  /\ stopping[d]
  /\ lease' = 0
  /\ freed' = (freed \/ \E e \in Daemons \ {d} : Leads(e))
  /\ Gone(d)
  /\ UNCHANGED <<inflight, faults>>

------------------------------------------------------------------------------

Next ==
  \/ \E d \in Daemons : \/ Boot(d)
                        \/ tryAcquireLeadership(d)
                        \/ PollFindsNoKey(d)
                        \/ watchForLeadershipVacancy(d)
                        \/ RunnersStarted(d)
                        \/ RunnersFail(d)
                        \/ RenewalFires(d)
                        \/ PutApplied(d)
                        \/ PutLost(d)
                        \/ Crash(d)
                        \/ StopRunners(d)
                        \/ releaseLeadership(d)
  \/ Tick

Spec == Init /\ [][Next]_vars

\* Timers fire, requests are answered and time passes; nothing else need happen.
Fairness ==
  /\ WF_vars(Tick)
  /\ \A d \in Daemons : /\ WF_vars(tryAcquireLeadership(d))
                        /\ WF_vars(PollFindsNoKey(d))
                        /\ WF_vars(watchForLeadershipVacancy(d))
                        /\ WF_vars(RunnersStarted(d))
                        /\ WF_vars(RenewalFires(d))
                        /\ WF_vars(PutApplied(d) \/ PutLost(d))
                        /\ WF_vars(releaseLeadership(d))

FairSpec == Spec /\ Fairness

------------------------------------------------------------------------------
(* Properties                                                               *)

\* The lease and the daemons' timers hold what they may hold, and a daemon that
\* is down has neither a timer nor runners.
TypeOK ==
  /\ lease \in 0..LeaseTTL
  /\ phase \in [Daemons -> Phases]
  /\ timer \in [Daemons -> BOOLEAN] /\ due \in [Daemons -> 0..Renewal]
  /\ runners \in [Daemons -> BOOLEAN] /\ stopping \in [Daemons -> BOOLEAN]
  /\ inflight \subseteq Daemons
  /\ lost \in [Daemons -> 0..MaxLost] /\ faults \in 0..MaxFaults /\ freed \in BOOLEAN
  /\ \A d \in Daemons : /\ Leads(d) => timer[d]
                        /\ runners[d] => phase[d] = "leading"
                        /\ timer[d] => Up(d)

\* "Only one daemon per role runs the associated work" (src/src/leader/index.ts):
\* heartbeats, cron jobs and checkpoints are fired by one daemon at a time.
OnlyOneRuns == \A d, e \in Daemons : runners[d] /\ runners[e] => d = e

\* It does so through crashes, lost answers and lost or late renewals, and through
\* shutdowns until one of them deletes a key that another daemon leads by.
AtMostOneRunner == freed \/ OnlyOneRuns

\* The lease outlives the work: while a daemon leads, the key exists, so no other
\* daemon can create it, with the same exception.
LeaderHoldsLease ==
  freed \/ \A d \in Daemons : Leads(d) /\ ~stopping[d] => lease > 0

\* The takeover of d failed when it started the runners: it polls for a key that
\* its own renewals keep.
Stuck(d) == phase[d] = "watching" /\ timer[d]

\* "If leader dies, KV entry expires -> another daemon takes over": again and
\* again some daemon runs the runners, unless all of them stay down, or one stays
\* stuck after a failed takeover.
AlwaysLedAgain ==
  \/ <>[](\A d \in Daemons : ~Up(d))
  \/ <>[](\E d \in Daemons : Stuck(d))
  \/ []<>(\E d \in Daemons : runners[d])

==============================================================================
