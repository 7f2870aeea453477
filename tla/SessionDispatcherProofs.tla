------------------------ MODULE SessionDispatcherProofs ------------------------
(***************************************************************************)
(* Theorems about SessionDispatcher: its type invariant, the bound of the  *)
(* pool, who owns the names it reserves, and whom its queue serves.        *)
(*                                                                         *)
(* PoolBound is not inductive: between the step that admits or keeps a     *)
(* slot and the continuation that uses it, the slot is owed to a start     *)
(* that Used need not count (a model change unmaps the old runtime an      *)
(* await before it reserves).  The inductive invariant bounds the CLAIMS:  *)
(* the slots in use with the sessions of those continuations.  A drain     *)
(* admits a set of starts at once, so the invariant also says that the     *)
(* sets "ahead" order the waiting starts: the last one admitted was        *)
(* counted after all the others.  It needs SettledGap = FALSE: in the gap  *)
(* another handler may take the slot that a continuation was promised.     *)
(*                                                                         *)
(* WorkConserving is not inductive either, for the same reason seen from   *)
(* the other side: a free slot that no waiting start may take is one that  *)
(* a continuation is about to.  The second invariant, Fair, says that the  *)
(* claims leave no slot to a start that waits (Saturated), that the queue  *)
(* is ordered, and that every name in the reservations and in the two      *)
(* start indexes is that of a start in flight, in a phase that will take   *)
(* it out (Owned).  A step is proved to be the installation of a pool      *)
(* that is all this AND serves the queue from its head (FairStep), which   *)
(* gives the order of the admissions too.  Fair does not need SettledGap:  *)
(* these four properties hold whatever runs in the gap.                    *)
(*                                                                         *)
(* Then comes the loop of drainPendingStarts.  The model admits            *)
(* in one step the set that a closed form gives; the loop is shown to      *)
(* come to the same pool, round by round: each round takes one start out   *)
(* of the set and leaves the others in it, and is the last when it is the  *)
(* set's last.                                                             *)
(*                                                                         *)
(* The module ends with the refinement.  Where SettledGap is FALSE the two *)
(* invariants make the dispatcher a SlotPool that holds what is CLAIMED:   *)
(* a step is shown to hand slots over (HandsTo: some claims are given up,  *)
(* the starts of a set served in their order), and Bounded and Saturated   *)
(* of the pool that it installs say that it was their turn.  Two actions   *)
(* hand over and then ask, shutdownAll clears the pool, and every other    *)
(* one only hands over, if anything.                                       *)
(***************************************************************************)
EXTENDS SessionDispatcher, FiniteSetTheorems, TLAPS

Pools == [streaming : [Sessions -> Incs \cup {NoInc}], reservations : SUBSET Sessions,
          pendingStarts : SUBSET Incs, inc : [Incs -> Records]]

PoolOK(P) ==
  /\ P \in Pools
  /\ P.pendingStarts = {i \in Incs : P.inc[i].phase = "waiting"}
  /\ \A i \in Incs : P.inc[i].phase # "unused" => P.inc[i].session \in Sessions

\* Removing a map entry keeps the pool well typed.
LEMMA UnmapOK ==
  ASSUME NEW P, PoolOK(P), NEW s
  PROVE  PoolOK(Unmap(P, s))
BY DEF PoolOK, Pools, Unmap

\* An incarnation is replaced; whether it waits does not change.
LEMMA WithOK ==
  ASSUME NEW P, PoolOK(P), NEW i \in Incs, NEW r \in Records,
         r.phase = "waiting" <=> P.inc[i].phase = "waiting",
         r.phase # "unused" => r.session \in Sessions
  PROVE  PoolOK(With(P, i, r))
BY DEF PoolOK, Pools, With

\* Reserving a slot for a session keeps the pool well typed.
LEMMA ReserveOK ==
  ASSUME NEW P, PoolOK(P), NEW s \in Sessions
  PROVE  PoolOK(Reserve(P, s))
BY DEF PoolOK, Pools, Reserve

\* Giving a reservation back keeps the pool well typed.
LEMMA UnreserveOK ==
  ASSUME NEW P, PoolOK(P), NEW s \in Sessions
  PROVE  PoolOK(Unreserve(P, s))
BY DEF PoolOK, Pools, Unreserve

\* Changing an incarnation's phase, or its place in the queue, changes nothing else.
LEMMA PhaseRecord ==
  ASSUME NEW r \in Records, NEW p \in Phases, NEW A \in SUBSET Incs
  PROVE  /\ [r EXCEPT !.phase = p] \in Records
         /\ [r EXCEPT !.phase = p].phase = p
         /\ [r EXCEPT !.phase = p].session = r.session
         /\ [r EXCEPT !.phase = p].lane = r.lane
         /\ [r EXCEPT !.phase = p].ahead = r.ahead
         /\ [r EXCEPT !.phase = p, !.ahead = A] \in Records
         /\ [r EXCEPT !.phase = p, !.ahead = A].phase = p
         /\ [r EXCEPT !.phase = p, !.ahead = A].ahead = A
         /\ [r EXCEPT !.phase = p, !.ahead = A].session = r.session
         /\ [r EXCEPT !.phase = p, !.ahead = A].lane = r.lane
BY DEF Records

\* Keeping a released slot keeps the pool well typed.
LEMMA RetainOK ==
  ASSUME NEW P, PoolOK(P), NEW j \in Incs,
         P.inc[j].phase # "waiting", P.inc[j].session \in Sessions
  PROVE  PoolOK(Retain(P, j))
<1>1. PICK r \in Records : r = P.inc[j]
  BY DEF PoolOK, Pools
<1>2. PICK q : q = [r EXCEPT !.phase = "reserved"]
  OBVIOUS
<1>3. q \in Records /\ q.phase = "reserved" /\ q.session = r.session
  BY <1>1, <1>2 DEF Records, Phases
<1>4. PICK Q : Q = Reserve(P, r.session)
  OBVIOUS
<1>5. PoolOK(Q) /\ Q.inc = P.inc
  BY <1>1, <1>4, ReserveOK DEF Reserve, PoolOK, Pools
<1>6. PoolOK(With(Q, j, q))
  BY <1>1, <1>3, <1>5, WithOK
<1>7. QED
  BY <1>1, <1>2, <1>4, <1>6 DEF Retain

\* Queueing a start keeps pendingStarts the set of the starts that wait.
LEMMA WaitOK ==
  ASSUME NEW P, PoolOK(P), NEW j \in Incs, P.inc[j].session \in Sessions
  PROVE  PoolOK(Wait(P, j))
<1>1. PICK r \in Records : r = P.inc[j]
  BY DEF PoolOK, Pools
<1>2. PICK q : q = [r EXCEPT !.phase = "waiting", !.ahead = P.pendingStarts]
  OBVIOUS
<1>3. P.pendingStarts \in SUBSET Incs
  BY DEF PoolOK, Pools
<1>4. q \in Records /\ q.phase = "waiting" /\ q.session = r.session
  BY <1>1, <1>2, <1>3 DEF Records, Phases
<1>5. Wait(P, j) = [With(P, j, q) EXCEPT !.pendingStarts = @ \cup {j}]
  BY <1>1, <1>2 DEF Wait
<1>6. PICK f : f = [P.inc EXCEPT ![j] = q]
  OBVIOUS
<1>7. /\ f \in [Incs -> Records]
      /\ f[j].phase = "waiting" /\ f[j].session \in Sessions
      /\ \A i \in Incs \ {j} : f[i] = P.inc[i]
  BY <1>1, <1>4, <1>6 DEF PoolOK, Pools
<1>8. PICK W : W = Wait(P, j)
  OBVIOUS
<1>9. /\ W \in Pools /\ W.inc = f /\ W.pendingStarts = P.pendingStarts \cup {j}
  <2>1. PICK V : V = With(P, j, q)
    OBVIOUS
  <2>2. V \in Pools /\ V.inc = f /\ V.pendingStarts = P.pendingStarts
    BY <1>6, <1>7, <2>1 DEF With, PoolOK, Pools
  <2>3. W = [V EXCEPT !.pendingStarts = @ \cup {j}]
    BY <1>5, <1>8, <2>1
  <2>4. QED
    BY <1>3, <2>2, <2>3 DEF Pools
<1>10. QED
  BY <1>7, <1>8, <1>9 DEF PoolOK

\* So does reserveRuntimeSessionStart, which does one or the other.
LEMMA reserveOK ==
  ASSUME NEW P, PoolOK(P), NEW j \in Incs,
         P.inc[j].phase # "waiting", P.inc[j].session \in Sessions
  PROVE  PoolOK(reserveRuntimeSessionStart(P, j))
BY RetainOK, WaitOK DEF reserveRuntimeSessionStart

\* What Admit does to an incarnation, in the form the other proofs use.
LEMMA AdmitEffect ==
  ASSUME NEW P, P.inc \in [Incs -> Records], NEW A \in SUBSET Incs
  PROVE  /\ Admit(P, A).streaming = P.streaming
         /\ Admit(P, A).reservations = P.reservations \cup SessionsOf(P, A)
         /\ Admit(P, A).pendingStarts = P.pendingStarts \ A
         /\ Admit(P, A).inc \in [Incs -> Records]
         /\ \A i \in A :
              /\ Admit(P, A).inc[i].phase = "admitted" /\ Admit(P, A).inc[i].ahead = {}
              /\ Admit(P, A).inc[i].session = P.inc[i].session
              /\ Admit(P, A).inc[i].lane = P.inc[i].lane
         /\ \A i \in Incs \ A :
              /\ Admit(P, A).inc[i].phase = P.inc[i].phase
              /\ Admit(P, A).inc[i].ahead = P.inc[i].ahead \ A
              /\ Admit(P, A).inc[i].session = P.inc[i].session
              /\ Admit(P, A).inc[i].lane = P.inc[i].lane
<1> DEFINE f == Admit(P, A).inc
<1>1. /\ Admit(P, A).streaming = P.streaming
      /\ Admit(P, A).reservations = P.reservations \cup SessionsOf(P, A)
      /\ Admit(P, A).pendingStarts = P.pendingStarts \ A
  BY DEF Admit
<1>2. /\ f = [i \in Incs |-> f[i]]
      /\ \A i \in A : f[i] = [P.inc[i] EXCEPT !.phase = "admitted", !.ahead = {}]
      /\ \A i \in Incs \ A : f[i] = [P.inc[i] EXCEPT !.ahead = @ \ A]
  BY DEF Admit
<1> HIDE DEF f
<1>3. ASSUME NEW i \in A
      PROVE  /\ f[i] \in Records /\ f[i].phase = "admitted" /\ f[i].ahead = {}
             /\ f[i].session = P.inc[i].session /\ f[i].lane = P.inc[i].lane
  <2>1. PICK r \in Records : r = P.inc[i]
    OBVIOUS
  <2>2. f[i] = [r EXCEPT !.phase = "admitted", !.ahead = {}]
    BY <1>2, <2>1
  <2>3. f[i] \in Records
    BY <2>2 DEF Records, Phases
  <2>4. f[i].phase = "admitted" /\ f[i].ahead = {} /\ f[i].session = r.session /\ f[i].lane = r.lane
    BY <2>2 DEF Records
  <2>5. QED
    BY <2>1, <2>3, <2>4
<1>4. ASSUME NEW i \in Incs \ A
      PROVE  /\ f[i] \in Records /\ f[i].phase = P.inc[i].phase
             /\ f[i].ahead = P.inc[i].ahead \ A
             /\ f[i].session = P.inc[i].session /\ f[i].lane = P.inc[i].lane
  <2>1. PICK r \in Records : r = P.inc[i]
    OBVIOUS
  <2>2. f[i] = [r EXCEPT !.ahead = @ \ A]
    BY <1>2, <2>1
  <2>3. QED
    BY <2>1, <2>2 DEF Records
<1>5. f \in [Incs -> Records]
  BY <1>2, <1>3, <1>4
<1>6. QED
  BY <1>1, <1>3, <1>4, <1>5 DEF f

\* Admitting waiting starts keeps the pool well typed.
LEMMA AdmitOK ==
  ASSUME NEW P, PoolOK(P), NEW A \in SUBSET P.pendingStarts
  PROVE  PoolOK(Admit(P, A))
<1>1. P.inc \in [Incs -> Records] /\ A \in SUBSET Incs
  BY DEF PoolOK, Pools
<1>2. SessionsOf(P, A) \subseteq Sessions
  BY DEF PoolOK, Pools, SessionsOf
<1>3. PICK Q : Q = Admit(P, A)
  OBVIOUS
<1>4. Q = [streaming |-> Q.streaming, reservations |-> Q.reservations,
           pendingStarts |-> Q.pendingStarts, inc |-> Q.inc]
  BY <1>3 DEF Admit
<1>5. /\ Q.streaming = P.streaming
      /\ Q.reservations = P.reservations \cup SessionsOf(P, A)
      /\ Q.pendingStarts = P.pendingStarts \ A
      /\ Q.inc \in [Incs -> Records]
      /\ \A i \in A : Q.inc[i].phase = "admitted" /\ Q.inc[i].session = P.inc[i].session
      /\ \A i \in Incs \ A : Q.inc[i].phase = P.inc[i].phase /\ Q.inc[i].session = P.inc[i].session
  BY <1>1, <1>3, AdmitEffect
<1>6. Q \in Pools
  BY <1>2, <1>4, <1>5 DEF Pools, PoolOK
<1>7. \A i \in Incs : Q.inc[i].phase # "unused" => Q.inc[i].session \in Sessions
  BY <1>5 DEF PoolOK
<1>8. Q.pendingStarts = {i \in Incs : Q.inc[i].phase = "waiting"}
  BY <1>5 DEF PoolOK
<1>9. QED
  BY <1>3, <1>6, <1>7, <1>8 DEF PoolOK

\* drainPendingStarts keeps the pool well typed.
LEMMA DrainOK ==
  ASSUME NEW P, PoolOK(P)
  PROVE  PoolOK(drainPendingStarts(P))
BY AdmitOK DEF drainPendingStarts, DrainedFirst, DrainedLater, InteractiveOf

\* And so does a drain under a condition.
LEMMA DrainIfOK ==
  ASSUME NEW P, PoolOK(P), NEW c \in BOOLEAN
  PROVE  PoolOK(DrainIf(P, c))
BY DrainOK DEF DrainIf

\* Releasing a slot keeps the pool well typed.
LEMMA ReleaseSlotOK ==
  ASSUME NEW P, PoolOK(P), NEW s
  PROVE  PoolOK(ReleaseSlot(P, s))
BY UnmapOK, DrainIfOK DEF ReleaseSlot

\* A drain changes the phase of waiting starts only.
LEMMA DrainKeepsOthers ==
  ASSUME NEW P, PoolOK(P), NEW j \in Incs, P.inc[j].phase # "waiting"
  PROVE  drainPendingStarts(P).inc[j].phase = P.inc[j].phase
<1>1. PICK A : A = DrainedFirst(P) \cup DrainedLater(P)
  OBVIOUS
<1>2. A \in SUBSET P.pendingStarts
  BY <1>1 DEF DrainedFirst, DrainedLater, InteractiveOf
<1>3. A \in SUBSET Incs /\ j \notin A /\ P.inc \in [Incs -> Records]
  BY <1>2 DEF PoolOK, Pools
<1>4. Admit(P, A).inc[j].phase = P.inc[j].phase
  BY <1>3, AdmitEffect
<1>5. QED
  BY <1>1, <1>4 DEF drainPendingStarts

\* Neither does releasing a slot.
LEMMA ReleaseKeepsOthers ==
  ASSUME NEW P, PoolOK(P), NEW s \in Sessions, NEW j \in Incs, P.inc[j].phase # "waiting"
  PROVE  ReleaseSlot(P, s).inc[j].phase = P.inc[j].phase
<1>1. PICK U : U = Unmap(P, s)
  OBVIOUS
<1>2. PoolOK(U) /\ U.inc = P.inc
  BY <1>1, UnmapOK DEF Unmap, PoolOK, Pools
<1>3. QED
  BY <1>1, <1>2, DrainKeepsOthers DEF ReleaseSlot, DrainIf

\* Releasing a reservation keeps the pool well typed.
LEMMA ReleaseReservationOK ==
  ASSUME NEW P, PoolOK(P), NEW s \in Sessions
  PROVE  PoolOK(releaseRuntimeSessionStartReservation(P, s))
BY UnreserveOK, DrainIfOK DEF releaseRuntimeSessionStartReservation

\* And so does the finally of startStreamingSession.
LEMMA FinishedOK ==
  ASSUME NEW P, PoolOK(P), NEW j \in Incs, PoolOK(Now), inc[j].session \in Sessions
  PROVE  PoolOK(Finished(P, j))
<1>1. inc[j].drainAfter \in BOOLEAN
  BY DEF PoolOK, Pools, Now, Records
<1>2. QED
  BY <1>1, ReleaseReservationOK, DrainIfOK DEF Finished

--------------------------------------------------------------------------------
(* The queue has a last element; sets of sessions *)

\* A non-empty finite set of ordered waiting starts has a last one.
LEMMA LastExists ==
  ASSUME NEW X \in SUBSET Incs, X # {}, NEW a \in [Incs -> SUBSET Incs],
         \A i \in X : i \notin a[i],
         \A i \in X : \A k \in X \cap a[i] : a[k] \subseteq a[i],
         \A i, k \in X : i = k \/ i \in a[k] \/ k \in a[i]
  PROVE  \E i \in X : X \subseteq a[i] \cup {i}
<1> DEFINE T == {X \ a[i] : i \in X}
           R == StrictSubsetOrdering(Incs)
<1>1. IsWellFoundedOn(R, SUBSET Incs)
  <2>1. FiniteSubsetsOf(Incs) = SUBSET Incs
    BY FS_FiniteSubsetsOfFinite, IncsAssumption
  <2>2. IsWellFoundedOn(StrictSubsetOrdering(Incs), FiniteSubsetsOf(Incs))
    BY FS_StrictSubsetOrderingWellFounded
  <2>3. QED
    BY <2>1, <2>2
<1>2. T \subseteq SUBSET Incs /\ T # {}
  <2>1. PICK i \in X : TRUE
    OBVIOUS
  <2>2. X \ a[i] \in T
    BY <2>1
  <2>3. T \subseteq SUBSET Incs
    OBVIOUS
  <2>4. QED
    BY <2>2, <2>3
<1>3. PICK x \in T : \A y \in T : <<y, x>> \notin R
  <2> HIDE DEF T, R
  <2>1. QED
    BY <1>1, <1>2, WFMin
<1>4. PICK i \in X : x = X \ a[i]
  BY <1>3
<1>5. ASSUME NEW k \in X, k \notin a[i], k # i
      PROVE  FALSE
  <2>1. i \in a[k] /\ a[i] \subseteq a[k]
    BY <1>5
  <2>2. X \ a[k] \in T /\ X \ a[k] \subseteq x /\ X \ a[k] # x
    BY <1>4, <2>1
  <2>3. <<X \ a[k], x>> \in R
    BY <1>2, <1>3, <2>2 DEF StrictSubsetOrdering
  <2>4. QED
    BY <1>3, <2>2, <2>3
<1>6. QED
  BY <1>5

\* A subset of a bounded set of sessions is bounded.
LEMMA SubsetBound ==
  ASSUME NEW S \in SUBSET Sessions, NEW T \in SUBSET S, NEW n \in Nat, Cardinality(S) <= n
  PROVE  Cardinality(T) \in Nat /\ Cardinality(T) <= n
<1>1. IsFiniteSet(S)
  BY SessionsAssumption, FS_Subset
<1>2. Cardinality(T) <= Cardinality(S) /\ IsFiniteSet(T)
  BY <1>1, FS_Subset
<1>3. QED
  BY <1>1, <1>2, FS_CardinalityType

\* One more session than fewer than n is at most n.
LEMMA AddBound ==
  ASSUME NEW S \in SUBSET Sessions, NEW x \in Sessions, NEW n \in Nat,
         Cardinality(S) < n, NEW T \in SUBSET (S \cup {x})
  PROVE  Cardinality(T) <= n
<1>1. IsFiniteSet(S)
  BY SessionsAssumption, FS_Subset
<1>2. IsFiniteSet(S \cup {x})
  BY <1>1, FS_AddElement
<1>3. Cardinality(S \cup {x}) = IF x \in S THEN Cardinality(S) ELSE Cardinality(S) + 1
  BY <1>1, FS_AddElement
<1>4. Cardinality(S \cup {x}) <= n
  <2>1. Cardinality(S) \in Nat
    BY <1>1, FS_CardinalityType
  <2>2. QED
    BY <1>3, <2>1
<1>5. QED
  BY <1>4, SubsetBound

--------------------------------------------------------------------------------
(* What an action installs, and the records it builds *)

\* The pool that an action installs is the pool of the next state.
LEMMA BecomeOK ==
  ASSUME NEW P, PoolOK(P), Become(P)
  PROVE  PoolOK(Now)'
<1>1. PICK f : f = P.inc
  OBVIOUS
<1>2. /\ P.streaming \in [Sessions -> Incs \cup {NoInc}]
      /\ P.reservations \in SUBSET Sessions
      /\ P.pendingStarts \in SUBSET Incs /\ f \in [Incs -> Records]
      /\ P.pendingStarts = {i \in Incs : f[i].phase = "waiting"}
      /\ \A i \in Incs : f[i].phase # "unused" => f[i].session \in Sessions
  BY <1>1 DEF PoolOK, Pools
<1>3. QED
  BY <1>1, <1>2 DEF Become, PoolOK, Pools, Now

Rest == /\ pendingStartSessions \subseteq Sessions /\ startingSessions \subseteq Sessions
        /\ stash \in [Sessions -> Seq(Prompts)]
        /\ awaiting \in [Prompts -> Incs \cup {NoInc}]
        /\ sent \subseteq Prompts
        /\ stopped \in BOOLEAN

\* The type invariant is that of the pool and that of the rest.
LEMMA TypeOKSplit == TypeOK <=> PoolOK(Now) /\ Rest
BY DEF TypeOK, PoolOK, Pools, Now, Rest

\* The same in the next state.
LEMMA TypeOKSplitNext == TypeOK' <=> PoolOK(Now)' /\ Rest'
BY DEF TypeOK, PoolOK, Pools, Now, Rest

\* The incarnation of a prompt is a record of its session that is unused so far.
LEMMA StartRecord ==
  ASSUME NEW s \in Sessions, NEW m \in Prompts
  PROVE  /\ Start(s, m) \in Records
         /\ Start(s, m).phase = "unused" /\ Start(s, m).session = s
<1>1. <<m>> \in Seq(Prompts)
  OBVIOUS
<1>2. QED
  BY <1>1 DEF Start, Unused, Records, Phases, Lanes, classifyRuntimeSessionStartLane

\* The unused incarnation is well typed.
LEMMA UnusedRecord == Unused \in Records /\ Unused.phase = "unused"
BY DEF Unused, Records, Phases, Lanes

\* The incarnation of a restart is a record of its session that is unused so far.
LEMMA RestartRecord ==
  ASSUME NEW s \in Sessions, NEW lane \in Lanes
  PROVE  /\ Restart(s, lane) \in Records
         /\ [Restart(s, lane) EXCEPT !.drainAfter = TRUE] \in Records
         /\ Restart(s, lane).phase = "unused" /\ Restart(s, lane).session = s
         /\ [Restart(s, lane) EXCEPT !.drainAfter = TRUE].phase = "unused"
         /\ [Restart(s, lane) EXCEPT !.drainAfter = TRUE].session = s
<1>1. PICK r : r = Restart(s, lane)
  OBVIOUS
<1>2. r \in Records /\ r.phase = "unused" /\ r.session = s
  <2>1. PICK u \in Records : u = Unused /\ u.phase = "unused"
    BY UnusedRecord
  <2>2. r = [u EXCEPT !.session = s, !.lane = lane]
    BY <1>1, <2>1 DEF Restart
  <2>3. QED
    BY <2>1, <2>2 DEF Records
<1>3. PICK q : q = [r EXCEPT !.drainAfter = TRUE]
  OBVIOUS
<1>4. q \in Records /\ q.phase = "unused" /\ q.session = s
  BY <1>2, <1>3 DEF Records
<1>5. QED
  BY <1>1, <1>2, <1>3, <1>4

\* Shutting a runtime down changes only its done and aborted flags.
LEMMA ShutdownRecord ==
  ASSUME NEW r \in Records
  PROVE  /\ shutdownRuntimeStreamingSession(r) \in Records
         /\ shutdownRuntimeStreamingSession(r).phase = r.phase
         /\ shutdownRuntimeStreamingSession(r).session = r.session
         /\ shutdownRuntimeStreamingSession(r).lane = r.lane
         /\ shutdownRuntimeStreamingSession(r).ahead = r.ahead
BY DEF Records, shutdownRuntimeStreamingSession

--------------------------------------------------------------------------------
(* Replacing one incarnation *)

\* A step that only replaces one incarnation is a step of the pool.
SetInc(i, r) ==
  /\ inc' = [inc EXCEPT ![i] = r]
  /\ UNCHANGED <<streaming, reservations, pendingStarts>>

\* Replacing one incarnation, outside the queue, keeps the pool well typed.
LEMMA SetOK ==
  ASSUME PoolOK(Now), NEW i \in Incs, NEW r \in Records, SetInc(i, r),
         r.phase = "waiting" <=> inc[i].phase = "waiting",
         r.phase # "unused" => r.session \in Sessions
  PROVE  PoolOK(Now)'
<1>1. Become(With(Now, i, r))
  BY DEF Become, With, Now, SetInc
<1>2. PoolOK(With(Now, i, r))
  BY WithOK DEF Now
<1>3. QED
  BY <1>1, <1>2, BecomeOK

\* The types of the state, in the form the steps use.
LEMMA Types ==
  ASSUME TypeOK
  PROVE  /\ PoolOK(Now)
         /\ \A s \in Sessions : streaming[s] # NoInc => streaming[s] \in Incs
         /\ \A i \in Incs : /\ inc[i] \in Records
                            /\ inc[i].session \in Sessions \cup {NoSession}
                            /\ inc[i].lane \in Lanes /\ inc[i].pending \in Seq(Prompts)
                            /\ inc[i].ahead \in SUBSET Incs
                            /\ inc[i].drainAfter \in BOOLEAN
                            /\ inc[i].phase # "unused" => inc[i].session \in Sessions
<1>1. PoolOK(Now) /\ inc \in [Incs -> Records]
  BY TypeOKSplit DEF TypeOK
<1>2. \A s \in Sessions : streaming[s] # NoInc => streaming[s] \in Incs
  BY DEF TypeOK
<1>3. ASSUME NEW i \in Incs
      PROVE  /\ inc[i] \in Records
             /\ inc[i].session \in Sessions \cup {NoSession}
             /\ inc[i].lane \in Lanes /\ inc[i].pending \in Seq(Prompts)
             /\ inc[i].ahead \in SUBSET Incs
             /\ inc[i].drainAfter \in BOOLEAN
  <2>1. PICK r \in Records : r = inc[i]
    BY <1>1
  <2>2. QED
    BY <2>1 DEF Records
<1>4. \A i \in Incs : inc[i].phase # "unused" => inc[i].session \in Sessions
  BY DEF TypeOK
<1>5. QED
  BY <1>1, <1>2, <1>3, <1>4

\* Shutting a runtime down changes nothing the pool depends on.
LEMMA ShutDownOK ==
  ASSUME NEW P, PoolOK(P), NEW i \in Incs, NEW r \in Records, r = P.inc[i]
  PROVE  PoolOK(With(P, i, shutdownRuntimeStreamingSession(r)))
<1>1. r.phase # "unused" => r.session \in Sessions
  BY DEF PoolOK
<1>2. QED
  BY <1>1, ShutdownRecord, WithOK

\* Stashing a runtime's queue keeps the stash well typed.
LEMMA StashOK ==
  ASSUME TypeOK, NEW r \in Records
  PROVE  stashPendingRuntimeMessages(r) \in [Sessions -> Seq(Prompts)]
<1>1. r.pending \in Seq(Prompts)
  BY DEF Records
<1>2. stash \in [Sessions -> Seq(Prompts)]
  BY DEF TypeOK
<1>3. QED
  BY <1>1, <1>2 DEF stashPendingRuntimeMessages

--------------------------------------------------------------------------------
(* Type correctness of each action *)

\* A record that keeps the phase, the session, the lane and the place in the queue.
Same(r, q) == /\ q.phase = r.phase /\ q.session = r.session
              /\ q.lane = r.lane /\ q.ahead = r.ahead

\* A record that is no start, in place of one that does not wait.
Moves(r, q) ==
  /\ r.phase # "waiting" /\ q.phase # "waiting"
  /\ q.phase \notin Continuing
  /\ q.phase # "unused" => q.session \in Sessions

\* The steps that only change the queue or the flags of a runtime.
InertStep ==
  \/ \E s \in Sessions, m \in Prompts : PromptPushed(s, m)
  \/ \E m \in Prompts : SteerFallsBack(m)
  \/ \E i \in Incs : \/ FirstPull(i)
                     \/ \E k \in 1..Len(inc[i].pending) : TurnEnds(i, k)
                     \/ UnsafeToolStarts(i)
                     \/ \E kind \in {"toolEnd", "fail"} : TakesEvent(i, kind)
                     \/ FailsRecoverably(i)
                     \/ WatchdogAborts(i)
  \/ \E s \in Sessions : AbortDeferred(s)

InertChange ==
  \E i \in Incs : \E q \in Records :
    /\ SetInc(i, q)
    /\ Same(inc[i], q) \/ (Moves(inc[i], q) /\ inc[i].phase = "live" /\ q.phase = "closing")

\* Which incarnation each inert step replaces, and that its phase moves among phases that hold no slot.
LEMMA InertSteps ==
  ASSUME TypeOK, InertStep
  PROVE  InertChange
<1>1. inc \in [Incs -> Records] /\ stash \in [Sessions -> Seq(Prompts)]
  BY DEF TypeOK
<1>2. ASSUME NEW r \in Records, NEW p \in Seq(Prompts), NEW q, q = [r EXCEPT !.pending = p]
      PROVE  q \in Records /\ Same(r, q)
  BY <1>2 DEF Records, Same
<1>3. ASSUME NEW s \in Sessions, NEW m \in Prompts, PromptPushed(s, m)
      PROVE  InertChange
  <2>1. PICK i \in Incs : i = streaming[s]
    BY <1>3, Types DEF PromptPushed
  <2>2. PICK r \in Records : r = inc[i]
    BY Types
  <2>3. PICK p : p = Append(r.pending, m)
    OBVIOUS
  <2>4. p \in Seq(Prompts)
    <3>1. r.pending \in Seq(Prompts)
      BY <2>2, Types
    <3>2. QED
      BY <2>3, <3>1
  <2>5. PICK q : q = [r EXCEPT !.pending = p]
    OBVIOUS
  <2>6. SetInc(i, q)
    BY <1>3, <2>1, <2>2, <2>3, <2>5 DEF PromptPushed, SetInc
  <2>7. QED
    BY <1>2, <2>2, <2>4, <2>5, <2>6 DEF InertChange
<1>4. ASSUME NEW m \in Prompts, SteerFallsBack(m)
      PROVE  InertChange
  <2>1. PICK i \in Incs : i = awaiting[m]
    BY <1>4 DEF SteerFallsBack, TypeOK
  <2>2. PICK r \in Records : r = inc[i]
    BY Types
  <2>3. PICK p : p = IF r.phase = "unused" THEN r.pending ELSE Append(r.pending, m)
    OBVIOUS
  <2>4. p \in Seq(Prompts)
    <3>1. r.pending \in Seq(Prompts)
      BY <2>2, Types
    <3>2. QED
      BY <2>3, <3>1
  <2>5. PICK q : q = [r EXCEPT !.pending = p]
    OBVIOUS
  <2>6. SetInc(i, q)
    BY <1>4, <2>1, <2>2, <2>3, <2>5 DEF SteerFallsBack, SetInc
  <2>7. QED
    BY <1>2, <2>2, <2>4, <2>5, <2>6 DEF InertChange
<1>5. ASSUME NEW i \in Incs, FirstPull(i)
      PROVE  InertChange
  <2>1. PICK r \in Records : r = inc[i]
    BY Types
  <2>2. PICK p : p = stash[r.session] \o r.pending
    OBVIOUS
  <2>3. p \in Seq(Prompts)
    <3>1. r.pending \in Seq(Prompts) /\ r.session \in Sessions
      BY <1>5, <2>1, Types DEF FirstPull
    <3>2. stash[r.session] \in Seq(Prompts)
      BY <1>1, <3>1
    <3>3. QED
      BY <2>2, <3>1, <3>2
  <2>4. PICK q : q = [r EXCEPT !.pulled = TRUE, !.pending = p]
    OBVIOUS
  <2>5. q \in Records /\ Same(r, q)
    BY <2>3, <2>4 DEF Records, Same
  <2>6. SetInc(i, q)
    BY <1>5, <2>1, <2>2, <2>4 DEF FirstPull, SetInc
  <2>7. QED
    BY <2>1, <2>5, <2>6 DEF InertChange
<1>6. ASSUME NEW i \in Incs, NEW k \in 1..Len(inc[i].pending), TurnEnds(i, k)
      PROVE  InertChange
  <2>1. PICK r \in Records : r = inc[i]
    BY Types
  <2>2. PICK p : p = SubSeq(r.pending, k + 1, Len(r.pending))
    OBVIOUS
  <2>3. p \in Seq(Prompts)
    <3>1. r.pending \in Seq(Prompts) /\ k \in 1..Len(r.pending)
      BY <2>1, Types
    <3>2. QED
      BY <2>2, <3>1
  <2>4. PICK q : q = [r EXCEPT !.pending = p, !.unsafe = FALSE, !.pendingAbort = FALSE]
    OBVIOUS
  <2>5. q \in Records /\ Same(r, q)
    BY <2>3, <2>4 DEF Records, Same
  <2>6. SetInc(i, q)
    BY <1>6, <2>1, <2>2, <2>4 DEF TurnEnds, RunStep, SetInc
  <2>7. QED
    BY <2>1, <2>5, <2>6 DEF InertChange
<1>7. ASSUME NEW i \in Incs,
             \/ UnsafeToolStarts(i)
             \/ \E kind \in {"toolEnd", "fail"} : TakesEvent(i, kind)
             \/ FailsRecoverably(i)
             \/ WatchdogAborts(i)
      PROVE  InertChange
  <2>1. PICK r \in Records : r = inc[i]
    BY Types
  <2>2. /\ [r EXCEPT !.unsafe = TRUE] \in Records
        /\ Same(r, [r EXCEPT !.unsafe = TRUE])
    BY DEF Records, Same
  <2>3. \A kind \in {"toolEnd", "fail"} :
          [r EXCEPT !.taken = kind] \in Records /\ Same(r, [r EXCEPT !.taken = kind])
    BY DEF Records, Same
  <2>4. PICK q : q = [r EXCEPT !.taken = "none", !.unsafe = FALSE, !.pendingAbort = FALSE,
                               !.restart = TRUE, !.done = TRUE, !.phase = "closing"]
    OBVIOUS
  <2>5. q \in Records /\ q.phase = "closing" /\ q.session = r.session
    BY <2>4 DEF Records, Phases
  <2>6. /\ [r EXCEPT !.aborted = TRUE] \in Records
        /\ Same(r, [r EXCEPT !.aborted = TRUE])
    BY DEF Records, Same
  <2>7. CASE UnsafeToolStarts(i)
    <3>1. SetInc(i, [r EXCEPT !.unsafe = TRUE])
      BY <2>1, <2>7 DEF UnsafeToolStarts, RunStep, SetInc
    <3>2. QED
      BY <2>1, <2>2, <3>1 DEF InertChange
  <2>8. ASSUME NEW kind \in {"toolEnd", "fail"}, TakesEvent(i, kind)
        PROVE  InertChange
    <3>1. SetInc(i, [r EXCEPT !.taken = kind])
      BY <2>1, <2>8 DEF TakesEvent, RunStep, SetInc
    <3>2. QED
      BY <2>1, <2>3, <3>1 DEF InertChange
  <2>9. CASE FailsRecoverably(i)
    <3>1. SetInc(i, q)
      BY <2>1, <2>4, <2>9 DEF FailsRecoverably, RunStep, SetInc
    <3>2. Moves(r, q) /\ r.phase = "live"
      BY <2>1, <2>5, <2>9, Types DEF FailsRecoverably, Moves, Continuing
    <3>3. QED
      BY <2>1, <2>5, <3>1, <3>2 DEF InertChange
  <2>10. CASE WatchdogAborts(i)
    <3>1. SetInc(i, [r EXCEPT !.aborted = TRUE])
      BY <2>1, <2>10 DEF WatchdogAborts, RunStep, SetInc
    <3>2. QED
      BY <2>1, <2>6, <3>1 DEF InertChange
  <2>11. QED
    BY <1>7, <2>7, <2>8, <2>9, <2>10
<1>8. ASSUME NEW s \in Sessions, AbortDeferred(s)
      PROVE  InertChange
  <2>1. PICK i \in Incs : i = streaming[s]
    BY <1>8, Types DEF AbortDeferred
  <2>2. PICK r \in Records : r = inc[i]
    BY Types
  <2>3. PICK q : q = [r EXCEPT !.pendingAbort = TRUE]
    OBVIOUS
  <2>4. q \in Records /\ Same(r, q)
    BY <2>3 DEF Records, Same
  <2>5. SetInc(i, q)
    BY <1>8, <2>1, <2>2, <2>3 DEF AbortDeferred, RunStep, SetInc
  <2>6. QED
    BY <2>2, <2>4, <2>5 DEF InertChange
<1>9. QED
  BY <1>3, <1>4, <1>5, <1>6, <1>7, <1>8 DEF InertStep

\* The inert steps preserve the type invariant.
LEMMA InertTypes ==
  ASSUME TypeOK, InertStep
  PROVE  TypeOK'
<1>1. PICK i \in Incs : \E q \in Records :
        SetInc(i, q) /\ (Same(inc[i], q) \/ Moves(inc[i], q))
  BY InertSteps DEF InertChange
<1>2. PICK q \in Records : SetInc(i, q) /\ (Same(inc[i], q) \/ Moves(inc[i], q))
  BY <1>1
<1>3. /\ q.phase = "waiting" <=> inc[i].phase = "waiting"
      /\ q.phase # "unused" => q.session \in Sessions
  BY <1>2, Types DEF Same, Moves
<1>4. PoolOK(Now)'
  BY <1>2, <1>3, Types, SetOK
<1>5. stash' \in [Sessions -> Seq(Prompts)]
  <2>1. stash \in [Sessions -> Seq(Prompts)] /\ <<>> \in Seq(Prompts)
    BY DEF TypeOK
  <2>2. \A k \in Incs : stashPendingRuntimeMessages(inc[k]) \in [Sessions -> Seq(Prompts)]
    BY Types, StashOK
  <2>3. QED
    BY <2>1, <2>2 DEF InertStep, PromptPushed, SteerFallsBack, FirstPull, TurnEnds,
                      UnsafeToolStarts, TakesEvent, FailsRecoverably, WatchdogAborts,
                      AbortDeferred
<1>6. sent' \subseteq Prompts
  BY DEF TypeOK, InertStep, PromptPushed, Accepts, SteerFallsBack, FirstPull, TurnEnds,
       UnsafeToolStarts, TakesEvent, FailsRecoverably, WatchdogAborts, AbortDeferred, RunStep
<1>7. awaiting' \in [Prompts -> Incs \cup {NoInc}]
  <2>1. awaiting \in [Prompts -> Incs \cup {NoInc}]
    BY DEF TypeOK
  <2>2. (\E m \in Prompts : SteerFallsBack(m)) \/ UNCHANGED awaiting
    BY DEF InertStep, PromptPushed, FirstPull, TurnEnds, UnsafeToolStarts, TakesEvent,
           FailsRecoverably, WatchdogAborts, AbortDeferred, RunStep
  <2>3. ASSUME NEW m \in Prompts, SteerFallsBack(m)
        PROVE  awaiting' \in [Prompts -> Incs \cup {NoInc}]
    <3>1. awaiting' = [awaiting EXCEPT ![m] = NoInc]
      BY <2>3 DEF SteerFallsBack
    <3>2. QED
      BY <2>1, <3>1
  <2>4. QED
    BY <2>1, <2>2, <2>3
<1>8. UNCHANGED <<pendingStartSessions, startingSessions, stopped>>
  BY DEF InertStep, PromptPushed, SteerFallsBack, FirstPull, TurnEnds,
       UnsafeToolStarts, TakesEvent, FailsRecoverably, WatchdogAborts, AbortDeferred, RunStep
<1>9. Rest'
  BY <1>5, <1>6, <1>7, <1>8, TypeOKSplit DEF Rest
<1>10. QED
  BY <1>4, <1>9, TypeOKSplitNext

\* The steps that leave the pool alone.
LEMMA PoolKeptTypes ==
  ASSUME TypeOK, NEW s \in Sessions, NEW m \in Prompts,
         PromptSteers(s, m) \/ PromptStashed(s, m)
  PROVE  TypeOK'
<1>1. PoolOK(Now)'
  BY TypeOKSplit DEF PromptSteers, PromptStashed, pool, Now, PoolOK
<1>2. CASE PromptSteers(s, m)
  <2>1. awaiting' \in [Prompts -> Incs \cup {NoInc}] /\ sent' \subseteq Prompts
    BY <1>2, Types DEF TypeOK, PromptSteers, Accepts
  <2>2. Rest'
    BY <1>2, <2>1, TypeOKSplit DEF PromptSteers, Rest
  <2>3. QED
    BY <1>1, <2>2, TypeOKSplitNext
<1>3. CASE PromptStashed(s, m)
  <2>1. PICK p : p = Append(stash[s], m)
    OBVIOUS
  <2>2. p \in Seq(Prompts) /\ stash' = [stash EXCEPT ![s] = p]
    BY <1>3, <2>1 DEF TypeOK, PromptStashed
  <2>3. stash' \in [Sessions -> Seq(Prompts)] /\ sent' \subseteq Prompts
    BY <1>3, <2>2 DEF TypeOK, PromptStashed, Accepts
  <2>4. Rest'
    BY <1>3, <2>3, TypeOKSplit DEF PromptStashed, Rest
  <2>5. QED
    BY <1>1, <2>4, TypeOKSplitNext
<1>4. QED
  BY <1>2, <1>3

\* The runtime of s is shut down and out of the map; j is a new start of s.
LEMMA RestartedPool ==
  ASSUME TypeOK, NEW s \in Sessions, streaming[s] # NoInc,
         NEW j \in Incs, inc[j].phase = "unused", NEW q \in Records,
         q.phase # "waiting", q.session = s
  PROVE  LET old == inc[streaming[s]]
             P   == With(With(Unmap(Now, s), streaming[s],
                              shutdownRuntimeStreamingSession(old)), j, q)
         IN  PoolOK(P) /\ P.inc[j] = q
<1>1. PICK i \in Incs : i = streaming[s]
  BY Types
<1>2. PICK r \in Records : r = inc[i]
  BY Types
<1>3. PICK U : U = Unmap(Now, s)
  OBVIOUS
<1>4. PoolOK(U) /\ U.inc = inc
  BY <1>3, Types, UnmapOK DEF Unmap, Now
<1>5. PICK V : V = With(U, i, shutdownRuntimeStreamingSession(r))
  OBVIOUS
<1>6. PoolOK(V)
  BY <1>2, <1>4, <1>5, ShutDownOK
<1>7. V.inc = [inc EXCEPT ![i] = shutdownRuntimeStreamingSession(r)]
  BY <1>4, <1>5, <1>6 DEF With, PoolOK, Pools
<1>8. V.inc[j].phase = "unused"
  <2>1. inc \in [Incs -> Records]
    BY DEF TypeOK
  <2>2. QED
    BY <1>2, <1>7, <2>1, ShutdownRecord
<1>9. PICK W : W = With(V, j, q)
  OBVIOUS
<1>10. PoolOK(W)
  BY <1>6, <1>8, <1>9, WithOK
<1>11. W.inc[j] = q
  BY <1>6, <1>9 DEF With, PoolOK, Pools
<1>12. QED
  BY <1>1, <1>2, <1>3, <1>5, <1>9, <1>10, <1>11

\* The steps by which a prompt begins a start preserve the type invariant.
LEMMA NewStartTypes ==
  ASSUME TypeOK, NEW s \in Sessions, NEW m \in Prompts, NEW j \in Incs,
         \/ PromptRestarts(s, m, j)
         \/ PromptChangesModel(s, m, j)
         \/ PromptReplacesDone(s, m, j)
         \/ PromptColdStarts(s, m, j)
  PROVE  TypeOK'
<1> DEFINE q == Start(s, m)
<1>1. q \in Records /\ q.phase = "unused" /\ q.session = s
  BY StartRecord
<1> HIDE DEF q
<1>2. ASSUME streaming[s] # NoInc
      PROVE  stashPendingRuntimeMessages(inc[streaming[s]]) \in [Sessions -> Seq(Prompts)]
  BY <1>2, Types, StashOK
<1>3. CASE PromptRestarts(s, m, j)
  <2> DEFINE P == With(With(Unmap(Now, s), streaming[s],
                        shutdownRuntimeStreamingSession(inc[streaming[s]])), j, q)
  <2>1. PoolOK(P) /\ P.inc[j] = q
    BY <1>1, <1>3, RestartedPool DEF PromptRestarts, Fresh
  <2>2. Become(Retain(P, j))
    BY <1>3 DEF PromptRestarts, q
  <2> HIDE DEF P
  <2>3. PoolOK(Now)'
    BY <1>1, <2>1, <2>2, RetainOK, BecomeOK
  <2>4. Rest'
    BY <1>2, <1>3, TypeOKSplit DEF PromptRestarts, Rest
  <2>5. QED
    BY <2>3, <2>4, TypeOKSplitNext
<1>4. CASE PromptChangesModel(s, m, j)
  <2> DEFINE r == [q EXCEPT !.phase = "retaining"]
             P == With(With(Unmap(Now, s), streaming[s],
                        shutdownRuntimeStreamingSession(inc[streaming[s]])), j, r)
  <2>1. r \in Records /\ r.phase = "retaining" /\ r.session = s
    BY <1>1 DEF Records, Phases
  <2>2. Become(P)
    BY <1>4 DEF PromptChangesModel, q
  <2> HIDE DEF r
  <2>3. PoolOK(P)
    BY <1>4, <2>1, RestartedPool DEF PromptChangesModel, Fresh
  <2> HIDE DEF P
  <2>4. PoolOK(Now)'
    BY <2>2, <2>3, BecomeOK
  <2>5. Rest'
    BY <1>2, <1>4, TypeOKSplit DEF PromptChangesModel, Rest
  <2>6. QED
    BY <2>4, <2>5, TypeOKSplitNext
<1>5. CASE PromptReplacesDone(s, m, j)
  <2>1. PICK R : R = ReleaseSlot(Now, s)
    OBVIOUS
  <2>2. PoolOK(R)
    BY <2>1, ReleaseSlotOK, Types
  <2>3. R.inc[j].phase # "waiting"
    BY <1>5, <2>1, ReleaseKeepsOthers, Types DEF PromptReplacesDone, Fresh, Now
  <2>4. PICK P : P = With(R, j, q)
    OBVIOUS
  <2>5. PoolOK(P) /\ P.inc[j] = q
    <3>1. PoolOK(P)
      BY <1>1, <2>2, <2>3, <2>4, WithOK
    <3>2. P.inc[j] = q
      BY <2>2, <2>4 DEF With, PoolOK, Pools
    <3>3. QED
      BY <3>1, <3>2
  <2>6. Become(reserveRuntimeSessionStart(P, j))
    BY <1>5, <2>1, <2>4 DEF PromptReplacesDone, q
  <2>7. PoolOK(Now)'
    BY <1>1, <2>5, <2>6, reserveOK, BecomeOK
  <2>8. Rest'
    BY <1>5, TypeOKSplit DEF PromptReplacesDone, Rest
  <2>9. QED
    BY <2>7, <2>8, TypeOKSplitNext
<1>6. CASE PromptColdStarts(s, m, j)
  <2>1. PICK P : P = With(Now, j, q)
    OBVIOUS
  <2>2. PoolOK(P) /\ P.inc[j] = q
    <3>1. PoolOK(P)
      BY <1>1, <1>6, <2>1, WithOK, Types DEF PromptColdStarts, Fresh, Now
    <3>2. P.inc[j] = q
      BY <2>1, Types DEF With, PoolOK, Pools
    <3>3. QED
      BY <3>1, <3>2
  <2>3. Become(reserveRuntimeSessionStart(P, j))
    BY <1>6, <2>1 DEF PromptColdStarts, q
  <2>4. PoolOK(Now)'
    BY <1>1, <2>2, <2>3, reserveOK, BecomeOK
  <2>5. Rest'
    BY <1>6, TypeOKSplit DEF PromptColdStarts, Rest
  <2>6. QED
    BY <2>4, <2>5, TypeOKSplitNext
<1>7. QED
  BY <1>3, <1>4, <1>5, <1>6

\* So do the steps of a start under way.
LEMMA StartTypes ==
  ASSUME TypeOK, NEW j \in Incs,
         \/ ModelChangeContinues(j)
         \/ StartContinues(j)
         \/ BuildSucceeds(j)
         \/ BuildFails(j)
         \/ FailureReported(j)
  PROVE  TypeOK'
<1>1. PICK r \in Records : r = inc[j]
  BY Types
<1>2. r.session \in Sessions /\ PoolOK(Now) /\ Now.inc[j] = r /\ Now.inc = inc
  BY <1>1, Types DEF ModelChangeContinues, StartContinues, BuildSucceeds, BuildFails,
                     FailureReported, Now
<1>3. CASE ModelChangeContinues(j)
  <2>1. PoolOK(Now)'
    BY <1>1, <1>2, <1>3, RetainOK, BecomeOK DEF ModelChangeContinues
  <2>2. Rest'
    BY <1>1, <1>2, <1>3, TypeOKSplit DEF ModelChangeContinues, Rest
  <2>3. QED
    BY <2>1, <2>2, TypeOKSplitNext
<1>4. CASE StartContinues(j)
  <2>1. PICK q : q = [r EXCEPT !.phase = "building"]
    OBVIOUS
  <2>2. q \in Records /\ q.phase = "building" /\ q.session = r.session
    BY <2>1 DEF Records, Phases
  <2>3. inc' = [inc EXCEPT ![j] = q]
    BY <1>1, <1>4, <2>1 DEF StartContinues
  <2>4. PICK g \in [Incs -> Records] : g = inc
    BY DEF TypeOK
  <2>5. /\ inc' \in [Incs -> Records]
        /\ pendingStarts' = {i \in Incs : inc'[i].phase = "waiting"}
        /\ \A i \in Incs : inc'[i].phase # "unused" => inc'[i].session \in Sessions
    <3>1. inc' = [g EXCEPT ![j] = q]
      BY <2>3, <2>4
    <3>2. inc' \in [Incs -> Records] /\ inc'[j] = q /\ \A i \in Incs \ {j} : inc'[i] = g[i]
      BY <2>2, <3>1
    <3>3. /\ pendingStarts' = {i \in Incs : g[i].phase = "waiting"} /\ g[j].phase # "waiting"
          /\ \A i \in Incs : g[i].phase # "unused" => g[i].session \in Sessions
      BY <1>4, <2>4 DEF TypeOK, StartContinues
    <3>4. pendingStarts' = {i \in Incs : inc'[i].phase = "waiting"}
      BY <2>2, <3>2, <3>3
    <3>5. QED
      BY <1>2, <2>2, <3>2, <3>3, <3>4
  <2>6. /\ streaming' \in [Sessions -> Incs \cup {NoInc}]
        /\ reservations' \subseteq Sessions
        /\ pendingStartSessions' \subseteq Sessions /\ startingSessions' \subseteq Sessions
    BY <1>1, <1>2, <1>4 DEF TypeOK, StartContinues
  <2>7. QED
    BY <1>4, <2>5, <2>6 DEF TypeOK, StartContinues
<1>5. CASE BuildSucceeds(j)
  <2>1. PICK q : q = [r EXCEPT !.phase = "live", !.drainAfter = FALSE]
    OBVIOUS
  <2>2. q \in Records /\ q.phase = "live" /\ q.session = r.session
    BY <2>1 DEF Records, Phases
  <2>3. PoolOK(With(Now, j, q))
    BY <1>1, <1>2, <1>5, <2>2, WithOK DEF BuildSucceeds
  <2>4. Become(Finished(With(Now, j, q), j))
    BY <1>1, <1>5, <2>1 DEF BuildSucceeds
  <2>5. PoolOK(Now)'
    BY <1>1, <1>2, <2>3, <2>4, FinishedOK, BecomeOK
  <2>6. Rest'
    BY <1>5, TypeOKSplit DEF BuildSucceeds, FinallySessions, Rest
  <2>7. QED
    BY <2>5, <2>6, TypeOKSplitNext
<1>6. CASE BuildFails(j)
  <2>1. PICK d \in Records : /\ d = shutdownRuntimeStreamingSession(r)
                             /\ d.session = r.session
    BY ShutdownRecord
  <2>2. PICK q : q = [d EXCEPT !.phase = "failing", !.pending = <<>>]
    OBVIOUS
  <2>3. q \in Records /\ q.phase = "failing" /\ q.session = r.session
    <3>1. <<>> \in Seq(Prompts) /\ "failing" \in Phases
      BY DEF Phases
    <3>2. QED
      BY <2>1, <2>2, <3>1 DEF Records
  <2>4. PoolOK(With(Now, j, q))
    BY <1>1, <1>2, <1>6, <2>3, WithOK DEF BuildFails
  <2>5. PoolOK(drainPendingStarts(Unmap(With(Now, j, q), r.session)))
    BY <1>2, <2>4, UnmapOK, DrainOK
  <2>6. Become(drainPendingStarts(Unmap(With(Now, j, q), r.session)))
    BY <1>1, <1>6, <2>1, <2>2 DEF BuildFails
  <2>7. PoolOK(Now)'
    BY <2>5, <2>6, BecomeOK
  <2>8. Rest'
    BY <1>6, TypeOKSplit DEF BuildFails, Rest
  <2>9. QED
    BY <2>7, <2>8, TypeOKSplitNext
<1>7. CASE FailureReported(j)
  <2>1. PoolOK(With(Now, j, Unused))
    BY <1>1, <1>2, <1>7, UnusedRecord, WithOK DEF FailureReported
  <2>2. PoolOK(Now)'
    BY <1>1, <1>2, <1>7, <2>1, FinishedOK, BecomeOK DEF FailureReported
  <2>3. Rest'
    BY <1>7, TypeOKSplit DEF FailureReported, FinallySessions, Rest
  <2>4. QED
    BY <2>2, <2>3, TypeOKSplitNext
<1>8. QED
  BY <1>3, <1>4, <1>5, <1>6, <1>7

\* So does tool.completed, with its deferred abort.
LEMMA ToolCompletesTypes ==
  ASSUME TypeOK, NEW i \in Incs, ToolCompletes(i)
  PROVE  TypeOK'
<1>1. PICK r \in Records : r = inc[i]
  BY Types
<1>2. r.session \in Sessions /\ r.phase = "live"
  BY <1>1, Types DEF ToolCompletes
<1>3. PICK q : q = [r EXCEPT !.taken = "none", !.unsafe = FALSE]
  OBVIOUS
<1>4. q \in Records /\ q.phase = r.phase /\ q.session = r.session
  BY <1>3 DEF Records
<1>5. CASE r.pendingAbort
  <2>1. PICK a : a = [q EXCEPT !.aborted = TRUE]
    OBVIOUS
  <2>2. a \in Records /\ a.phase = r.phase /\ a.session = r.session
    BY <1>4, <2>1 DEF Records
  <2>3. Become(ReleaseSlot(With(Now, i, a), r.session))
    BY <1>1, <1>3, <1>4, <1>5, <2>1 DEF ToolCompletes
  <2>4. PoolOK(With(Now, i, a))
    BY <1>1, <1>2, <2>2, WithOK, Types DEF Now
  <2>5. PoolOK(Now)'
    BY <2>3, <2>4, ReleaseSlotOK, BecomeOK
  <2>6. stash' = stashPendingRuntimeMessages(q)
    BY <1>1, <1>3, <1>5 DEF ToolCompletes
  <2>7. Rest'
    BY <1>4, <2>6, StashOK, TypeOKSplit DEF ToolCompletes, Rest
  <2>8. QED
    BY <2>5, <2>7, TypeOKSplitNext
<1>6. CASE ~r.pendingAbort
  <2>1. Become(With(Now, i, q)) /\ UNCHANGED stash
    BY <1>1, <1>3, <1>6 DEF ToolCompletes
  <2>2. PoolOK(With(Now, i, q))
    BY <1>1, <1>2, <1>4, WithOK, Types DEF Now
  <2>3. PoolOK(Now)'
    BY <2>1, <2>2, BecomeOK
  <2>4. Rest'
    BY <2>1, TypeOKSplit DEF ToolCompletes, Rest
  <2>5. QED
    BY <2>3, <2>4, TypeOKSplitNext
<1>7. QED
  BY <1>5, <1>6

\* So does the finally of the event loop.
LEMMA EventLoopEndsTypes ==
  ASSUME TypeOK, NEW i \in Incs, NEW j \in Incs, EventLoopEnds(i, j)
  PROVE  TypeOK'
<1> DEFINE s == inc[i].session
           P == With(Unmap(Now, s), i, Unused)
<1>1. /\ s \in Sessions /\ inc[i].phase # "waiting" /\ inc[i].lane \in Lanes
      /\ PoolOK(Now)
  BY Types DEF EventLoopEnds
<1>2. PoolOK(P) /\ P.inc = [inc EXCEPT ![i] = Unused]
  <2>1. PICK U : U = Unmap(Now, s)
    OBVIOUS
  <2>2. PoolOK(U) /\ U.inc = inc
    BY <1>1, <2>1, UnmapOK DEF Unmap, Now
  <2>3. PoolOK(With(U, i, Unused))
    BY <1>1, <2>2, UnusedRecord, WithOK
  <2>4. With(U, i, Unused).inc = [inc EXCEPT ![i] = Unused]
    BY <2>2 DEF With, PoolOK, Pools
  <2>5. QED
    BY <2>1, <2>3, <2>4
<1>3. CASE streaming[s] # NoInc /\ inc[i].restart /\ stash[s] # <<>>
  <2> DEFINE q == [Restart(s, inc[i].lane) EXCEPT !.drainAfter = TRUE]
  <2>1. q \in Records /\ q.phase = "unused" /\ q.session = s
    BY <1>1, RestartRecord
  <2>2. /\ Fresh(j) /\ Become(Retain(With(P, j, q), j))
        /\ pendingStartSessions' = pendingStartSessions \cup {s}
    BY <1>3 DEF EventLoopEnds
  <2> HIDE DEF q, P
  <2>3. P.inc[j].phase # "waiting"
    <3>1. inc \in [Incs -> Records] /\ Unused.phase = "unused"
      BY UnusedRecord DEF TypeOK
    <3>2. QED
      BY <1>2, <2>2, <3>1 DEF Fresh
  <2>4. PICK W : W = With(P, j, q)
    OBVIOUS
  <2>5. PoolOK(W)
    BY <1>2, <2>1, <2>3, <2>4, WithOK
  <2>6. W.inc[j] = q
    BY <1>2, <2>4 DEF With, PoolOK, Pools
  <2>7. PoolOK(Now)'
    BY <1>1, <2>1, <2>2, <2>4, <2>5, <2>6, RetainOK, BecomeOK
  <2>8. Rest'
    BY <1>1, <2>2, TypeOKSplit DEF EventLoopEnds, Rest
  <2>9. QED
    BY <2>7, <2>8, TypeOKSplitNext
<1>4. CASE ~(streaming[s] # NoInc /\ inc[i].restart /\ stash[s] # <<>>)
  <2>1. /\ Become(DrainIf(P, streaming[s] # NoInc))
        /\ UNCHANGED pendingStartSessions
    BY <1>4 DEF EventLoopEnds
  <2> HIDE DEF P
  <2>2. PoolOK(Now)'
    BY <1>2, <2>1, DrainIfOK, BecomeOK
  <2>3. Rest'
    BY <2>1, TypeOKSplit DEF EventLoopEnds, Rest
  <2>4. QED
    BY <2>2, <2>3, TypeOKSplitNext
<1>5. QED
  BY <1>3, <1>4

\* So do aborts, model changes and the idle-gap recovery.
LEMMA ControlTypes ==
  ASSUME TypeOK, NEW s \in Sessions,
         \/ abortSession(s)
         \/ ModelChanged(s)
         \/ \E j \in Incs : recoverIdleGapSession(s, j)
  PROVE  TypeOK'
<1>1. PICK i \in Incs : i = streaming[s]
  BY Types DEF abortSession, ModelChanged, recoverIdleGapSession
<1>2. PICK r \in Records : r = inc[i]
  BY Types
<1>5. CASE ShutDownAndRelease(s)
  <2>1. PICK d : d = With(Now, i, shutdownRuntimeStreamingSession(r))
    OBVIOUS
  <2>2. PoolOK(d)
    BY <1>2, <2>1, Types, ShutDownOK DEF Now
  <2>3. Become(ReleaseSlot(d, s))
    BY <1>1, <1>2, <1>5, <2>1 DEF ShutDownAndRelease
  <2>4. PoolOK(Now)'
    BY <2>2, <2>3, ReleaseSlotOK, BecomeOK
  <2>5. stash' \in [Sessions -> Seq(Prompts)]
    BY <1>1, <1>2, <1>5, StashOK DEF ShutDownAndRelease
  <2>6. Rest'
    BY <1>5, <2>5, TypeOKSplit DEF ShutDownAndRelease, Rest
  <2>7. QED
    BY <2>4, <2>6, TypeOKSplitNext
<1>6. ASSUME NEW j \in Incs, recoverIdleGapSession(s, j)
      PROVE  TypeOK'
  <2> DEFINE q == Restart(s, r.lane)
             P == With(With(Unmap(Now, s), streaming[s],
                        shutdownRuntimeStreamingSession(inc[streaming[s]])), j, q)
  <2>1. q \in Records /\ q.phase = "unused" /\ q.session = s
    BY <1>2, Types, RestartRecord
  <2>2. Become(Retain(P, j))
    BY <1>1, <1>2, <1>6 DEF recoverIdleGapSession
  <2> HIDE DEF q
  <2>3. PoolOK(P) /\ P.inc[j] = q
    BY <1>6, <2>1, RestartedPool DEF recoverIdleGapSession, Fresh
  <2> HIDE DEF P
  <2>4. PoolOK(Now)'
    BY <2>1, <2>2, <2>3, RetainOK, BecomeOK
  <2>5. stash' \in [Sessions -> Seq(Prompts)]
    BY <1>1, <1>2, <1>6, StashOK DEF recoverIdleGapSession
  <2>6. Rest'
    BY <1>6, <2>5, TypeOKSplit DEF recoverIdleGapSession, Rest
  <2>7. QED
    BY <2>4, <2>6, TypeOKSplitNext
<1>7. QED
  BY <1>5, <1>6 DEF abortSession, ModelChanged

\* So does shutdownAll.
LEMMA ShutdownAllTypes ==
  ASSUME TypeOK, shutdownAll
  PROVE  TypeOK'
<1>1. inc \in [Incs -> Records] /\ pendingStarts = {i \in Incs : inc[i].phase = "waiting"}
  BY DEF TypeOK
<1>2. ASSUME NEW i \in Incs
      PROVE  /\ inc'[i] \in Records /\ inc'[i].phase # "waiting"
             /\ inc'[i].phase # "unused" => inc'[i].session \in Sessions
  <2>1. PICK r \in Records : r = inc[i]
    BY <1>1
  <2>2. CASE i \in pendingStarts
    <3>1. inc'[i] = Unused
      BY <2>2 DEF shutdownAll
    <3>2. QED
      BY <3>1, UnusedRecord
  <2>3. CASE i \notin pendingStarts
    <3>1. inc'[i] = r \/ inc'[i] = shutdownRuntimeStreamingSession(r)
      BY <2>1, <2>3 DEF shutdownAll
    <3>2. r.phase # "waiting" /\ (r.phase # "unused" => r.session \in Sessions)
      BY <1>1, <2>1, <2>3 DEF TypeOK
    <3>3. QED
      BY <3>1, <3>2, ShutdownRecord
  <2>4. QED
    BY <2>2, <2>3
<1>3. inc' \in [Incs -> Records]
  <2>1. inc' = [i \in Incs |-> inc'[i]]
    BY DEF shutdownAll
  <2>2. QED
    BY <1>2, <2>1
<1>4. QED
  BY <1>2, <1>3 DEF TypeOK, shutdownAll

\* TypeOK is inductive by itself, whatever the continuations may be overtaken by.
LEMMA TypeStep ==
  ASSUME TypeOK, [Next]_vars
  PROVE  TypeOK'
<1>1. CASE PromptStep
  BY <1>1, InertTypes, PoolKeptTypes, NewStartTypes DEF PromptStep, InertStep
<1>2. CASE SteerStep
  <2>1. ASSUME NEW m \in Prompts, SteerAccepted(m)
        PROVE  TypeOK'
    BY <2>1, TypeOKSplit, TypeOKSplitNext DEF SteerAccepted, pool, Now, PoolOK, Rest
  <2>2. QED
    BY <1>2, <2>1, InertTypes DEF SteerStep, InertStep
<1>3. CASE StartStep
  BY <1>3, StartTypes DEF StartStep
<1>4. CASE RuntimeStep
  BY <1>4, InertTypes, ToolCompletesTypes, EventLoopEndsTypes DEF RuntimeStep, InertStep
<1>5. CASE ControlStep
  BY <1>5, InertTypes, ControlTypes, ShutdownAllTypes DEF ControlStep, InertStep
<1>6. CASE UNCHANGED vars
  BY <1>6 DEF vars, TypeOK
<1>7. QED
  BY <1>1, <1>2, <1>3, <1>4, <1>5, <1>6 DEF Next

\* The initial state is well typed.
LEMMA TypeInit == Init => TypeOK
<1> SUFFICES ASSUME Init PROVE TypeOK
  OBVIOUS
<1>1. <<>> \in Seq(Prompts)
  OBVIOUS
<1>2. inc \in [Incs -> Records] /\ \A i \in Incs : inc[i].phase = "unused"
  BY UnusedRecord DEF Init
<1>3. QED
  BY <1>1, <1>2 DEF Init, TypeOK

\* Every reachable state of the dispatcher is well typed, whatever the number of
\* sessions, starts and prompts.
THEOREM TypeCorrect == Spec => []TypeOK
BY TypeInit, TypeStep, PTL DEF Spec

--------------------------------------------------------------------------------
(* The strengthening: claims are bounded and the queue is ordered *)

\* The waiting starts are ordered by their ahead sets.
Ordered(P) ==
  \A i \in P.pendingStarts :
    /\ P.inc[i].ahead \subseteq P.pendingStarts \ {i}
    /\ \A k \in P.inc[i].ahead : P.inc[k].ahead \subseteq P.inc[i].ahead
    /\ \A k \in P.pendingStarts : k = i \/ k \in P.inc[i].ahead \/ i \in P.inc[k].ahead

Bounded(P) == Cardinality(Claims(P)) <= MaxSessions

Sound(P) == PoolOK(P) /\ Ordered(P) /\ Bounded(P)

\* No continuation is outstanding; those that are have their slot already.
Calm(P) == ContinuationsOf(P) = {}
Settled(P) == SessionsOf(P, ContinuationsOf(P)) \subseteq Used(P)

\* The claims are a finite set of sessions.
LEMMA ClaimsType ==
  ASSUME NEW P, PoolOK(P)
  PROVE  /\ Claims(P) \in SUBSET Sessions /\ Used(P) \in SUBSET Sessions
         /\ SessionsOf(P, P.pendingStarts) \in SUBSET Sessions
         /\ MaxSessions \in Nat
<1>1. Used(P) \in SUBSET Sessions
  BY DEF PoolOK, Pools, Used, Mapped
<1>2. SessionsOf(P, ContinuationsOf(P)) \in SUBSET Sessions
  BY DEF PoolOK, SessionsOf, ContinuationsOf, Continuing
<1>3. SessionsOf(P, P.pendingStarts) \in SUBSET Sessions
  BY DEF PoolOK, SessionsOf
<1>4. QED
  BY <1>1, <1>2, <1>3, LimitsAssumption DEF Claims

\* A pool whose waiting starts are those of P, and which claims no more.
LEMMA SmallerSound ==
  ASSUME NEW P, Sound(P), NEW Q, PoolOK(Q),
         Q.pendingStarts = P.pendingStarts,
         \A i \in P.pendingStarts : Q.inc[i].ahead = P.inc[i].ahead,
         Claims(Q) \subseteq Claims(P)
  PROVE  Sound(Q)
<1>1. Ordered(Q)
  BY DEF Sound, Ordered
<1>2. Bounded(Q)
  BY ClaimsType, SubsetBound DEF Sound, Bounded
<1>3. QED
  BY <1>1, <1>2 DEF Sound

\* Removing a map entry keeps the pool sound.
LEMMA UnmapSound ==
  ASSUME NEW P, Sound(P), NEW s \in Sessions
  PROVE  /\ Sound(Unmap(P, s))
         /\ Used(Unmap(P, s)) \subseteq Used(P)
         /\ Unmap(P, s).inc = P.inc
         /\ Calm(P) => Calm(Unmap(P, s))
<1>1. PICK Q : Q = Unmap(P, s)
  OBVIOUS
<1>2. PoolOK(Q)
  BY <1>1, UnmapOK DEF Sound
<1>3. /\ Q.inc = P.inc /\ Q.pendingStarts = P.pendingStarts
      /\ Q.reservations = P.reservations
      /\ Q.streaming = [P.streaming EXCEPT ![s] = NoInc]
  BY <1>1 DEF Unmap, Sound, PoolOK, Pools
<1>4. Used(Q) \subseteq Used(P)
  BY <1>3 DEF Used, Mapped, Sound, PoolOK, Pools
<1>5. /\ Claims(Q) \subseteq Claims(P)
      /\ Calm(P) => Calm(Q)
  BY <1>3, <1>4 DEF Claims, Calm, ContinuationsOf, SessionsOf
<1>6. Sound(Q)
  BY <1>2, <1>3, <1>5, SmallerSound
<1>7. QED
  BY <1>1, <1>3, <1>4, <1>5, <1>6

\* So does giving back a reservation.
LEMMA UnreserveSound ==
  ASSUME NEW P, Sound(P), NEW s \in Sessions
  PROVE  /\ Sound(Unreserve(P, s))
         /\ Calm(P) => Calm(Unreserve(P, s))
<1>1. PICK Q : Q = Unreserve(P, s)
  OBVIOUS
<1>2. PoolOK(Q)
  BY <1>1, UnreserveOK DEF Sound
<1>3. /\ Q.inc = P.inc /\ Q.pendingStarts = P.pendingStarts
      /\ Q.reservations = P.reservations \ {s} /\ Q.streaming = P.streaming
  BY <1>1 DEF Unreserve, Sound, PoolOK, Pools
<1>4. /\ Claims(Q) \subseteq Claims(P)
      /\ Calm(P) => Calm(Q)
  BY <1>3 DEF Claims, Used, Mapped, Calm, ContinuationsOf, SessionsOf
<1>5. QED
  BY <1>1, <1>2, <1>3, <1>4, SmallerSound

\* So does replacing an incarnation, when it claims nothing new.
LEMMA WithSound ==
  ASSUME NEW P, Sound(P), NEW i \in Incs, NEW r \in Records,
         Same(P.inc[i], r) \/ Moves(P.inc[i], r)
  PROVE  /\ Sound(With(P, i, r))
         /\ Used(With(P, i, r)) = Used(P)
         /\ With(P, i, r).inc = [P.inc EXCEPT ![i] = r]
         /\ With(P, i, r).inc[i] = r
         /\ Calm(P) => Calm(With(P, i, r))
         /\ Settled(P) => Settled(With(P, i, r))
<1>1. PICK Q : Q = With(P, i, r)
  OBVIOUS
<1>2. PICK g \in [Incs -> Records] : g = P.inc
  BY DEF Sound, PoolOK, Pools
<1>3. \A k \in Incs : g[k].phase # "unused" => g[k].session \in Sessions
  BY <1>2 DEF Sound, PoolOK
<1>4. PoolOK(Q)
  BY <1>1, <1>2, <1>3, WithOK DEF Sound, Same, Moves
<1>5. /\ Q.inc = [g EXCEPT ![i] = r] /\ Q.pendingStarts = P.pendingStarts
      /\ Q.reservations = P.reservations /\ Q.streaming = P.streaming
  BY <1>1, <1>2 DEF With, Sound, PoolOK, Pools
<1>6. Q.inc[i] = r /\ \A k \in Incs \ {i} : Q.inc[k] = g[k]
  BY <1>2, <1>5
<1>7. Used(Q) = Used(P)
  BY <1>5 DEF Used, Mapped
<1>8. /\ ContinuationsOf(Q) \subseteq ContinuationsOf(P)
      /\ \A k \in ContinuationsOf(Q) : Q.inc[k].session = g[k].session
  BY <1>2, <1>6 DEF ContinuationsOf, Same, Moves
<1>9. SessionsOf(Q, ContinuationsOf(Q)) \subseteq SessionsOf(P, ContinuationsOf(P))
  BY <1>2, <1>8 DEF SessionsOf
<1>10. \A k \in P.pendingStarts : Q.inc[k].ahead = P.inc[k].ahead
  BY <1>2, <1>6 DEF Sound, PoolOK, Same, Moves
<1>11. Sound(Q)
  BY <1>4, <1>5, <1>7, <1>9, <1>10, SmallerSound DEF Claims
<1>12. Calm(P) => Calm(Q)
  BY <1>8 DEF Calm
<1>13. Settled(P) => Settled(Q)
  BY <1>7, <1>9 DEF Settled
<1>14. QED
  BY <1>1, <1>2, <1>5, <1>6, <1>7, <1>11, <1>12, <1>13

\* Of the waiting starts of a set, one is behind all the others.
LEMMA LastStart ==
  ASSUME NEW P, Sound(P), NEW X \in SUBSET P.pendingStarts, X # {}
  PROVE  \E i \in X : X \subseteq P.inc[i].ahead \cup {i}
<1> DEFINE a == [i \in Incs |-> P.inc[i].ahead]
<1>1. a \in [Incs -> SUBSET Incs]
  <2>1. ASSUME NEW i \in Incs PROVE P.inc[i].ahead \in SUBSET Incs
    <3>1. PICK r \in Records : r = P.inc[i]
      BY DEF Sound, PoolOK, Pools
    <3>2. QED
      BY <3>1 DEF Records
  <2>2. QED
    BY <2>1
<1>2. X \in SUBSET Incs
  BY DEF Sound, PoolOK, Pools
<1>3. \A i \in X : a[i] = P.inc[i].ahead
  BY <1>2
<1>4. /\ \A i \in X : i \notin a[i]
      /\ \A i, k \in X : i = k \/ i \in a[k] \/ k \in a[i]
  BY <1>3 DEF Sound, Ordered
<1>5. \A i \in X : \A k \in X \cap a[i] : a[k] \subseteq a[i]
  BY <1>3 DEF Sound, Ordered
<1> HIDE DEF a
<1>6. \E i \in X : X \subseteq a[i] \cup {i}
  BY <1>1, <1>2, <1>4, <1>5, LastExists
<1>7. QED
  BY <1>3, <1>6

\* The limits of the two lanes: background at most interactive, which is the maximum.
LEMMA LimitFacts ==
  /\ Limit("interactive") = MaxSessions
  /\ Limit("background") \in Nat /\ Limit("background") <= MaxSessions
  /\ MaxSessions \in Nat
BY LimitsAssumption DEF Limit

\* drainPendingStarts hands out no slot that is not there.
LEMMA DrainBound ==
  ASSUME NEW P, Sound(P), Settled(P)
  PROVE  Cardinality(Used(P) \cup SessionsOf(P, DrainedFirst(P) \cup DrainedLater(P)))
           <= MaxSessions
<1> DEFINE W == P.pendingStarts
           F == DrainedFirst(P)
           L == DrainedLater(P)
           U == Used(P)
           V == U \cup SessionsOf(P, F)
           T == U \cup SessionsOf(P, F \cup L)
<1>1. F \in SUBSET W /\ L \in SUBSET W
  BY DEF DrainedFirst, DrainedLater, InteractiveOf
<1>2. /\ U \in SUBSET Sessions /\ MaxSessions \in Nat
      /\ \A X \in SUBSET W : SessionsOf(P, X) \in SUBSET Sessions
      /\ \A i \in W : P.inc[i].session \in Sessions
  BY ClaimsType DEF Sound, PoolOK, SessionsOf
<1>3. \A i \in W : P.inc[i].ahead \in SUBSET W
  BY DEF Sound, Ordered
<1>4. Cardinality(U) <= MaxSessions
  BY ClaimsType, SubsetBound DEF Sound, Bounded, Claims
<1>5. Cardinality(V) <= MaxSessions
  <2>1. CASE F = {}
    <3>1. V = U
      BY <2>1 DEF SessionsOf
    <3>2. QED
      BY <1>4, <3>1
  <2>2. CASE F # {}
    <3>1. PICK i \in F : F \subseteq P.inc[i].ahead \cup {i}
      BY <1>1, <2>2, LastStart
    <3>2. PICK S : S = U \cup SessionsOf(P, P.inc[i].ahead)
      OBVIOUS
    <3>3. Cardinality(S) < Limit("background")
      BY <3>2 DEF DrainedFirst
    <3>4. S \in SUBSET Sessions /\ P.inc[i].session \in Sessions
      BY <1>1, <1>2, <1>3, <3>2
    <3>5. V \subseteq S \cup {P.inc[i].session}
      BY <3>1, <3>2 DEF SessionsOf
    <3>6. Cardinality(S) \in Nat
      BY <3>4, SessionsAssumption, FS_Subset, FS_CardinalityType
    <3>7. Cardinality(S) < MaxSessions
      BY <3>3, <3>6, LimitFacts
    <3> HIDE DEF V
    <3>8. QED
      BY <1>2, <3>4, <3>5, <3>7, AddBound
  <2>3. QED
    BY <2>1, <2>2
<1>6. CASE L = {}
  <2>1. T = V
    BY <1>6
  <2>2. QED
    BY <1>5, <2>1
<1>7. CASE L # {}
  <2>1. PICK i \in L : L \subseteq P.inc[i].ahead \cup {i}
    BY <1>1, <1>7, LastStart
  <2>2. PICK S : S = V \cup SessionsOf(P, InteractiveOf(P, P.inc[i].ahead \ F))
    OBVIOUS
  <2>3. Cardinality(S) < MaxSessions
    BY <2>2, LimitFacts DEF DrainedLater
  <2>4. L \cap F = {} /\ \A k \in L : P.inc[k].lane = "interactive"
    BY DEF DrainedLater, InteractiveOf
  <2>5. T \subseteq S \cup {P.inc[i].session}
    <3>1. L \subseteq InteractiveOf(P, P.inc[i].ahead \ F) \cup {i}
      BY <2>1, <2>4 DEF InteractiveOf
    <3> HIDE DEF F, L
    <3>2. QED
      BY <2>2, <3>1 DEF SessionsOf
  <2>6. S \in SUBSET Sessions /\ P.inc[i].session \in Sessions
    <3>1. InteractiveOf(P, P.inc[i].ahead \ F) \in SUBSET W
      BY <1>1, <1>3 DEF InteractiveOf
    <3> HIDE DEF F, L
    <3>2. QED
      BY <1>1, <1>2, <2>2, <3>1
  <2> HIDE DEF T, V, U, L
  <2>7. MaxSessions \in Nat
    BY LimitFacts
  <2>8. Cardinality(T) <= MaxSessions
    BY <2>3, <2>5, <2>6, <2>7, AddBound
  <2>9. QED
    BY <2>8 DEF T, U, L
<1>8. QED
  BY <1>6, <1>7

\* A drain keeps a settled pool sound.
LEMMA DrainSound ==
  ASSUME NEW P, Sound(P), Settled(P)
  PROVE  Sound(drainPendingStarts(P)) /\ Settled(drainPendingStarts(P))
<1>1. PICK A : A = DrainedFirst(P) \cup DrainedLater(P)
  OBVIOUS
<1>2. A \in SUBSET P.pendingStarts
  BY <1>1 DEF DrainedFirst, DrainedLater, InteractiveOf
<1>3. A \in SUBSET Incs /\ P.inc \in [Incs -> Records] /\ P.pendingStarts \in SUBSET Incs
  BY <1>2 DEF Sound, PoolOK, Pools
<1>4. PICK Q : Q = Admit(P, A) /\ Q = drainPendingStarts(P)
  BY <1>1 DEF drainPendingStarts
<1>5. PoolOK(Q)
  BY <1>4, DrainOK DEF Sound
<1>6. /\ Q.streaming = P.streaming
      /\ Q.reservations = P.reservations \cup SessionsOf(P, A)
      /\ Q.pendingStarts = P.pendingStarts \ A
      /\ \A i \in A : Q.inc[i].phase = "admitted" /\ Q.inc[i].session = P.inc[i].session
      /\ \A i \in Incs \ A : /\ Q.inc[i].phase = P.inc[i].phase
                             /\ Q.inc[i].session = P.inc[i].session
                             /\ Q.inc[i].ahead = P.inc[i].ahead \ A
  <2>1. PICK R : R = Admit(P, A)
    OBVIOUS
  <2>2. /\ R.streaming = P.streaming
        /\ R.reservations = P.reservations \cup SessionsOf(P, A)
        /\ R.pendingStarts = P.pendingStarts \ A
    BY <1>3, <2>1, AdmitEffect
  <2>3. \A i \in A : R.inc[i].phase = "admitted" /\ R.inc[i].session = P.inc[i].session
    BY <1>3, <2>1, AdmitEffect
  <2>4. \A i \in Incs \ A : /\ R.inc[i].phase = P.inc[i].phase
                            /\ R.inc[i].session = P.inc[i].session
                            /\ R.inc[i].ahead = P.inc[i].ahead \ A
    BY <1>3, <2>1, AdmitEffect
  <2>5. Q = R
    BY <1>4, <2>1
  <2>6. QED
    BY <2>2, <2>3, <2>4, <2>5
<1>7. Used(Q) = Used(P) \cup SessionsOf(P, A)
  BY <1>6 DEF Used, Mapped
<1>8. ContinuationsOf(Q) \subseteq ContinuationsOf(P) \cup A
  BY <1>6 DEF ContinuationsOf
<1>9. SessionsOf(Q, ContinuationsOf(Q)) \subseteq SessionsOf(P, ContinuationsOf(P)) \cup SessionsOf(P, A)
  BY <1>3, <1>6, <1>8 DEF SessionsOf, ContinuationsOf
<1>10. Settled(Q) /\ Claims(Q) = Used(Q)
  BY <1>7, <1>9 DEF Settled, Claims
<1>11. Bounded(Q)
  BY <1>1, <1>7, <1>10, DrainBound DEF Bounded
<1>12. Ordered(Q)
  <2> SUFFICES ASSUME NEW i \in Q.pendingStarts
               PROVE  /\ Q.inc[i].ahead \subseteq Q.pendingStarts \ {i}
                      /\ \A k \in Q.inc[i].ahead : Q.inc[k].ahead \subseteq Q.inc[i].ahead
                      /\ \A k \in Q.pendingStarts :
                           k = i \/ k \in Q.inc[i].ahead \/ i \in Q.inc[k].ahead
    BY DEF Ordered
  <2>1. /\ P.inc[i].ahead \subseteq P.pendingStarts \ {i}
        /\ \A k \in P.inc[i].ahead : P.inc[k].ahead \subseteq P.inc[i].ahead
        /\ \A k \in P.pendingStarts : k = i \/ k \in P.inc[i].ahead \/ i \in P.inc[k].ahead
    BY <1>6 DEF Sound, Ordered
  <2>2. \A k \in P.pendingStarts \ A : Q.inc[k].ahead = P.inc[k].ahead \ A
    BY <1>3, <1>6
  <2>3. QED
    BY <1>6, <2>1, <2>2
<1>13. QED
  BY <1>4, <1>5, <1>10, <1>11, <1>12 DEF Sound

\* With no continuation pending, every claim is a slot in use.
LEMMA CalmSettled ==
  ASSUME NEW P, Calm(P)
  PROVE  Settled(P) /\ Claims(P) = Used(P)
BY DEF Calm, Settled, Claims, SessionsOf

\* So does a drain under a condition.
LEMMA DrainIfSound ==
  ASSUME NEW P, Sound(P), Settled(P), NEW c \in BOOLEAN
  PROVE  Sound(DrainIf(P, c)) /\ Settled(DrainIf(P, c))
BY DrainSound DEF DrainIf

\* So does releasing a slot.
LEMMA ReleaseSlotSound ==
  ASSUME NEW P, Sound(P), Calm(P), NEW s \in Sessions
  PROVE  Sound(ReleaseSlot(P, s)) /\ Settled(ReleaseSlot(P, s))
<1>1. Sound(Unmap(P, s)) /\ Settled(Unmap(P, s))
  BY UnmapSound, CalmSettled
<1>2. QED
  BY <1>1, DrainIfSound DEF ReleaseSlot

\* So does the finally of startStreamingSession.
LEMMA FinishedSound ==
  ASSUME NEW P, Sound(P), Calm(P), NEW j \in Incs,
         inc[j].session \in Sessions, inc[j].drainAfter \in BOOLEAN
  PROVE  Sound(Finished(P, j))
<1>1. PICK R : R = releaseRuntimeSessionStartReservation(P, inc[j].session)
  OBVIOUS
<1>2. /\ Sound(Unreserve(P, inc[j].session))
      /\ Settled(Unreserve(P, inc[j].session))
  BY UnreserveSound, CalmSettled
<1>3. Sound(R) /\ Settled(R)
  BY <1>1, <1>2, DrainIfSound DEF releaseRuntimeSessionStartReservation
<1>4. QED
  BY <1>1, <1>3, DrainIfSound DEF Finished

\* So does keeping a slot that the start may claim.
LEMMA RetainSound ==
  ASSUME NEW P, Sound(P), NEW j \in Incs, P.inc[j].phase # "waiting",
         P.inc[j].session \in Sessions,
         Cardinality(Claims(P) \cup {P.inc[j].session}) <= MaxSessions
  PROVE  Sound(Retain(P, j))
<1>1. PICK s : s = P.inc[j].session
  OBVIOUS
<1>2. PICK g \in [Incs -> Records] : g = P.inc
  BY DEF Sound, PoolOK, Pools
<1>3. PICK q : q = [g[j] EXCEPT !.phase = "reserved"]
  OBVIOUS
<1>4. q \in Records /\ q.phase = "reserved" /\ q.session = s /\ q.ahead = g[j].ahead
  <2>1. PICK r \in Records : r = g[j]
    BY <1>2
  <2>2. QED
    BY <1>1, <1>2, <1>3, <2>1 DEF Records, Phases
<1>5. PICK Q : Q = Retain(P, j)
  OBVIOUS
<1>6. PoolOK(Q)
  BY <1>5, RetainOK DEF Sound
<1>7. /\ Q.streaming = P.streaming /\ Q.reservations = P.reservations \cup {s}
      /\ Q.pendingStarts = P.pendingStarts /\ Q.inc = [g EXCEPT ![j] = q]
  <2>1. PICK V : V = Reserve(P, s)
    OBVIOUS
  <2>2. /\ V \in Pools /\ V.streaming = P.streaming
        /\ V.reservations = P.reservations \cup {s}
        /\ V.pendingStarts = P.pendingStarts /\ V.inc = g
    BY <1>1, <1>2, <2>1 DEF Reserve, Sound, PoolOK, Pools
  <2>3. Q = [V EXCEPT !.inc[j] = q]
    BY <1>1, <1>2, <1>3, <1>5, <2>1 DEF Retain, With
  <2>4. QED
    BY <2>2, <2>3 DEF Pools
<1>8. Q.inc[j] = q /\ \A i \in Incs \ {j} : Q.inc[i] = g[i]
  BY <1>2, <1>7
<1>9. Used(Q) = Used(P) \cup {s}
  BY <1>7 DEF Used, Mapped
<1>10. SessionsOf(Q, ContinuationsOf(Q)) \subseteq SessionsOf(P, ContinuationsOf(P)) \cup {s}
  BY <1>2, <1>4, <1>8 DEF SessionsOf, ContinuationsOf
<1>11. Claims(Q) \subseteq Claims(P) \cup {s}
  BY <1>9, <1>10 DEF Claims
<1>12. Bounded(Q)
  BY <1>1, <1>11, ClaimsType, SubsetBound DEF Bounded, Sound
<1>13. \A i \in P.pendingStarts : Q.inc[i].ahead = P.inc[i].ahead
  BY <1>2, <1>4, <1>8 DEF Sound, PoolOK
<1>14. Ordered(Q)
  BY <1>7, <1>13 DEF Sound, Ordered
<1>15. QED
  BY <1>5, <1>6, <1>12, <1>14 DEF Sound

\* So does queueing a start, which stands behind all the waiting ones.
LEMMA WaitSound ==
  ASSUME NEW P, Sound(P), NEW j \in Incs, P.inc[j].phase # "waiting",
         P.inc[j].session \in Sessions
  PROVE  Sound(Wait(P, j))
<1>1. PICK g \in [Incs -> Records] : g = P.inc
  BY DEF Sound, PoolOK, Pools
<1>2. PICK q : q = [g[j] EXCEPT !.phase = "waiting", !.ahead = P.pendingStarts]
  OBVIOUS
<1>3. P.pendingStarts \in SUBSET Incs /\ j \notin P.pendingStarts
  BY DEF Sound, PoolOK, Pools
<1>4. q \in Records /\ q.phase = "waiting" /\ q.ahead = P.pendingStarts
  <2>1. PICK r \in Records : r = g[j]
    BY <1>1
  <2>2. PICK A \in SUBSET Incs : A = P.pendingStarts
    BY <1>3
  <2>3. q = [r EXCEPT !.phase = "waiting", !.ahead = A]
    BY <1>2, <2>1, <2>2
  <2>4. q \in Records /\ q.phase = "waiting" /\ q.ahead = A
    BY <2>3 DEF Records, Phases
  <2>5. QED
    BY <2>2, <2>4
<1>5. PICK Q : Q = Wait(P, j)
  OBVIOUS
<1>6. PoolOK(Q)
  BY <1>5, WaitOK DEF Sound
<1>7. /\ Q.streaming = P.streaming /\ Q.reservations = P.reservations
      /\ Q.pendingStarts = P.pendingStarts \cup {j} /\ Q.inc = [g EXCEPT ![j] = q]
  <2>1. PICK V : V = With(P, j, q)
    OBVIOUS
  <2>2. /\ V \in Pools /\ V.streaming = P.streaming
        /\ V.reservations = P.reservations
        /\ V.pendingStarts = P.pendingStarts /\ V.inc = [g EXCEPT ![j] = q]
    BY <1>1, <1>4, <2>1 DEF With, Sound, PoolOK, Pools
  <2>3. Q = [V EXCEPT !.pendingStarts = @ \cup {j}]
    BY <1>1, <1>2, <1>5, <2>1 DEF Wait
  <2>4. QED
    BY <2>2, <2>3 DEF Pools
<1>8. Q.inc[j] = q /\ \A i \in Incs \ {j} : Q.inc[i] = g[i]
  BY <1>1, <1>7
<1>9. Used(Q) = Used(P)
  BY <1>7 DEF Used, Mapped
<1>10. SessionsOf(Q, ContinuationsOf(Q)) \subseteq SessionsOf(P, ContinuationsOf(P))
  BY <1>1, <1>4, <1>8 DEF SessionsOf, ContinuationsOf, Continuing
<1>11. Claims(Q) \subseteq Claims(P)
  BY <1>9, <1>10 DEF Claims
<1>12. Bounded(Q)
  BY <1>11, ClaimsType, SubsetBound DEF Bounded, Sound
<1>13. \A i \in P.pendingStarts : Q.inc[i].ahead = P.inc[i].ahead
  BY <1>1, <1>3, <1>8
<1>14. Ordered(Q)
  <2>1. Ordered(P)
    BY DEF Sound
  <2>2. QED
    BY <1>3, <1>4, <1>7, <1>8, <1>13, <2>1 DEF Ordered
<1>15. QED
  BY <1>5, <1>6, <1>12, <1>14 DEF Sound

\* So does reserveRuntimeSessionStart.
LEMMA reserveSound ==
  ASSUME NEW P, Sound(P), Settled(P), NEW j \in Incs, P.inc[j].phase # "waiting",
         P.inc[j].session \in Sessions, P.inc[j].lane \in Lanes
  PROVE  Sound(reserveRuntimeSessionStart(P, j))
<1> DEFINE s == P.inc[j].session
<1>1. Claims(P) = Used(P) /\ Used(P) \in SUBSET Sessions
  BY ClaimsType DEF Settled, Claims, Sound
<1>2. CASE s \in P.reservations
  <2>1. Claims(P) \cup {s} = Claims(P)
    BY <1>1, <1>2 DEF Used
  <2>2. QED
    BY <1>2, <2>1, RetainSound DEF reserveRuntimeSessionStart, Sound, Bounded
<1>3. CASE HasSlot(P, P.inc[j].lane)
  <2>1. Cardinality(Used(P)) < Limit(P.inc[j].lane)
    BY <1>3 DEF HasSlot
  <2>2. Cardinality(Used(P)) \in Nat
    BY <1>1, SessionsAssumption, FS_Subset, FS_CardinalityType
  <2>3. Cardinality(Used(P)) < MaxSessions /\ MaxSessions \in Nat
    BY <2>1, <2>2, LimitFacts DEF Lanes
  <2>4. Cardinality(Claims(P) \cup {s}) <= MaxSessions
    BY <1>1, <2>3, AddBound
  <2>5. QED
    BY <1>3, <2>4, RetainSound DEF reserveRuntimeSessionStart
<1>4. CASE ~(s \in P.reservations \/ HasSlot(P, P.inc[j].lane))
  BY <1>4, WaitSound DEF reserveRuntimeSessionStart
<1>5. QED
  BY <1>2, <1>3, <1>4

\* A sound pool installed by an action is sound in the next state.
LEMMA BecomeSound ==
  ASSUME NEW P, Sound(P), Become(P)
  PROVE  Sound(Now)'
<1>1. PoolOK(Now)'
  BY BecomeOK DEF Sound
<1>2. Ordered(Now)'
  BY DEF Sound, Ordered, Become, Now
<1>3. Bounded(Now)'
  BY DEF Sound, Bounded, Claims, Used, Mapped, SessionsOf, ContinuationsOf, Become, Now
<1>4. QED
  BY <1>1, <1>2, <1>3 DEF Sound

--------------------------------------------------------------------------------
(* Soundness of each action *)

\* With no gap, every quiet action starts from a pool with no continuation pending.
LEMMA QuietCalm ==
  ASSUME SettledGap = FALSE, Quiet
  PROVE  Calm(Now)
BY DEF Quiet, Continuations, Calm, ContinuationsOf, Continuing, Now

\* Replacing one incarnation that claims nothing keeps the pool sound.
LEMMA SetSound ==
  ASSUME Sound(Now), NEW i \in Incs, NEW r \in Records, SetInc(i, r),
         Same(inc[i], r) \/ Moves(inc[i], r)
  PROVE  Sound(Now)'
<1>1. Become(With(Now, i, r))
  BY DEF Become, With, Now, SetInc
<1>2. Now.inc = inc
  BY DEF Now
<1>3. Sound(With(Now, i, r))
  BY <1>2, WithSound
<1>4. QED
  BY <1>1, <1>3, BecomeSound

\* A step that leaves the pool alone keeps it sound.
LEMMA SamePool ==
  ASSUME Sound(Now), UNCHANGED pool
  PROVE  Sound(Now)'
<1>1. Now' = Now
  BY DEF Now, pool
<1>2. Become(Now)
  BY DEF Become, Now, pool
<1>3. QED
  BY <1>2, BecomeSound

\* The runtime of s is shut down and out of the map: its slot is free for s.
LEMMA ShutDownSound ==
  ASSUME TypeOK, Sound(Now), Calm(Now), NEW s \in Sessions, streaming[s] # NoInc
  PROVE  LET old == inc[streaming[s]]
             V   == With(Unmap(Now, s), streaming[s], shutdownRuntimeStreamingSession(old))
         IN  /\ Sound(V) /\ Calm(V)
             /\ Cardinality(Claims(V) \cup {s}) <= MaxSessions
             /\ \A j \in Incs : V.inc[j].phase = inc[j].phase
<1>1. PICK i \in Incs : i = streaming[s]
  BY Types
<1>2. PICK r \in Records : r = inc[i]
  BY Types
<1>3. PICK d \in Records : /\ d = shutdownRuntimeStreamingSession(r)
                           /\ Same(r, d)
  BY ShutdownRecord DEF Same
<1>4. PICK U : U = Unmap(Now, s)
  OBVIOUS
<1>5. /\ Sound(U) /\ Calm(U) /\ U.inc = inc /\ Used(U) \subseteq Used(Now)
  BY <1>4, UnmapSound DEF Now
<1>6. PICK V : V = With(U, i, d)
  OBVIOUS
<1>7. /\ Sound(V) /\ Calm(V) /\ Used(V) = Used(U)
      /\ V.inc = [inc EXCEPT ![i] = d]
  BY <1>2, <1>3, <1>5, <1>6, WithSound
<1>8. \A j \in Incs : V.inc[j].phase = inc[j].phase
  <2>1. inc \in [Incs -> Records]
    BY DEF TypeOK
  <2>2. QED
    BY <1>2, <1>3, <1>7, <2>1 DEF Same
<1>9. Cardinality(Claims(V) \cup {s}) <= MaxSessions
  <2>1. s \in Used(Now)
    BY DEF Used, Mapped, Now
  <2>2. Claims(V) \cup {s} \subseteq Claims(Now)
    BY <1>5, <1>7, <2>1, CalmSettled
  <2>3. QED
    BY <2>2, ClaimsType, SubsetBound DEF Sound, Bounded
<1>10. QED
  BY <1>1, <1>2, <1>3, <1>4, <1>6, <1>7, <1>8, <1>9

\* A new start may claim a slot that is free for its session.
LEMMA ClaimSound ==
  ASSUME NEW V, Sound(V), NEW j \in Incs, V.inc[j].phase # "waiting",
         NEW q \in Records, q.phase = "retaining", q.session \in Sessions,
         Cardinality(Claims(V) \cup {q.session}) <= MaxSessions
  PROVE  Sound(With(V, j, q))
<1>1. PICK g \in [Incs -> Records] : g = V.inc
  BY DEF Sound, PoolOK, Pools
<1>2. PICK Q : Q = With(V, j, q)
  OBVIOUS
<1>3. PoolOK(Q)
  BY <1>2, WithOK DEF Sound
<1>4. /\ Q.streaming = V.streaming /\ Q.reservations = V.reservations
      /\ Q.pendingStarts = V.pendingStarts /\ Q.inc = [g EXCEPT ![j] = q]
  BY <1>1, <1>2 DEF With, Sound, PoolOK, Pools
<1>5. Q.inc[j] = q /\ \A i \in Incs \ {j} : Q.inc[i] = g[i]
  BY <1>1, <1>4
<1>6. Used(Q) = Used(V)
  BY <1>4 DEF Used, Mapped
<1>7. Claims(Q) \subseteq Claims(V) \cup {q.session}
  BY <1>1, <1>5, <1>6 DEF Claims, SessionsOf, ContinuationsOf
<1>8. Bounded(Q)
  BY <1>7, ClaimsType, SubsetBound DEF Bounded, Sound
<1>9. Ordered(Q)
  BY <1>1, <1>4, <1>5 DEF Sound, Ordered, PoolOK
<1>10. QED
  BY <1>2, <1>3, <1>8, <1>9 DEF Sound

\* An incarnation that has ended claims nothing.
LEMMA UnusedSound ==
  ASSUME NEW P, Sound(P), NEW j \in Incs, P.inc[j].phase # "waiting",
         NEW q \in Records, q.phase = "unused"
  PROVE  /\ Sound(With(P, j, q))
         /\ Used(With(P, j, q)) = Used(P)
         /\ With(P, j, q).inc[j] = q
         /\ Calm(P) => Calm(With(P, j, q))
         /\ Settled(P) => Settled(With(P, j, q))
<1>1. Moves(P.inc[j], q)
  BY DEF Moves, Continuing
<1>2. PICK W : W = With(P, j, q)
  OBVIOUS
<1>3. Sound(W)
  BY <1>1, <1>2, WithSound
<1>4. (Calm(P) => Calm(W)) /\ (Settled(P) => Settled(W))
  BY <1>1, <1>2, WithSound
<1>5. /\ W.streaming = P.streaming /\ W.reservations = P.reservations
      /\ W.inc[j] = q
  BY <1>2 DEF With, Sound, PoolOK, Pools
<1>6. Used(W) = Used(P)
  BY <1>5 DEF Used, Mapped
<1>7. QED
  BY <1>2, <1>3, <1>4, <1>5, <1>6

\* The steps by which a prompt begins a start keep the pool sound.
LEMMA NewStartSound ==
  ASSUME TypeOK, Sound(Now), SettledGap = FALSE,
         NEW s \in Sessions, NEW m \in Prompts, NEW j \in Incs,
         \/ PromptRestarts(s, m, j)
         \/ PromptChangesModel(s, m, j)
         \/ PromptReplacesDone(s, m, j)
         \/ PromptColdStarts(s, m, j)
  PROVE  Sound(Now)'
<1> DEFINE q == Start(s, m)
<1>1. q \in Records /\ q.phase = "unused" /\ q.session = s /\ q.lane \in Lanes
  <2>1. PICK r \in Records : r = q /\ r.phase = "unused" /\ r.session = s
    BY StartRecord
  <2>2. r.lane \in Lanes
    BY DEF Records
  <2>3. QED
    BY <2>1, <2>2
<1> HIDE DEF q
<1>2. Calm(Now) /\ Now.inc = inc
  BY QuietCalm DEF PromptRestarts, PromptChangesModel, PromptReplacesDone, PromptColdStarts,
                   Accepts, Now
<1>3. inc[j].phase = "unused" /\ "unused" \notin Continuing
  BY DEF PromptRestarts, PromptChangesModel, PromptReplacesDone, PromptColdStarts, Fresh,
         Continuing
<1> DEFINE V == With(Unmap(Now, s), streaming[s],
                     shutdownRuntimeStreamingSession(inc[streaming[s]]))
<1>4. ASSUME streaming[s] # NoInc
      PROVE  /\ Sound(V) /\ Calm(V) /\ V.inc[j].phase = "unused"
             /\ Cardinality(Claims(V) \cup {s}) <= MaxSessions
  BY <1>2, <1>3, <1>4, ShutDownSound
<1>5. CASE PromptRestarts(s, m, j)
  <2>1. streaming[s] # NoInc /\ Become(Retain(With(V, j, q), j))
    BY <1>5 DEF PromptRestarts, q
  <2> HIDE DEF V
  <2>2. PICK W : W = With(V, j, q)
    OBVIOUS
  <2>3. Sound(W) /\ Used(W) = Used(V) /\ W.inc[j] = q /\ Calm(W)
    BY <1>1, <1>4, <2>1, <2>2, UnusedSound
  <2>4. Claims(W) = Claims(V)
    BY <1>4, <2>1, <2>3, CalmSettled
  <2>5. Sound(Retain(W, j))
    BY <1>1, <1>4, <2>1, <2>3, <2>4, RetainSound
  <2>6. QED
    BY <2>1, <2>2, <2>5, BecomeSound
<1>6. CASE PromptChangesModel(s, m, j)
  <2>1. PICK r : r = [q EXCEPT !.phase = "retaining"]
    OBVIOUS
  <2>2. r \in Records /\ r.phase = "retaining" /\ r.session = s
    BY <1>1, <2>1 DEF Records, Phases
  <2>3. streaming[s] # NoInc /\ Become(With(V, j, r))
    BY <1>6, <2>1 DEF PromptChangesModel, q
  <2> HIDE DEF V
  <2>4. Sound(With(V, j, r))
    BY <1>4, <2>2, <2>3, ClaimSound
  <2>5. QED
    BY <2>3, <2>4, BecomeSound
<1>7. CASE PromptReplacesDone(s, m, j)
  <2>1. PICK R : R = ReleaseSlot(Now, s)
    OBVIOUS
  <2>2. Sound(R) /\ Settled(R)
    BY <1>2, <2>1, ReleaseSlotSound
  <2>3. R.inc[j].phase # "waiting"
    BY <1>2, <1>3, <2>1, ReleaseKeepsOthers DEF Sound
  <2>4. PICK W : W = With(R, j, q)
    OBVIOUS
  <2>5. Sound(W) /\ Settled(W) /\ W.inc[j] = q
    BY <1>1, <2>2, <2>3, <2>4, UnusedSound
  <2>6. Become(reserveRuntimeSessionStart(W, j))
    BY <1>7, <2>1, <2>4 DEF PromptReplacesDone, q
  <2>7. QED
    BY <1>1, <2>5, <2>6, reserveSound, BecomeSound
<1>8. CASE PromptColdStarts(s, m, j)
  <2>1. PICK W : W = With(Now, j, q)
    OBVIOUS
  <2>2. Sound(W) /\ Settled(W) /\ W.inc[j] = q
    BY <1>1, <1>2, <1>3, <2>1, UnusedSound, CalmSettled
  <2>3. Become(reserveRuntimeSessionStart(W, j))
    BY <1>8, <2>1 DEF PromptColdStarts, q
  <2>4. QED
    BY <1>1, <2>2, <2>3, reserveSound, BecomeSound
<1>9. QED
  BY <1>5, <1>6, <1>7, <1>8

\* So do the inert steps.
LEMMA InertSound ==
  ASSUME TypeOK, Sound(Now), InertStep
  PROVE  Sound(Now)'
<1>1. PICK i \in Incs : \E q \in Records :
        SetInc(i, q) /\ (Same(inc[i], q) \/ Moves(inc[i], q))
  BY InertSteps DEF InertChange
<1>2. PICK q \in Records : SetInc(i, q) /\ (Same(inc[i], q) \/ Moves(inc[i], q))
  BY <1>1
<1>3. QED
  BY <1>2, SetSound

\* The continuations use the slot that was claimed for them.
LEMMA ContinuesSound ==
  ASSUME TypeOK, Sound(Now), NEW j \in Incs,
         ModelChangeContinues(j) \/ StartContinues(j)
  PROVE  Sound(Now)'
<1>1. PICK r \in Records : r = inc[j]
  BY Types
<1>2. r.session \in Sessions /\ r.phase # "waiting" /\ Now.inc = inc
  BY <1>1, Types DEF ModelChangeContinues, StartContinues, Now
<1>3. r.session \in Claims(Now)
  BY <1>1, <1>2 DEF ModelChangeContinues, StartContinues, Claims, SessionsOf,
                    ContinuationsOf, Continuing
<1>4. CASE ModelChangeContinues(j)
  <2>1. Claims(Now) \cup {r.session} = Claims(Now)
    BY <1>3
  <2>2. Sound(Retain(Now, j))
    BY <1>1, <1>2, <2>1, RetainSound DEF Sound, Bounded
  <2>3. QED
    BY <1>4, <2>2, BecomeSound DEF ModelChangeContinues
<1>5. CASE StartContinues(j)
  <2>1. PICK Q : Q = [streaming |-> streaming', reservations |-> reservations',
                      pendingStarts |-> pendingStarts', inc |-> inc']
    OBVIOUS
  <2>2. Become(Q)
    BY <2>1 DEF Become
  <2>3. PoolOK(Q)
    <3>1. TypeOK'
      BY <1>5, StartTypes
    <3>2. PoolOK(Now)'
      BY <3>1, TypeOKSplitNext
    <3>3. QED
      BY <2>1, <3>2 DEF PoolOK, Pools, Now
  <2>4. PICK g \in [Incs -> Records] : g = inc
    BY DEF TypeOK
  <2>5. PICK q : q = [r EXCEPT !.phase = "building"]
    OBVIOUS
  <2>6. q.phase = "building" /\ q.ahead = r.ahead
    BY <2>5 DEF Records
  <2>7. Q.inc = [g EXCEPT ![j] = q] /\ Q.pendingStarts = pendingStarts
    BY <1>1, <1>5, <2>1, <2>4, <2>5 DEF StartContinues
  <2>8. Q.inc[j] = q /\ \A i \in Incs \ {j} : Q.inc[i] = g[i]
    BY <2>4, <2>7
  <2>9. Used(Q) \subseteq Used(Now) \cup {r.session}
    <3>1. /\ Q.streaming = [streaming EXCEPT ![r.session] = j]
          /\ Q.reservations \subseteq reservations \cup {r.session}
      BY <1>1, <1>5, <2>1 DEF StartContinues
    <3>2. QED
      BY <1>2, <3>1 DEF Used, Mapped, Now, TypeOK
  <2>10. SessionsOf(Q, ContinuationsOf(Q)) \subseteq SessionsOf(Now, ContinuationsOf(Now))
    BY <1>2, <2>4, <2>6, <2>8 DEF SessionsOf, ContinuationsOf, Continuing
  <2>11. Claims(Q) \subseteq Claims(Now)
    BY <1>3, <2>9, <2>10 DEF Claims
  <2>12. \A i \in pendingStarts : Q.inc[i].ahead = inc[i].ahead
    BY <1>1, <2>4, <2>6, <2>8 DEF TypeOK
  <2>13. Sound(Q)
    <3>1. Now.pendingStarts = pendingStarts
      BY DEF Now
    <3>2. QED
      BY <1>2, <2>3, <2>7, <2>11, <2>12, <3>1, SmallerSound
  <2>14. QED
    BY <2>2, <2>13, BecomeSound
<1>6. QED
  BY <1>4, <1>5

\* So do the end of a build and its failure.
LEMMA BuildSound ==
  ASSUME TypeOK, Sound(Now), SettledGap = FALSE, NEW j \in Incs,
         BuildSucceeds(j) \/ BuildFails(j) \/ FailureReported(j)
  PROVE  Sound(Now)'
<1>1. PICK r \in Records : r = inc[j]
  BY Types
<1>2. /\ r.session \in Sessions /\ r.drainAfter \in BOOLEAN /\ Now.inc = inc
      /\ r.phase # "waiting"
  BY <1>1, Types DEF BuildSucceeds, BuildFails, FailureReported, Now
<1>3. Calm(Now)
  BY QuietCalm DEF BuildSucceeds, BuildFails, FailureReported
<1>4. CASE BuildSucceeds(j)
  <2>1. PICK q : q = [r EXCEPT !.phase = "live", !.drainAfter = FALSE]
    OBVIOUS
  <2>2. q \in Records /\ Moves(r, q)
    BY <1>2, <2>1 DEF Records, Phases, Moves, Continuing
  <2>3. PICK W : W = With(Now, j, q)
    OBVIOUS
  <2>4. Sound(W) /\ Calm(W)
    BY <1>1, <1>2, <1>3, <2>2, <2>3, WithSound
  <2>5. Sound(Finished(W, j))
    BY <1>1, <1>2, <2>4, FinishedSound
  <2>6. Become(Finished(W, j))
    BY <1>1, <1>4, <2>1, <2>3 DEF BuildSucceeds
  <2>7. QED
    BY <2>5, <2>6, BecomeSound
<1>5. CASE BuildFails(j)
  <2>1. PICK d \in Records : /\ d = shutdownRuntimeStreamingSession(r)
                             /\ d.session = r.session
    BY ShutdownRecord
  <2>2. PICK q : q = [d EXCEPT !.phase = "failing", !.pending = <<>>]
    OBVIOUS
  <2>3. q \in Records /\ q.phase = "failing" /\ q.session = r.session
    <3>1. <<>> \in Seq(Prompts) /\ "failing" \in Phases
      BY DEF Phases
    <3>2. QED
      BY <2>1, <2>2, <3>1 DEF Records
  <2>4. Moves(r, q)
    BY <1>2, <2>3 DEF Moves, Continuing
  <2>5. PICK W : W = With(Now, j, q)
    OBVIOUS
  <2>6. Sound(W) /\ Calm(W)
    BY <1>1, <1>2, <1>3, <2>3, <2>4, <2>5, WithSound
  <2>7. PICK U : U = Unmap(W, r.session)
    OBVIOUS
  <2>8. Sound(U) /\ Settled(U)
    BY <1>2, <2>6, <2>7, UnmapSound, CalmSettled
  <2>9. Become(drainPendingStarts(U))
    BY <1>1, <1>5, <2>1, <2>2, <2>5, <2>7 DEF BuildFails
  <2>10. QED
    BY <2>8, <2>9, DrainSound, BecomeSound
<1>6. CASE FailureReported(j)
  <2>1. PICK W : W = With(Now, j, Unused)
    OBVIOUS
  <2>2. Sound(W) /\ Calm(W)
    BY <1>1, <1>2, <1>3, <2>1, UnusedRecord, UnusedSound
  <2>3. Sound(Finished(W, j))
    BY <1>1, <1>2, <2>2, FinishedSound
  <2>4. QED
    BY <1>6, <2>1, <2>3, BecomeSound DEF FailureReported
<1>7. QED
  BY <1>4, <1>5, <1>6

\* So does tool.completed, with its deferred abort.
LEMMA ToolCompletesSound ==
  ASSUME TypeOK, Sound(Now), SettledGap = FALSE, NEW i \in Incs, ToolCompletes(i)
  PROVE  Sound(Now)'
<1>1. PICK r \in Records : r = inc[i]
  BY Types
<1>2. r.session \in Sessions /\ Calm(Now) /\ Now.inc = inc
  BY <1>1, Types, QuietCalm DEF ToolCompletes, Now
<1>3. PICK q : q = [r EXCEPT !.taken = "none", !.unsafe = FALSE]
  OBVIOUS
<1>4. q \in Records /\ Same(r, q) /\ q.session = r.session
  BY <1>3 DEF Records, Same
<1>5. CASE r.pendingAbort
  <2>1. PICK a : a = [q EXCEPT !.aborted = TRUE]
    OBVIOUS
  <2>2. a \in Records /\ Same(r, a)
    BY <1>4, <2>1 DEF Records, Same
  <2>3. PICK W : W = With(Now, i, a)
    OBVIOUS
  <2>4. Sound(W) /\ Calm(W)
    BY <1>1, <1>2, <2>2, <2>3, WithSound
  <2>5. Become(ReleaseSlot(W, r.session))
    BY <1>1, <1>3, <1>4, <1>5, <2>1, <2>3 DEF ToolCompletes
  <2>6. QED
    BY <1>2, <2>4, <2>5, ReleaseSlotSound, BecomeSound
<1>6. CASE ~r.pendingAbort
  <2>1. Become(With(Now, i, q))
    BY <1>1, <1>3, <1>6 DEF ToolCompletes
  <2>2. QED
    BY <1>1, <1>2, <1>4, <2>1, WithSound, BecomeSound
<1>7. QED
  BY <1>5, <1>6

\* So does the finally of the event loop.
LEMMA EventLoopEndsSound ==
  ASSUME TypeOK, Sound(Now), SettledGap = FALSE,
         NEW i \in Incs, NEW j \in Incs, EventLoopEnds(i, j)
  PROVE  Sound(Now)'
<1> DEFINE s == inc[i].session
<1>1. /\ s \in Sessions /\ inc[i].phase # "waiting" /\ inc[i].lane \in Lanes
      /\ Calm(Now) /\ Now.inc = inc /\ inc \in [Incs -> Records]
  BY Types, QuietCalm DEF EventLoopEnds, Now, TypeOK
<1>2. PICK U : U = Unmap(Now, s)
  OBVIOUS
<1>3. Sound(U) /\ Calm(U) /\ U.inc = inc /\ Used(U) \subseteq Used(Now)
  BY <1>1, <1>2, UnmapSound
<1>4. PICK P : P = With(U, i, Unused)
  OBVIOUS
<1>5. Sound(P) /\ Calm(P) /\ Used(P) = Used(U)
  BY <1>1, <1>3, <1>4, UnusedRecord, UnusedSound
<1>6. CASE streaming[s] # NoInc /\ inc[i].restart /\ stash[s] # <<>>
  <2>1. PICK q : q = [Restart(s, inc[i].lane) EXCEPT !.drainAfter = TRUE]
    OBVIOUS
  <2>2. q \in Records /\ q.phase = "unused" /\ q.session = s
    BY <1>1, <2>1, RestartRecord
  <2>3. /\ inc[j].phase = "unused" /\ Become(Retain(With(P, j, q), j))
    BY <1>2, <1>4, <1>6, <2>1 DEF EventLoopEnds, Fresh
  <2>4. P.inc[j].phase # "waiting"
    <3>1. P.inc = [inc EXCEPT ![i] = Unused]
      BY <1>3, <1>4 DEF With, Sound, PoolOK, Pools
    <3>2. QED
      BY <1>1, <2>3, <3>1, UnusedRecord
  <2>5. PICK W : W = With(P, j, q)
    OBVIOUS
  <2>6. Sound(W) /\ Calm(W) /\ Used(W) = Used(P) /\ W.inc[j] = q
    BY <1>5, <2>2, <2>4, <2>5, UnusedSound
  <2>7. Cardinality(Claims(W) \cup {s}) <= MaxSessions
    <3>1. s \in Used(Now)
      BY <1>1, <1>6 DEF Used, Mapped, Now
    <3>2. Claims(W) \cup {s} \subseteq Claims(Now)
      BY <1>1, <1>3, <1>5, <2>6, <3>1, CalmSettled
    <3>3. QED
      BY <3>2, ClaimsType, SubsetBound DEF Sound, Bounded
  <2>8. Sound(Retain(W, j))
    BY <1>1, <2>2, <2>6, <2>7, RetainSound
  <2>9. QED
    BY <2>3, <2>5, <2>8, BecomeSound
<1>7. CASE ~(streaming[s] # NoInc /\ inc[i].restart /\ stash[s] # <<>>)
  <2>1. Become(DrainIf(P, streaming[s] # NoInc))
    BY <1>2, <1>4, <1>7 DEF EventLoopEnds
  <2>2. QED
    BY <1>5, <2>1, CalmSettled, DrainIfSound, BecomeSound
<1>8. QED
  BY <1>6, <1>7

\* So do aborts, model changes and the idle-gap recovery.
LEMMA ControlSound ==
  ASSUME TypeOK, Sound(Now), SettledGap = FALSE, NEW s \in Sessions,
         \/ abortSession(s)
         \/ ModelChanged(s)
         \/ \E j \in Incs : recoverIdleGapSession(s, j)
  PROVE  Sound(Now)'
<1>1. PICK i \in Incs : i = streaming[s]
  BY Types DEF abortSession, ModelChanged, recoverIdleGapSession
<1>2. PICK r \in Records : r = inc[i]
  BY Types
<1>3. Calm(Now) /\ Now.inc = inc /\ streaming[s] # NoInc /\ r.lane \in Lanes
  BY <1>2, Types, QuietCalm DEF abortSession, ModelChanged, recoverIdleGapSession, Now
<1>4. CASE ShutDownAndRelease(s)
  <2>1. PICK d \in Records : d = shutdownRuntimeStreamingSession(r) /\ Same(r, d)
    BY ShutdownRecord DEF Same
  <2>2. PICK W : W = With(Now, i, d)
    OBVIOUS
  <2>3. Sound(W) /\ Calm(W)
    BY <1>2, <1>3, <2>1, <2>2, WithSound
  <2>4. Become(ReleaseSlot(W, s))
    BY <1>1, <1>2, <1>4, <2>1, <2>2 DEF ShutDownAndRelease
  <2>5. QED
    BY <2>3, <2>4, ReleaseSlotSound, BecomeSound
<1>5. ASSUME NEW j \in Incs, recoverIdleGapSession(s, j)
      PROVE  Sound(Now)'
  <2>1. PICK q : q = Restart(s, r.lane)
    OBVIOUS
  <2>2. q \in Records /\ q.phase = "unused" /\ q.session = s
    BY <1>3, <2>1, RestartRecord
  <2>3. PICK V : V = With(Unmap(Now, s), streaming[s],
                          shutdownRuntimeStreamingSession(inc[streaming[s]]))
    OBVIOUS
  <2>4. /\ inc[j].phase = "unused" /\ Become(Retain(With(V, j, q), j))
    BY <1>1, <1>2, <1>5, <2>1, <2>3 DEF recoverIdleGapSession, Fresh
  <2>5. /\ Sound(V) /\ Calm(V) /\ V.inc[j].phase = "unused"
        /\ Cardinality(Claims(V) \cup {s}) <= MaxSessions
    BY <1>3, <2>3, <2>4, ShutDownSound
  <2>6. PICK W : W = With(V, j, q)
    OBVIOUS
  <2>7. Sound(W) /\ Used(W) = Used(V) /\ W.inc[j] = q /\ Calm(W)
    BY <2>2, <2>5, <2>6, UnusedSound
  <2>8. Claims(W) = Claims(V)
    BY <2>5, <2>7, CalmSettled
  <2>9. Sound(Retain(W, j))
    BY <2>2, <2>5, <2>7, <2>8, RetainSound
  <2>10. QED
    BY <2>4, <2>6, <2>9, BecomeSound
<1>6. QED
  BY <1>4, <1>5 DEF abortSession, ModelChanged

\* A pool with nothing in it.
LEMMA EmptySound ==
  ASSUME NEW P, PoolOK(P), P.streaming = [s \in Sessions |-> NoInc],
         P.reservations = {}, P.pendingStarts = {}, Calm(P)
  PROVE  Sound(P)
<1>1. Claims(P) = {}
  BY CalmSettled DEF Used, Mapped
<1>2. Bounded(P)
  BY <1>1, FS_EmptySet, LimitFacts DEF Bounded
<1>3. QED
  BY <1>2 DEF Sound, Ordered

\* So shutdownAll keeps the pool sound.
LEMMA ShutdownAllSound ==
  ASSUME TypeOK, Sound(Now), SettledGap = FALSE, shutdownAll
  PROVE  Sound(Now)'
<1>1. PICK Q : Q = [streaming |-> streaming', reservations |-> reservations',
                    pendingStarts |-> pendingStarts', inc |-> inc']
  OBVIOUS
<1>2. Become(Q)
  BY <1>1 DEF Become
<1>3. PoolOK(Q)
  <2>1. PoolOK(Now)'
    BY ShutdownAllTypes, TypeOKSplitNext
  <2>2. QED
    BY <1>1, <2>1 DEF PoolOK, Pools, Now
<1>4. Calm(Q)
  <2>1. \A i \in Incs : inc[i].phase \notin Continuing
    BY QuietCalm DEF shutdownAll, Calm, ContinuationsOf, Now
  <2>2. ASSUME NEW i \in Incs PROVE inc'[i].phase \notin Continuing
    <3>1. PICK r \in Records : r = inc[i]
      BY Types
    <3>2. \/ inc'[i] = Unused
          \/ inc'[i] = r
          \/ inc'[i] = shutdownRuntimeStreamingSession(r)
      BY <3>1 DEF shutdownAll
    <3>3. QED
      BY <2>1, <3>1, <3>2, UnusedRecord, ShutdownRecord DEF Continuing
  <2>3. QED
    BY <1>1, <2>2 DEF Calm, ContinuationsOf
<1>5. QED
  BY <1>1, <1>2, <1>3, <1>4, EmptySound, BecomeSound DEF shutdownAll

--------------------------------------------------------------------------------
(* The inductive invariant and the bound *)

\* What is inductive: the pool is sound in the sense that the waiting starts are
\* ordered, and the slots in use TOGETHER with those that unrun continuations
\* are going to take stay within the maximum.
PoolInv == TypeOK /\ Sound(Now)

\* The initial state satisfies the inductive invariant.
LEMMA PoolInvInit == Init => PoolInv
<1> SUFFICES ASSUME Init PROVE PoolInv
  OBVIOUS
<1>1. TypeOK
  BY TypeInit
<1>2. PoolOK(Now) /\ \A i \in Incs : inc[i].phase = "unused"
  BY <1>1, TypeOKSplit, UnusedRecord DEF Init
<1>3. Calm(Now)
  BY <1>2 DEF Calm, ContinuationsOf, Continuing, Now
<1>4. Sound(Now)
  BY <1>2, <1>3, EmptySound DEF Init, Now
<1>5. QED
  BY <1>1, <1>4 DEF PoolInv

\* Every step preserves it, when the microtask queue leaves no gap.
LEMMA PoolInvStep ==
  ASSUME SettledGap = FALSE, PoolInv, [Next]_vars
  PROVE  PoolInv'
<1>1. TypeOK'
  BY TypeStep DEF PoolInv
<1>2. TypeOK /\ Sound(Now)
  BY DEF PoolInv
<1> SUFFICES Sound(Now)'
  BY <1>1 DEF PoolInv
<1>3. CASE PromptStep
  <2>1. ASSUME NEW s \in Sessions, NEW m \in Prompts, PromptSteers(s, m) \/ PromptStashed(s, m)
        PROVE  Sound(Now)'
    BY <1>2, <2>1, SamePool DEF PromptSteers, PromptStashed
  <2>2. QED
    BY <1>2, <1>3, <2>1, InertSound, NewStartSound DEF PromptStep, InertStep
<1>4. CASE SteerStep
  <2>1. ASSUME NEW m \in Prompts, SteerAccepted(m)
        PROVE  Sound(Now)'
    BY <1>2, <2>1, SamePool DEF SteerAccepted
  <2>2. QED
    BY <1>2, <1>4, <2>1, InertSound DEF SteerStep, InertStep
<1>5. CASE StartStep
  BY <1>2, <1>5, ContinuesSound, BuildSound DEF StartStep
<1>6. CASE RuntimeStep
  BY <1>2, <1>6, InertSound, ToolCompletesSound, EventLoopEndsSound DEF RuntimeStep, InertStep
<1>7. CASE ControlStep
  BY <1>2, <1>7, InertSound, ControlSound, ShutdownAllSound DEF ControlStep, InertStep
<1>8. CASE UNCHANGED vars
  <2>1. UNCHANGED pool
    BY <1>8 DEF vars, pool
  <2>2. QED
    BY <1>2, <2>1, SamePool
<1>9. QED
  BY <1>3, <1>4, <1>5, <1>6, <1>7, <1>8 DEF Next

\* It implies the bound: the slots in use are among the claims.
LEMMA PoolInvBound == PoolInv => PoolBound
BY ClaimsType, SubsetBound DEF PoolInv, Sound, Bounded, PoolBound, Claims

\* The pool never counts more sessions than its maximum, for any number of
\* sessions, starts and prompts, when no other handler runs between an await of
\* a settled promise and its continuation (reserveRuntimeSessionStart,
\* retainReleasedSlot and drainPendingStarts of session-dispatcher.ts).
THEOREM PoolBounded ==
  ASSUME SettledGap = FALSE
  PROVE  Spec => []PoolBound
<1>1. Init => PoolInv
  BY PoolInvInit
<1>2. PoolInv /\ [Next]_vars => PoolInv'
  BY PoolInvStep
<1>3. PoolInv => PoolBound
  BY PoolInvBound
<1>4. QED
  BY <1>1, <1>2, <1>3, PTL DEF Spec

--------------------------------------------------------------------------------
(* What the helpers of the pool do, variable by variable *)

\* Replacing an incarnation changes that one only.
LEMMA WithEffect ==
  ASSUME NEW P, PoolOK(P), NEW i \in Incs, NEW r \in Records
  PROVE  /\ With(P, i, r).streaming = P.streaming
         /\ With(P, i, r).reservations = P.reservations
         /\ With(P, i, r).pendingStarts = P.pendingStarts
         /\ With(P, i, r).inc[i] = r
         /\ \A k \in Incs \ {i} : With(P, i, r).inc[k] = P.inc[k]
         /\ Used(With(P, i, r)) = Used(P)
<1>1. PICK Q : Q = With(P, i, r)
  OBVIOUS
<1>2. PICK g \in [Incs -> Records] : g = P.inc
  BY DEF PoolOK, Pools
<1>3. /\ Q.streaming = P.streaming /\ Q.reservations = P.reservations
      /\ Q.pendingStarts = P.pendingStarts /\ Q.inc = [g EXCEPT ![i] = r]
  BY <1>1, <1>2 DEF With, PoolOK, Pools
<1>4. Used(Q) = Used(P)
  BY <1>3 DEF Used, Mapped
<1>5. QED
  BY <1>1, <1>2, <1>3, <1>4

\* Removing a map entry changes the map only.
LEMMA UnmapEffect ==
  ASSUME NEW P, PoolOK(P), NEW s \in Sessions
  PROVE  /\ Unmap(P, s).reservations = P.reservations
         /\ Unmap(P, s).pendingStarts = P.pendingStarts
         /\ Unmap(P, s).inc = P.inc
         /\ Used(P) \subseteq Used(Unmap(P, s)) \cup {s}
         /\ P.streaming[s] = NoInc => Used(Unmap(P, s)) = Used(P)
<1>1. PICK Q : Q = Unmap(P, s)
  OBVIOUS
<1>2. /\ Q.streaming = [P.streaming EXCEPT ![s] = NoInc]
      /\ Q.reservations = P.reservations
      /\ Q.pendingStarts = P.pendingStarts /\ Q.inc = P.inc
  BY <1>1 DEF Unmap, PoolOK, Pools
<1>3. P.streaming \in [Sessions -> Incs \cup {NoInc}]
  BY DEF PoolOK, Pools
<1>4. Used(P) \subseteq Used(Q) \cup {s}
  BY <1>2, <1>3 DEF Used, Mapped
<1>5. P.streaming[s] = NoInc => Used(Q) = Used(P)
  BY <1>2, <1>3 DEF Used, Mapped
<1>6. QED
  BY <1>1, <1>2, <1>4, <1>5

\* Giving a reservation back changes the reservations only.
LEMMA UnreserveEffect ==
  ASSUME NEW P, PoolOK(P), NEW s \in Sessions
  PROVE  /\ Unreserve(P, s).reservations = P.reservations \ {s}
         /\ Unreserve(P, s).pendingStarts = P.pendingStarts
         /\ Unreserve(P, s).inc = P.inc
         /\ (s \in P.reservations => P.streaming[s] # NoInc)
              => Used(Unreserve(P, s)) = Used(P)
<1>1. PICK Q : Q = Unreserve(P, s)
  OBVIOUS
<1>2. /\ Q.streaming = P.streaming /\ Q.reservations = P.reservations \ {s}
      /\ Q.pendingStarts = P.pendingStarts /\ Q.inc = P.inc
  BY <1>1 DEF Unreserve, PoolOK, Pools
<1>3. (s \in P.reservations => P.streaming[s] # NoInc) => Used(Q) = Used(P)
  BY <1>2 DEF Used, Mapped
<1>4. QED
  BY <1>1, <1>2, <1>3

\* Keeping a slot reserves it, and makes the start one that has its reservation.
LEMMA RetainEffect ==
  ASSUME NEW P, PoolOK(P), NEW j \in Incs, P.inc[j].session \in Sessions
  PROVE  /\ Retain(P, j).reservations = P.reservations \cup {P.inc[j].session}
         /\ Retain(P, j).pendingStarts = P.pendingStarts
         /\ Retain(P, j).inc[j].phase = "reserved"
         /\ Retain(P, j).inc[j].session = P.inc[j].session
         /\ \A k \in Incs \ {j} : Retain(P, j).inc[k] = P.inc[k]
         /\ Used(Retain(P, j)) = Used(P) \cup {P.inc[j].session}
<1>1. PICK r \in Records : r = P.inc[j]
  BY DEF PoolOK, Pools
<1>2. PICK q : q = [r EXCEPT !.phase = "reserved"]
  OBVIOUS
<1>3. q \in Records /\ q.phase = "reserved" /\ q.session = r.session
  BY <1>2 DEF Records, Phases
<1>4. PICK Q : Q = Reserve(P, r.session)
  OBVIOUS
<1>5. /\ PoolOK(Q) /\ Q.inc = P.inc /\ Q.streaming = P.streaming
      /\ Q.reservations = P.reservations \cup {r.session}
      /\ Q.pendingStarts = P.pendingStarts
  BY <1>1, <1>4, ReserveOK DEF Reserve, PoolOK, Pools
<1>6. Used(Q) = Used(P) \cup {r.session}
  BY <1>5 DEF Used, Mapped
<1>7. Retain(P, j) = With(Q, j, q)
  BY <1>1, <1>2, <1>4 DEF Retain
<1>8. QED
  BY <1>1, <1>3, <1>5, <1>6, <1>7, WithEffect

\* A start that waits stands behind all those that waited before it.
LEMMA WaitEffect ==
  ASSUME NEW P, PoolOK(P), NEW j \in Incs, P.inc[j].session \in Sessions
  PROVE  /\ Wait(P, j).reservations = P.reservations
         /\ Wait(P, j).pendingStarts = P.pendingStarts \cup {j}
         /\ Wait(P, j).inc[j].phase = "waiting"
         /\ Wait(P, j).inc[j].session = P.inc[j].session
         /\ Wait(P, j).inc[j].lane = P.inc[j].lane
         /\ Wait(P, j).inc[j].ahead = P.pendingStarts
         /\ \A k \in Incs \ {j} : Wait(P, j).inc[k] = P.inc[k]
         /\ Used(Wait(P, j)) = Used(P)
<1>1. PICK r \in Records : r = P.inc[j]
  BY DEF PoolOK, Pools
<1>2. PICK q : q = [r EXCEPT !.phase = "waiting", !.ahead = P.pendingStarts]
  OBVIOUS
<1>3. P.pendingStarts \in SUBSET Incs
  BY DEF PoolOK, Pools
<1>4. /\ q \in Records /\ q.phase = "waiting" /\ q.session = r.session
      /\ q.lane = r.lane /\ q.ahead = P.pendingStarts
  BY <1>2, <1>3 DEF Records, Phases
<1>5. PICK W : W = With(P, j, q)
  OBVIOUS
<1>6. /\ W.streaming = P.streaming /\ W.reservations = P.reservations
      /\ W.pendingStarts = P.pendingStarts /\ W.inc[j] = q
      /\ \A k \in Incs \ {j} : W.inc[k] = P.inc[k]
      /\ Used(W) = Used(P)
  BY <1>4, <1>5, WithEffect
<1>7. PICK Q : Q = Wait(P, j)
  OBVIOUS
<1>8. Q = [W EXCEPT !.pendingStarts = @ \cup {j}]
  BY <1>1, <1>2, <1>5, <1>7 DEF Wait
<1>9. /\ Q.streaming = W.streaming /\ Q.reservations = W.reservations
      /\ Q.pendingStarts = W.pendingStarts \cup {j} /\ Q.inc = W.inc
  <2>1. W \in [streaming : [Sessions -> Incs \cup {NoInc}], reservations : SUBSET Sessions,
               pendingStarts : SUBSET Incs, inc : [Incs -> Records]]
    BY <1>4, <1>5 DEF With, PoolOK, Pools
  <2>2. QED
    BY <1>8, <2>1
<1>10. Used(Q) = Used(P)
  BY <1>6, <1>9 DEF Used, Mapped
<1>11. QED
  BY <1>1, <1>4, <1>6, <1>7, <1>9, <1>10

--------------------------------------------------------------------------------
(* A drain serves the queue from its head *)

\* Who may not stay behind when i goes: the starts of its lane, and the
\* interactive ones, that came before it.
MustPrecede(P, k, i) ==
  k \in P.inc[i].ahead /\ P.inc[k].lane \in {"interactive", P.inc[i].lane}

\* What a drain may do to the pool: some of the starts that wait are admitted,
\* those that stay keep their places, and no start that has to go first stays
\* behind one that goes.
Drained(P, Q) ==
  /\ \A i \in Incs : /\ Q.inc[i].session = P.inc[i].session
                     /\ Q.inc[i].lane = P.inc[i].lane
  /\ \A i \in Incs \ P.pendingStarts : Q.inc[i].phase = P.inc[i].phase
  /\ Q.pendingStarts \subseteq P.pendingStarts
  /\ \A i \in P.pendingStarts \ Q.pendingStarts : Q.inc[i].phase = "admitted"
  /\ \A i \in Q.pendingStarts : Q.inc[i].ahead = P.inc[i].ahead \cap Q.pendingStarts
  /\ Q.reservations \subseteq P.reservations \cup SessionsOf(P, P.pendingStarts \ Q.pendingStarts)
  /\ \A i \in P.pendingStarts \ Q.pendingStarts : \A k \in P.pendingStarts :
       MustPrecede(P, k, i) => k \notin Q.pendingStarts

\* No start waits for a slot that is free for its lane.
Full(P) == \A i \in P.pendingStarts : Cardinality(Used(P)) >= Limit(P.inc[i].lane)

\* Fewer sessions take fewer slots.
LEMMA Monotone ==
  ASSUME NEW S \in SUBSET Sessions, NEW T \in SUBSET S
  PROVE  /\ Cardinality(T) \in Nat /\ Cardinality(S) \in Nat
         /\ Cardinality(T) <= Cardinality(S)
<1>1. IsFiniteSet(S)
  BY SessionsAssumption, FS_Subset
<1>2. Cardinality(T) <= Cardinality(S) /\ IsFiniteSet(T)
  BY <1>1, FS_Subset
<1>3. QED
  BY <1>1, <1>2, FS_CardinalityType

\* Of the waiting starts of a set, one is before all the others.
LEMMA FirstStart ==
  ASSUME NEW P, PoolOK(P), Ordered(P), NEW X \in SUBSET P.pendingStarts, X # {}
  PROVE  \E i \in X : X \cap P.inc[i].ahead = {}
<1> DEFINE T == {P.inc[i].ahead : i \in X}
           R == StrictSubsetOrdering(Incs)
<1>1. IsWellFoundedOn(R, SUBSET Incs)
  <2>1. FiniteSubsetsOf(Incs) = SUBSET Incs
    BY FS_FiniteSubsetsOfFinite, IncsAssumption
  <2>2. IsWellFoundedOn(StrictSubsetOrdering(Incs), FiniteSubsetsOf(Incs))
    BY FS_StrictSubsetOrderingWellFounded
  <2>3. QED
    BY <2>1, <2>2
<1>2. T \subseteq SUBSET Incs /\ T # {}
  <2>1. PICK i \in X : TRUE
    OBVIOUS
  <2>2. P.inc[i].ahead \in T
    BY <2>1
  <2>3. P.pendingStarts \subseteq Incs
    BY DEF PoolOK, Pools
  <2>4. \A k \in X : P.inc[k].ahead \subseteq Incs
    BY <2>3 DEF Ordered
  <2>5. QED
    BY <2>2, <2>4
<1>3. PICK x \in T : \A y \in T : <<y, x>> \notin R
  <2> HIDE DEF T, R
  <2>1. QED
    BY <1>1, <1>2, WFMin
<1>4. PICK i \in X : x = P.inc[i].ahead
  BY <1>3
<1>5. ASSUME NEW k \in X, k \in P.inc[i].ahead
      PROVE  FALSE
  <2>1. P.inc[k].ahead \subseteq P.inc[i].ahead /\ k \notin P.inc[k].ahead
    BY <1>5 DEF Ordered
  <2>2. P.inc[k].ahead \in T /\ P.inc[k].ahead \subseteq x /\ P.inc[k].ahead # x
    BY <1>4, <1>5, <2>1
  <2>3. <<P.inc[k].ahead, x>> \in R
    BY <1>2, <1>3, <2>2 DEF StrictSubsetOrdering
  <2>4. QED
    BY <1>3, <2>2, <2>3
<1>6. QED
  BY <1>5

\* The sessions of waiting starts, and the slots in use, are sessions.
LEMMA PendingSessions ==
  ASSUME NEW P, PoolOK(P)
  PROVE  /\ Used(P) \in SUBSET Sessions
         /\ \A X \in SUBSET P.pendingStarts : SessionsOf(P, X) \in SUBSET Sessions
         /\ P.pendingStarts \in SUBSET Incs
BY ClaimsType DEF PoolOK, Pools, SessionsOf

\* drainPendingStarts takes the first start that has a slot, and stops only when
\* none has.
LEMMA DrainServes ==
  ASSUME NEW P, PoolOK(P), Ordered(P), NEW i \in P.pendingStarts,
         i \in DrainedFirst(P) \cup DrainedLater(P),
         NEW k \in P.pendingStarts, MustPrecede(P, k, i)
  PROVE  k \in DrainedFirst(P) \cup DrainedLater(P)
<1> DEFINE F == DrainedFirst(P)
           V == Used(P) \cup SessionsOf(P, F)
           Before(x) == InteractiveOf(P, P.inc[x].ahead \ F)
<1>1. /\ P.inc[k].ahead \subseteq P.inc[i].ahead
      /\ P.inc[i].ahead \in SUBSET P.pendingStarts
  BY DEF Ordered, MustPrecede
<1>2. F \in SUBSET P.pendingStarts
  BY DEF DrainedFirst
<1>3. CASE i \in F
  <2> DEFINE Sk == Used(P) \cup SessionsOf(P, P.inc[k].ahead)
             Si == Used(P) \cup SessionsOf(P, P.inc[i].ahead)
  <2>1. Cardinality(Si) < Limit("background")
    BY <1>3 DEF DrainedFirst
  <2>2. Si \in SUBSET Sessions /\ Sk \in SUBSET Si
    BY <1>1, PendingSessions DEF SessionsOf
  <2> HIDE DEF Si, Sk
  <2>3. Cardinality(Sk) < Limit("background")
    BY <2>1, <2>2, Monotone, LimitFacts
  <2>4. QED
    BY <2>3 DEF DrainedFirst, Sk
<1>4. CASE i \notin F /\ k \notin F
  <2> DEFINE Sk == V \cup SessionsOf(P, Before(k))
             Si == V \cup SessionsOf(P, Before(i))
  <2>1. i \in DrainedLater(P)
    BY <1>4
  <2>2. P.inc[i].lane = "interactive" /\ Cardinality(Si) < Limit("interactive")
    BY <2>1 DEF DrainedLater, InteractiveOf
  <2>3. Before(i) \in SUBSET P.pendingStarts /\ Before(k) \in SUBSET Before(i)
    BY <1>1 DEF InteractiveOf
  <2>4. Si \in SUBSET Sessions /\ Sk \in SUBSET Si
    <3> HIDE DEF F, Before
    <3>1. SessionsOf(P, Before(k)) \subseteq SessionsOf(P, Before(i))
      BY <2>3 DEF SessionsOf
    <3>2. QED
      BY <1>2, <2>3, <3>1, PendingSessions
  <2>5. k \in InteractiveOf(P, P.pendingStarts \ F)
    BY <1>4, <2>2 DEF MustPrecede, InteractiveOf
  <2>6. Cardinality(Sk) < Limit("interactive")
    <3> HIDE DEF Si, Sk
    <3>1. QED
      BY <2>2, <2>4, Monotone, LimitFacts
  <2>7. QED
    BY <2>5, <2>6 DEF DrainedLater
<1>5. QED
  BY <1>3, <1>4

\* The starts that stay have no slot: the limit of their lane is reached by the
\* slots in use and those that have been handed on.
LEMMA DrainFills ==
  ASSUME NEW P, PoolOK(P), Ordered(P), NEW i \in P.pendingStarts,
         i \notin DrainedFirst(P) \cup DrainedLater(P)
  PROVE  Cardinality(Used(P) \cup SessionsOf(P, DrainedFirst(P) \cup DrainedLater(P)))
           >= Limit(P.inc[i].lane)
<1> DEFINE F == DrainedFirst(P)
           L == DrainedLater(P)
           T == Used(P) \cup SessionsOf(P, F \cup L)
           V == Used(P) \cup SessionsOf(P, F)
           Before(x) == InteractiveOf(P, P.inc[x].ahead \ F)
<1>1. F \in SUBSET P.pendingStarts /\ L \in SUBSET P.pendingStarts
  BY DEF DrainedFirst, DrainedLater, InteractiveOf
<1>2. T \in SUBSET Sessions
  <2> HIDE DEF F, L
  <2>1. QED
    BY <1>1, PendingSessions
<1>3. \A x \in P.pendingStarts : P.inc[x].ahead \in SUBSET P.pendingStarts
  BY DEF Ordered
<1>4. P.inc[i].lane \in Lanes
  <2>1. PICK r \in Records : r = P.inc[i]
    BY PendingSessions DEF PoolOK, Pools
  <2>2. QED
    BY <2>1 DEF Records
<1>5. Cardinality(T) >= Limit("background")
  <2>1. PICK x \in P.pendingStarts \ F : (P.pendingStarts \ F) \cap P.inc[x].ahead = {}
    <3> HIDE DEF F
    <3>1. P.pendingStarts \ F \in SUBSET P.pendingStarts /\ P.pendingStarts \ F # {}
      BY DEF F
    <3>2. QED
      BY <3>1, FirstStart
  <2>2. P.inc[x].ahead \subseteq F
    BY <1>3, <2>1
  <2> DEFINE S == Used(P) \cup SessionsOf(P, P.inc[x].ahead)
  <2>3. ~(Cardinality(S) < Limit("background"))
    BY <2>1 DEF DrainedFirst
  <2>4. S \in SUBSET T
    <3> HIDE DEF F, L
    <3>1. QED
      BY <2>2 DEF SessionsOf
  <2> HIDE DEF S, T
  <2>5. QED
    BY <1>2, <2>3, <2>4, Monotone, LimitFacts
<1>6. CASE P.inc[i].lane = "background"
  BY <1>5, <1>6
<1>7. CASE P.inc[i].lane = "interactive"
  <2> DEFINE Y == InteractiveOf(P, P.pendingStarts \ F) \ L
  <2>1. i \in Y /\ Y \in SUBSET P.pendingStarts
    BY <1>7 DEF InteractiveOf
  <2>2. PICK y \in Y : Y \cap P.inc[y].ahead = {}
    <3> HIDE DEF Y
    <3>1. QED
      BY <2>1, FirstStart
  <2>3. Before(y) \subseteq L
    BY <1>3, <2>1, <2>2 DEF InteractiveOf
  <2> DEFINE S == V \cup SessionsOf(P, Before(y))
  <2>4. ~(Cardinality(S) < Limit("interactive"))
    BY <2>2 DEF DrainedLater
  <2>5. S \in SUBSET T
    <3> HIDE DEF F, L, Before
    <3>1. QED
      BY <2>3 DEF SessionsOf
  <2> HIDE DEF S, T
  <2>6. Cardinality(T) >= Limit("interactive")
    BY <1>2, <2>4, <2>5, Monotone, LimitFacts
  <2>7. QED
    BY <1>7, <2>6 DEF T
<1>8. QED
  BY <1>4, <1>6, <1>7 DEF Lanes

\* A drain keeps the pool well typed and the queue in order, admits the starts in
\* that order, and leaves none for which there is a slot.
LEMMA DrainDrained ==
  ASSUME NEW P, PoolOK(P), Ordered(P)
  PROVE  /\ Drained(P, drainPendingStarts(P))
         /\ Full(drainPendingStarts(P))
<1>1. PICK A : A = DrainedFirst(P) \cup DrainedLater(P)
  OBVIOUS
<1>2. A \in SUBSET P.pendingStarts /\ P.pendingStarts \in SUBSET Incs
  BY <1>1 DEF DrainedFirst, DrainedLater, InteractiveOf, PoolOK, Pools
<1>3. A \in SUBSET Incs /\ P.inc \in [Incs -> Records]
  BY <1>2 DEF PoolOK, Pools
<1>4. PICK Q : Q = Admit(P, A) /\ Q = drainPendingStarts(P)
  BY <1>1 DEF drainPendingStarts
<1>5. /\ Q.streaming = P.streaming
      /\ Q.reservations = P.reservations \cup SessionsOf(P, A)
      /\ Q.pendingStarts = P.pendingStarts \ A
      /\ \A i \in A : /\ Q.inc[i].phase = "admitted"
                      /\ Q.inc[i].session = P.inc[i].session
                      /\ Q.inc[i].lane = P.inc[i].lane
      /\ \A i \in Incs \ A : /\ Q.inc[i].phase = P.inc[i].phase
                             /\ Q.inc[i].ahead = P.inc[i].ahead \ A
                             /\ Q.inc[i].session = P.inc[i].session
                             /\ Q.inc[i].lane = P.inc[i].lane
  <2>1. PICK R : R = Admit(P, A)
    OBVIOUS
  <2>2. /\ R.streaming = P.streaming
        /\ R.reservations = P.reservations \cup SessionsOf(P, A)
        /\ R.pendingStarts = P.pendingStarts \ A
    BY <1>3, <2>1, AdmitEffect
  <2>3. \A i \in A : /\ R.inc[i].phase = "admitted"
                    /\ R.inc[i].session = P.inc[i].session
                    /\ R.inc[i].lane = P.inc[i].lane
    BY <1>3, <2>1, AdmitEffect
  <2>4. \A i \in Incs \ A : /\ R.inc[i].phase = P.inc[i].phase
                            /\ R.inc[i].ahead = P.inc[i].ahead \ A
                            /\ R.inc[i].session = P.inc[i].session
                            /\ R.inc[i].lane = P.inc[i].lane
    BY <1>3, <2>1, AdmitEffect
  <2>5. Q = R
    BY <1>4, <2>1
  <2>6. QED
    BY <2>2, <2>3, <2>4, <2>5
<1>6. Drained(P, Q)
  <2>1. P.pendingStarts \ Q.pendingStarts = A
    BY <1>2, <1>5
  <2>2. \A i \in Q.pendingStarts : Q.inc[i].ahead = P.inc[i].ahead \cap Q.pendingStarts
    BY <1>2, <1>5 DEF Ordered
  <2>3. ASSUME NEW i \in A, NEW k \in P.pendingStarts, MustPrecede(P, k, i)
        PROVE  k \in A
    BY <1>1, <1>2, <2>3, DrainServes
  <2>4. /\ \A i \in Incs : /\ Q.inc[i].session = P.inc[i].session
                           /\ Q.inc[i].lane = P.inc[i].lane
        /\ \A i \in Incs \ P.pendingStarts : Q.inc[i].phase = P.inc[i].phase
        /\ Q.pendingStarts \subseteq P.pendingStarts
    BY <1>2, <1>5
  <2>5. QED
    BY <1>5, <2>1, <2>2, <2>3, <2>4 DEF Drained
<1>7. Full(Q)
  <2>1. Used(Q) = Used(P) \cup SessionsOf(P, A)
    BY <1>5 DEF Used, Mapped
  <2>2. ASSUME NEW i \in Q.pendingStarts
        PROVE  Cardinality(Used(Q)) >= Limit(Q.inc[i].lane)
    <3>1. i \in P.pendingStarts /\ i \notin A /\ Q.inc[i].lane = P.inc[i].lane
      BY <1>2, <1>5
    <3>2. QED
      BY <1>1, <2>1, <3>1, DrainFills
  <2>3. QED
    BY <2>2 DEF Full
<1>8. QED
  BY <1>4, <1>6, <1>7

\* The starts that stay are still in order.
LEMMA DrainedOrdered ==
  ASSUME NEW P, NEW Q, PoolOK(P), PoolOK(Q), Ordered(P), Drained(P, Q)
  PROVE  Ordered(Q)
<1> SUFFICES ASSUME NEW i \in Q.pendingStarts
             PROVE  /\ Q.inc[i].ahead \subseteq Q.pendingStarts \ {i}
                    /\ \A k \in Q.inc[i].ahead : Q.inc[k].ahead \subseteq Q.inc[i].ahead
                    /\ \A k \in Q.pendingStarts :
                         k = i \/ k \in Q.inc[i].ahead \/ i \in Q.inc[k].ahead
  BY DEF Ordered
<1>1. i \in P.pendingStarts
  BY DEF Drained
<1>2. /\ P.inc[i].ahead \subseteq P.pendingStarts \ {i}
      /\ \A k \in P.inc[i].ahead : P.inc[k].ahead \subseteq P.inc[i].ahead
      /\ \A k \in P.pendingStarts : k = i \/ k \in P.inc[i].ahead \/ i \in P.inc[k].ahead
  BY <1>1 DEF Ordered
<1>3. \A k \in Q.pendingStarts : Q.inc[k].ahead = P.inc[k].ahead \cap Q.pendingStarts
  BY DEF Drained
<1>4. Q.pendingStarts \subseteq P.pendingStarts
  BY DEF Drained
<1>5. QED
  BY <1>2, <1>3, <1>4

\* Doing nothing is a drain.
LEMMA DrainedRefl ==
  ASSUME NEW P, PoolOK(P), Ordered(P)
  PROVE  Drained(P, P)
BY DEF Drained, Ordered

\* So is a drain after which the pool is drained again.
LEMMA DrainedTrans ==
  ASSUME NEW P, NEW Q, NEW R, PoolOK(P), PoolOK(Q), PoolOK(R), Drained(P, Q), Drained(Q, R)
  PROVE  Drained(P, R)
<1>0. P.pendingStarts \in SUBSET Incs /\ R.pendingStarts \subseteq Q.pendingStarts
      /\ Q.pendingStarts \subseteq P.pendingStarts
  BY PendingSessions DEF Drained
<1>1. \A i \in Incs : R.inc[i].session = P.inc[i].session /\ R.inc[i].lane = P.inc[i].lane
  BY DEF Drained
<1>2. \A i \in Incs \ P.pendingStarts : R.inc[i].phase = P.inc[i].phase
  BY <1>0 DEF Drained
<1>3. \A i \in P.pendingStarts \ R.pendingStarts : R.inc[i].phase = "admitted"
  <2> SUFFICES ASSUME NEW i \in P.pendingStarts \ R.pendingStarts
               PROVE  R.inc[i].phase = "admitted"
    OBVIOUS
  <2>1. CASE i \in Q.pendingStarts
    BY <2>1 DEF Drained
  <2>2. CASE i \notin Q.pendingStarts
    <3>1. Q.inc[i].phase = "admitted" /\ i \in Incs \ Q.pendingStarts
      BY <1>0, <2>2 DEF Drained
    <3>2. QED
      BY <3>1 DEF Drained
  <2>3. QED
    BY <2>1, <2>2
<1>4. \A i \in R.pendingStarts : R.inc[i].ahead = P.inc[i].ahead \cap R.pendingStarts
  BY <1>0 DEF Drained
<1>5. R.reservations \subseteq P.reservations \cup SessionsOf(P, P.pendingStarts \ R.pendingStarts)
  <2>1. SessionsOf(P, P.pendingStarts \ Q.pendingStarts)
          \subseteq SessionsOf(P, P.pendingStarts \ R.pendingStarts)
    BY <1>0 DEF SessionsOf
  <2>2. SessionsOf(Q, Q.pendingStarts \ R.pendingStarts)
          \subseteq SessionsOf(P, P.pendingStarts \ R.pendingStarts)
    <3>1. \A i \in Q.pendingStarts : Q.inc[i].session = P.inc[i].session
      BY <1>0 DEF Drained
    <3>2. QED
      BY <1>0, <3>1 DEF SessionsOf
  <2>3. /\ Q.reservations \subseteq P.reservations \cup SessionsOf(P, P.pendingStarts \ Q.pendingStarts)
        /\ R.reservations \subseteq Q.reservations \cup SessionsOf(Q, Q.pendingStarts \ R.pendingStarts)
    BY DEF Drained
  <2>4. QED
    BY <2>1, <2>2, <2>3
<1>6. ASSUME NEW i \in P.pendingStarts \ R.pendingStarts, NEW k \in P.pendingStarts,
             MustPrecede(P, k, i)
      PROVE  k \notin R.pendingStarts
  <2>1. CASE i \notin Q.pendingStarts
    <3>1. k \notin Q.pendingStarts
      BY <1>6, <2>1 DEF Drained
    <3>2. QED
      BY <1>0, <3>1
  <2>2. CASE i \in Q.pendingStarts /\ k \in Q.pendingStarts
    <3>1. MustPrecede(Q, k, i)
      <4>1. /\ Q.inc[i].ahead = P.inc[i].ahead \cap Q.pendingStarts
            /\ Q.inc[i].lane = P.inc[i].lane /\ Q.inc[k].lane = P.inc[k].lane
        BY <1>0, <2>2 DEF Drained
      <4>2. QED
        BY <1>6, <2>2, <4>1 DEF MustPrecede
    <3>2. i \in Q.pendingStarts \ R.pendingStarts
      BY <2>2
    <3>3. QED
      BY <2>2, <3>1, <3>2 DEF Drained
  <2>3. QED
    BY <1>0, <2>1, <2>2
<1>7. QED
  BY <1>0, <1>1, <1>2, <1>3, <1>4, <1>5, <1>6 DEF Drained

\* A drain of a pool that only lost entries or reservations is one of the pool
\* before that.
LEMMA DrainedFrom ==
  ASSUME NEW P, NEW U, NEW Q, Drained(U, Q), U.inc = P.inc,
         U.pendingStarts = P.pendingStarts, U.reservations \subseteq P.reservations
  PROVE  Drained(P, Q)
<1>1. SessionsOf(U, U.pendingStarts \ Q.pendingStarts)
        = SessionsOf(P, P.pendingStarts \ Q.pendingStarts)
  BY DEF SessionsOf
<1>2. \A i, k : MustPrecede(U, k, i) <=> MustPrecede(P, k, i)
  BY DEF MustPrecede
<1>3. /\ \A i \in Incs : /\ Q.inc[i].session = P.inc[i].session
                         /\ Q.inc[i].lane = P.inc[i].lane
      /\ \A i \in Incs \ P.pendingStarts : Q.inc[i].phase = P.inc[i].phase
      /\ Q.pendingStarts \subseteq P.pendingStarts
      /\ \A i \in P.pendingStarts \ Q.pendingStarts : Q.inc[i].phase = "admitted"
      /\ \A i \in Q.pendingStarts : Q.inc[i].ahead = P.inc[i].ahead \cap Q.pendingStarts
  BY DEF Drained
<1>4. Q.reservations \subseteq P.reservations \cup SessionsOf(P, P.pendingStarts \ Q.pendingStarts)
  <2>1. Q.reservations \subseteq U.reservations \cup SessionsOf(U, U.pendingStarts \ Q.pendingStarts)
    BY DEF Drained
  <2>2. QED
    BY <1>1, <2>1
<1>5. \A i \in P.pendingStarts \ Q.pendingStarts : \A k \in P.pendingStarts :
        MustPrecede(P, k, i) => k \notin Q.pendingStarts
  BY <1>2 DEF Drained
<1>6. QED
  BY <1>3, <1>4, <1>5 DEF Drained

--------------------------------------------------------------------------------
(* The second strengthening: who owns a name, and whose the free slots are *)

\* The names of the incarnations in some of the phases.
Owners(P, phases) == SessionsOf(P, {i \in Incs : P.inc[i].phase \in phases})

\* the phases of a start that holds a reservation, that is in
\* pendingStartSessions, and that is in startingSessions
Reserving == {"admitted", "reserved", "building", "failing"}
Queued == {"waiting", "admitted", "reserved"}
Starting == {"building", "failing"}
\* the phases in which an incarnation is no start
Aside == {"unused", "live", "closing"}

\* Every reserved name, every name of W and every name of S is that of a start in
\* flight, in the phases that will take it out again.
Owned(P, W, S) ==
  /\ P.reservations \subseteq Owners(P, Reserving)
  /\ W \subseteq Owners(P, Queued)
  /\ S \subseteq Owners(P, Starting)

\* The pool, with the two start indexes that go with it.
Consistent(P, W, S) == PoolOK(P) /\ Ordered(P) /\ Owned(P, W, S)

\* No start waits for a slot, unless it is one that a continuation is going to
\* take, or that X is about to keep.
Saturated(P, X) ==
  \A i \in P.pendingStarts : Cardinality(Claims(P) \cup X) >= Limit(P.inc[i].lane)

\* A name keeps its owner when another incarnation changes.
LEMMA OwnersOthers ==
  ASSUME NEW P, NEW Q, NEW j \in Incs, NEW phases,
         \A k \in Incs \ {j} : Q.inc[k] = P.inc[k]
  PROVE  /\ Owners(P, phases) \subseteq Owners(Q, phases) \cup {P.inc[j].session}
         /\ P.inc[j].phase \notin phases => Owners(P, phases) \subseteq Owners(Q, phases)
         /\ Q.inc[j].phase \in phases => Q.inc[j].session \in Owners(Q, phases)
BY DEF Owners, SessionsOf

\* And in a drain, which only takes waiting starts to "admitted".
LEMMA OwnersDrained ==
  ASSUME NEW P, NEW Q, PoolOK(P), PoolOK(Q), Drained(P, Q),
         NEW phases, "waiting" \in phases => "admitted" \in phases
  PROVE  Owners(P, phases) \subseteq Owners(Q, phases)
<1> SUFFICES ASSUME NEW i \in Incs, P.inc[i].phase \in phases
             PROVE  P.inc[i].session \in Owners(Q, phases)
  BY DEF Owners, SessionsOf
<1>1. Q.inc[i].session = P.inc[i].session
  BY DEF Drained
<1>2. Q.inc[i].phase \in phases
  <2>1. CASE i \in P.pendingStarts
    <3>1. P.inc[i].phase = "waiting"
      BY <2>1 DEF PoolOK
    <3>2. Q.inc[i].phase \in {"waiting", "admitted"}
      BY <2>1 DEF Drained, PoolOK
    <3>3. QED
      BY <3>1, <3>2
  <2>2. CASE i \notin P.pendingStarts
    BY <2>2 DEF Drained
  <2>3. QED
    BY <2>1, <2>2
<1>3. QED
  BY <1>1, <1>2 DEF Owners, SessionsOf

\* A drain keeps the pool consistent: who it admits owns the reservation it makes.
LEMMA DrainedConsistent ==
  ASSUME NEW P, NEW Q, NEW W, NEW S, Consistent(P, W, S), PoolOK(Q), Drained(P, Q)
  PROVE  Consistent(Q, W, S)
<1>1. PoolOK(P) /\ Ordered(Q)
  BY DrainedOrdered DEF Consistent
<1>2. W \subseteq Owners(Q, Queued) /\ S \subseteq Owners(Q, Starting)
  BY <1>1, OwnersDrained DEF Consistent, Owned, Queued, Starting
<1>3. P.reservations \subseteq Owners(Q, Reserving)
  BY <1>1, OwnersDrained DEF Consistent, Owned, Reserving
<1>4. SessionsOf(P, P.pendingStarts \ Q.pendingStarts) \subseteq Owners(Q, Reserving)
  BY <1>1, PendingSessions DEF Drained, SessionsOf, Owners, Reserving
<1>5. Q.reservations \subseteq Owners(Q, Reserving)
  BY <1>3, <1>4 DEF Drained
<1>6. QED
  BY <1>1, <1>2, <1>5 DEF Consistent, Owned

\* The pool stays saturated when what is claimed does not shrink.
LEMMA StaysSaturated ==
  ASSUME NEW P, NEW Q, NEW X \in SUBSET Sessions, NEW Y \in SUBSET Sessions,
         PoolOK(P), PoolOK(Q), Saturated(P, X),
         Q.pendingStarts \subseteq P.pendingStarts,
         \A i \in Q.pendingStarts : Q.inc[i].lane = P.inc[i].lane,
         Claims(P) \cup X \subseteq Claims(Q) \cup Y
  PROVE  Saturated(Q, Y)
<1>1. Claims(P) \cup X \in SUBSET (Claims(Q) \cup Y) /\ Claims(Q) \cup Y \in SUBSET Sessions
  BY ClaimsType
<1>2. ASSUME NEW i \in Q.pendingStarts
      PROVE  Cardinality(Claims(Q) \cup Y) >= Limit(Q.inc[i].lane)
  <2>1. Cardinality(Claims(P) \cup X) >= Limit(Q.inc[i].lane)
    BY DEF Saturated
  <2>2. PICK r \in Records : r = Q.inc[i]
    BY PendingSessions DEF PoolOK, Pools
  <2>3. r.lane \in Lanes
    BY DEF Records
  <2>4. QED
    BY <1>1, <2>1, <2>2, <2>3, Monotone, LimitFacts DEF Lanes
<1>3. QED
  BY <1>2 DEF Saturated

\* After a drain it is saturated.
LEMMA FullSaturated ==
  ASSUME NEW P, PoolOK(P), Full(P)
  PROVE  Saturated(P, {})
<1>1. Used(P) \in SUBSET (Claims(P) \cup {}) /\ Claims(P) \cup {} \in SUBSET Sessions
  BY ClaimsType DEF Claims
<1>2. ASSUME NEW i \in P.pendingStarts
      PROVE  Cardinality(Claims(P) \cup {}) >= Limit(P.inc[i].lane)
  <2>1. Cardinality(Used(P)) >= Limit(P.inc[i].lane)
    BY DEF Full
  <2>2. PICK r \in Records : r = P.inc[i]
    BY PendingSessions DEF PoolOK, Pools
  <2>3. r.lane \in Lanes
    BY DEF Records
  <2>4. QED
    BY <1>1, <2>1, <2>2, <2>3, Monotone, LimitFacts DEF Lanes
<1>3. QED
  BY <1>2 DEF Saturated

\* A drain under a condition.
LEMMA DrainIfDrained ==
  ASSUME NEW P, NEW W, NEW S, Consistent(P, W, S), NEW c \in BOOLEAN
  PROVE  /\ Consistent(DrainIf(P, c), W, S)
         /\ Drained(P, DrainIf(P, c))
         /\ c \/ Saturated(P, {}) => Saturated(DrainIf(P, c), {})
<1>1. PICK Q : Q = DrainIf(P, c)
  OBVIOUS
<1>2. PoolOK(P) /\ Ordered(P) /\ PoolOK(Q)
  BY <1>1, DrainIfOK DEF Consistent
<1>3. CASE c
  BY <1>1, <1>2, <1>3, DrainDrained, DrainedConsistent, FullSaturated DEF DrainIf
<1>4. CASE ~c
  BY <1>1, <1>2, <1>4, DrainedRefl DEF DrainIf
<1>5. QED
  BY <1>1, <1>3, <1>4

\* Releasing the slot of a name.
LEMMA ReleaseSlotDrained ==
  ASSUME NEW P, NEW W, NEW S, Consistent(P, W, S), NEW s \in Sessions
  PROVE  /\ Consistent(ReleaseSlot(P, s), W, S)
         /\ Drained(P, ReleaseSlot(P, s))
         /\ Saturated(P, {}) => Saturated(ReleaseSlot(P, s), {})
<1>1. PICK U : U = Unmap(P, s)
  OBVIOUS
<1>2. /\ U.reservations = P.reservations /\ U.pendingStarts = P.pendingStarts
      /\ U.inc = P.inc /\ PoolOK(U)
      /\ P.streaming[s] = NoInc => Used(U) = Used(P)
  BY <1>1, UnmapEffect, UnmapOK DEF Consistent
<1>3. Consistent(U, W, S)
  BY <1>2 DEF Consistent, Ordered, Owned, Owners, SessionsOf
<1>4. P.streaming[s] = NoInc /\ Saturated(P, {}) => Saturated(U, {})
  <2>1. P.streaming[s] = NoInc => Claims(U) = Claims(P)
    BY <1>2 DEF Claims, SessionsOf, ContinuationsOf
  <2>2. QED
    BY <1>2, <2>1 DEF Saturated
<1>5. PICK Q : Q = DrainIf(U, P.streaming[s] # NoInc)
  OBVIOUS
<1>6. /\ Consistent(Q, W, S) /\ Drained(U, Q)
      /\ P.streaming[s] # NoInc \/ Saturated(U, {}) => Saturated(Q, {})
  BY <1>3, <1>5, DrainIfDrained
<1>7. Drained(P, Q)
  BY <1>2, <1>6, DrainedFrom
<1>8. QED
  BY <1>1, <1>4, <1>5, <1>6, <1>7 DEF ReleaseSlot

\* The finally of startStreamingSession gives back the reservation of its name:
\* whoever has lost its owner with the start.
LEMMA FinishedDrained ==
  ASSUME NEW P, NEW W, NEW S, NEW j \in Incs, PoolOK(P), Ordered(P),
         inc[j].session \in Sessions, inc[j].drainAfter \in BOOLEAN,
         P.reservations \ {inc[j].session} \subseteq Owners(P, Reserving),
         W \subseteq Owners(P, Queued), S \subseteq Owners(P, Starting)
  PROVE  /\ Consistent(Finished(P, j), W, S)
         /\ Drained(P, Finished(P, j))
         /\ Saturated(P, {}) => Saturated(Finished(P, j), {})
<1> DEFINE s == inc[j].session
           c == s \in P.reservations /\ P.streaming[s] = NoInc
<1>1. PICK U : U = Unreserve(P, s)
  OBVIOUS
<1>2. /\ U.reservations = P.reservations \ {s} /\ U.pendingStarts = P.pendingStarts
      /\ U.inc = P.inc /\ PoolOK(U)
      /\ ~c => Used(U) = Used(P)
  BY <1>1, UnreserveEffect, UnreserveOK
<1>3. Consistent(U, W, S)
  BY <1>2 DEF Consistent, Ordered, Owned, Owners, SessionsOf
<1>4. ~c /\ Saturated(P, {}) => Saturated(U, {})
  <2>1. ~c => Claims(U) = Claims(P)
    BY <1>2 DEF Claims, SessionsOf, ContinuationsOf
  <2>2. QED
    BY <1>2, <2>1 DEF Saturated
<1>5. PICK V : V = DrainIf(U, c)
  OBVIOUS
<1>6. /\ Consistent(V, W, S) /\ Drained(U, V)
      /\ c \/ Saturated(U, {}) => Saturated(V, {})
  BY <1>3, <1>5, DrainIfDrained
<1>7. PICK Q : Q = DrainIf(V, inc[j].drainAfter)
  OBVIOUS
<1>8. /\ Consistent(Q, W, S) /\ Drained(V, Q)
      /\ Saturated(V, {}) => Saturated(Q, {})
  BY <1>6, <1>7, DrainIfDrained
<1>9. Drained(P, Q)
  <2>1. Drained(U, Q)
    BY <1>2, <1>6, <1>8, DrainedTrans DEF Consistent
  <2>2. QED
    BY <1>2, <2>1, DrainedFrom
<1>10. Q = Finished(P, j)
  BY <1>1, <1>5, <1>7 DEF Finished, releaseRuntimeSessionStartReservation
<1>11. QED
  BY <1>4, <1>6, <1>8, <1>9, <1>10

\* Replacing an incarnation by one that is the same to the pool, or one that is
\* no start by another that is none.
LEMMA WithConsistent ==
  ASSUME NEW P, NEW W, NEW S, Consistent(P, W, S), NEW i \in Incs, NEW r \in Records,
         \/ Same(P.inc[i], r)
         \/ P.inc[i].phase \in Aside /\ r.phase \in Aside /\ (r.phase # "unused" => r.session \in Sessions)
  PROVE  /\ Consistent(With(P, i, r), W, S)
         /\ \A X \in SUBSET Sessions : Saturated(P, X) => Saturated(With(P, i, r), X)
<1>1. PICK Q : Q = With(P, i, r)
  OBVIOUS
<1>2. PoolOK(P) /\ Ordered(P) /\ (P.inc[i].phase # "unused" => P.inc[i].session \in Sessions)
  BY DEF Consistent, PoolOK
<1>3. /\ r.phase = "waiting" <=> P.inc[i].phase = "waiting"
      /\ r.phase # "unused" => r.session \in Sessions
  BY <1>2 DEF Same, Aside
<1>4. PoolOK(Q)
  BY <1>1, <1>2, <1>3, WithOK
<1>5. /\ Q.reservations = P.reservations /\ Q.pendingStarts = P.pendingStarts
      /\ Q.inc[i] = r /\ Used(Q) = Used(P)
      /\ \A k \in Incs \ {i} : Q.inc[k] = P.inc[k]
  BY <1>1, <1>2, WithEffect
<1>6. \A k \in P.pendingStarts : Q.inc[k].ahead = P.inc[k].ahead /\ Q.inc[k].lane = P.inc[k].lane
  BY <1>2, <1>5 DEF PoolOK, Same, Aside
<1>7. Ordered(Q)
  BY <1>2, <1>5, <1>6 DEF Ordered
<1>8. ASSUME NEW phases, phases \cap Aside = {}
      PROVE  Owners(P, phases) = Owners(Q, phases)
  <2>1. \A k \in Incs : /\ Q.inc[k].phase \in phases <=> P.inc[k].phase \in phases
                        /\ P.inc[k].phase \in phases => Q.inc[k].session = P.inc[k].session
    BY <1>5, <1>8 DEF Same
  <2>2. QED
    BY <2>1 DEF Owners, SessionsOf
<1>9. Owned(Q, W, S)
  <2>1. /\ Reserving \cap Aside = {} /\ Queued \cap Aside = {} /\ Starting \cap Aside = {}
        /\ Continuing \cap Aside = {}
    BY DEF Reserving, Queued, Starting, Aside, Continuing
  <2>2. QED
    BY <1>5, <1>8, <2>1 DEF Owned, Consistent
<1>10. Claims(Q) = Claims(P)
  <2>1. SessionsOf(Q, ContinuationsOf(Q)) = SessionsOf(P, ContinuationsOf(P))
    <3>1. Continuing \cap Aside = {}
      BY DEF Aside, Continuing
    <3>2. QED
      BY <1>8, <3>1 DEF Owners, ContinuationsOf
  <2>2. QED
    BY <1>5, <2>1 DEF Claims
<1>11. \A X \in SUBSET Sessions : Saturated(P, X) => Saturated(Q, X)
  BY <1>5, <1>6, <1>10 DEF Saturated
<1>12. QED
  BY <1>1, <1>4, <1>7, <1>9, <1>11 DEF Consistent

\* Removing a map entry keeps the pool consistent, and saturated with the slot
\* of the name.
LEMMA UnmapConsistent ==
  ASSUME NEW P, NEW W, NEW S, Consistent(P, W, S), NEW s \in Sessions
  PROVE  /\ Consistent(Unmap(P, s), W, S)
         /\ Unmap(P, s).inc = P.inc
         /\ Unmap(P, s).pendingStarts = P.pendingStarts
         /\ Saturated(P, {}) => Saturated(Unmap(P, s), {s})
         /\ P.streaming[s] = NoInc /\ Saturated(P, {}) => Saturated(Unmap(P, s), {})
<1>1. PICK U : U = Unmap(P, s)
  OBVIOUS
<1>2. /\ U.reservations = P.reservations /\ U.pendingStarts = P.pendingStarts
      /\ U.inc = P.inc /\ PoolOK(U) /\ PoolOK(P)
      /\ Used(P) \subseteq Used(U) \cup {s}
      /\ P.streaming[s] = NoInc => Used(U) = Used(P)
  BY <1>1, UnmapEffect, UnmapOK DEF Consistent
<1>3. Consistent(U, W, S)
  BY <1>2 DEF Consistent, Ordered, Owned, Owners, SessionsOf
<1>4. Claims(P) \cup {} \subseteq Claims(U) \cup {s}
  BY <1>2 DEF Claims, SessionsOf, ContinuationsOf
<1>5. Saturated(P, {}) => Saturated(U, {s})
  BY <1>2, <1>4, StaysSaturated
<1>6. P.streaming[s] = NoInc /\ Saturated(P, {}) => Saturated(U, {})
  <2>1. P.streaming[s] = NoInc => Claims(U) = Claims(P)
    BY <1>2 DEF Claims, SessionsOf, ContinuationsOf
  <2>2. QED
    BY <1>2, <2>1 DEF Saturated
<1>7. QED
  BY <1>1, <1>2, <1>3, <1>5, <1>6

\* What it takes to make a start of an incarnation.
LEMMA NewOwner ==
  ASSUME NEW P, NEW Q, NEW W, NEW S, NEW j \in Incs, Consistent(P, W, S), PoolOK(Q),
         \A k \in Incs \ {j} : Q.inc[k] = P.inc[k],
         P.inc[j].phase \in Aside \cup {"retaining"}
  PROVE  /\ P.reservations \subseteq Owners(Q, Reserving)
         /\ W \subseteq Owners(Q, Queued)
         /\ S \subseteq Owners(Q, Starting)
         /\ Q.inc[j].phase \in Queued => Q.inc[j].session \in Owners(Q, Queued)
         /\ Q.inc[j].phase \in Reserving => Q.inc[j].session \in Owners(Q, Reserving)
         /\ \A i \in P.pendingStarts : i # j /\ i \in Incs
<1>1. /\ P.inc[j].phase \notin Reserving /\ P.inc[j].phase \notin Queued
      /\ P.inc[j].phase \notin Starting /\ P.inc[j].phase # "waiting"
  BY DEF Reserving, Queued, Starting, Aside
<1>2. QED
  BY <1>1, OwnersOthers DEF Consistent, Owned, PoolOK

\* Keeping a slot for a start: it owns its name, and takes the slot.
LEMMA RetainConsistent ==
  ASSUME NEW P, NEW W, NEW S, Consistent(P, W, S), NEW j \in Incs,
         P.inc[j].phase \in Aside \cup {"retaining"}, P.inc[j].session \in Sessions
  PROVE  /\ Consistent(Retain(P, j), W \cup {P.inc[j].session}, S)
         /\ Retain(P, j).pendingStarts = P.pendingStarts
         /\ \A i \in P.pendingStarts : Retain(P, j).inc[i] = P.inc[i]
         /\ Saturated(P, {P.inc[j].session}) => Saturated(Retain(P, j), {})
         /\ Saturated(P, {}) => Saturated(Retain(P, j), {})
<1>1. PICK Q : Q = Retain(P, j)
  OBVIOUS
<1>2. PICK s \in Sessions : s = P.inc[j].session
  OBVIOUS
<1>3. PoolOK(P) /\ Ordered(P) /\ P.inc[j].phase # "waiting"
  BY DEF Consistent, Aside
<1>4. PoolOK(Q)
  BY <1>1, <1>3, RetainOK
<1>5. /\ Q.reservations = P.reservations \cup {s} /\ Q.pendingStarts = P.pendingStarts
      /\ Q.inc[j].phase = "reserved" /\ Q.inc[j].session = s
      /\ \A k \in Incs \ {j} : Q.inc[k] = P.inc[k]
      /\ Used(Q) = Used(P) \cup {s}
  BY <1>1, <1>2, <1>3, RetainEffect
<1>6. /\ P.reservations \subseteq Owners(Q, Reserving)
      /\ W \subseteq Owners(Q, Queued) /\ S \subseteq Owners(Q, Starting)
      /\ s \in Owners(Q, Queued) /\ s \in Owners(Q, Reserving)
      /\ \A i \in P.pendingStarts : i # j /\ i \in Incs
  <2>1. "reserved" \in Queued /\ "reserved" \in Reserving
    BY DEF Queued, Reserving
  <2>2. \A k \in Incs \ {j} : Q.inc[k] = P.inc[k]
    BY <1>5
  <2>3. /\ P.reservations \subseteq Owners(Q, Reserving)
        /\ W \subseteq Owners(Q, Queued) /\ S \subseteq Owners(Q, Starting)
        /\ Q.inc[j].phase \in Queued => Q.inc[j].session \in Owners(Q, Queued)
        /\ Q.inc[j].phase \in Reserving => Q.inc[j].session \in Owners(Q, Reserving)
        /\ \A i \in P.pendingStarts : i # j /\ i \in Incs
    BY <1>4, <2>2, NewOwner
  <2>4. QED
    BY <1>5, <2>1, <2>3
<1>7. \A i \in P.pendingStarts : Q.inc[i] = P.inc[i]
  BY <1>5, <1>6
<1>8. Ordered(Q)
  BY <1>3, <1>5, <1>7 DEF Ordered
<1>9. Claims(P) \subseteq Claims(Q) /\ s \in Claims(Q)
  <2>1. SessionsOf(P, ContinuationsOf(P)) \subseteq SessionsOf(Q, ContinuationsOf(Q)) \cup {s}
    BY <1>2, <1>5 DEF SessionsOf, ContinuationsOf
  <2>2. QED
    BY <1>5, <2>1 DEF Claims
<1>10. Saturated(P, {s}) => Saturated(Q, {})
  <2>1. Claims(P) \cup {s} \subseteq Claims(Q) \cup {}
    BY <1>9
  <2>2. QED
    BY <1>3, <1>4, <1>5, <1>7, <2>1, StaysSaturated
<1>11. Saturated(P, {}) => Saturated(Q, {})
  <2>1. Claims(P) \cup {} \subseteq Claims(Q) \cup {}
    BY <1>9
  <2>2. QED
    BY <1>3, <1>4, <1>5, <1>7, <2>1, StaysSaturated
<1>12. Consistent(Q, W \cup {s}, S)
  BY <1>4, <1>5, <1>6, <1>8 DEF Consistent, Owned
<1>13. QED
  BY <1>1, <1>2, <1>5, <1>7, <1>10, <1>11, <1>12

\* Queueing a start for which there is no slot.
LEMMA WaitConsistent ==
  ASSUME NEW P, NEW W, NEW S, Consistent(P, W, S), NEW j \in Incs,
         P.inc[j].phase \in Aside, P.inc[j].session \in Sessions
  PROVE  /\ Consistent(Wait(P, j), W \cup {P.inc[j].session}, S)
         /\ Wait(P, j).inc[j].phase = "waiting"
         /\ \A i \in P.pendingStarts : Wait(P, j).inc[i] = P.inc[i]
         /\ Saturated(P, {}) /\ ~HasSlot(P, P.inc[j].lane) => Saturated(Wait(P, j), {})
<1>1. PICK Q : Q = Wait(P, j)
  OBVIOUS
<1>2. PICK s \in Sessions : s = P.inc[j].session
  OBVIOUS
<1>3. PoolOK(P) /\ Ordered(P) /\ P.inc[j].phase # "waiting"
  BY DEF Consistent, Aside
<1>4. PoolOK(Q)
  BY <1>1, <1>3, WaitOK
<1>5. /\ Q.reservations = P.reservations /\ Q.pendingStarts = P.pendingStarts \cup {j}
      /\ Q.inc[j].phase = "waiting" /\ Q.inc[j].session = s
      /\ Q.inc[j].lane = P.inc[j].lane /\ Q.inc[j].ahead = P.pendingStarts
      /\ \A k \in Incs \ {j} : Q.inc[k] = P.inc[k]
      /\ Used(Q) = Used(P)
  BY <1>1, <1>2, <1>3, WaitEffect
<1>6. /\ P.reservations \subseteq Owners(Q, Reserving)
      /\ W \subseteq Owners(Q, Queued) /\ S \subseteq Owners(Q, Starting)
      /\ s \in Owners(Q, Queued)
      /\ \A i \in P.pendingStarts : i # j /\ i \in Incs
  <2>1. "waiting" \in Queued
    BY DEF Queued
  <2>2. QED
    BY <1>4, <1>5, <2>1, NewOwner
<1>7. \A i \in P.pendingStarts : Q.inc[i] = P.inc[i]
  BY <1>5, <1>6
<1>8. Ordered(Q)
  BY <1>3, <1>5, <1>6, <1>7 DEF Ordered
<1>9. Claims(P) \subseteq Claims(Q)
  <2>1. SessionsOf(P, ContinuationsOf(P)) \subseteq SessionsOf(Q, ContinuationsOf(Q))
    BY <1>5 DEF SessionsOf, ContinuationsOf, Continuing, Aside
  <2>2. QED
    BY <1>5, <2>1 DEF Claims
<1>10. ASSUME Saturated(P, {}), ~HasSlot(P, P.inc[j].lane)
       PROVE  Saturated(Q, {})
  <2> SUFFICES ASSUME NEW i \in Q.pendingStarts
               PROVE  Cardinality(Claims(Q) \cup {}) >= Limit(Q.inc[i].lane)
    BY DEF Saturated
  <2>1. PICK r \in Records : r = Q.inc[i]
    BY <1>4, PendingSessions DEF PoolOK, Pools
  <2>2. Limit(r.lane) \in Nat
    <3>1. r.lane \in Lanes
      BY DEF Records
    <3>2. QED
      BY <3>1, LimitFacts DEF Lanes
  <2>3. /\ Claims(Q) \cup {} \in SUBSET Sessions /\ Claims(P) \cup {} \in SUBSET (Claims(Q) \cup {})
        /\ Used(Q) \in SUBSET (Claims(Q) \cup {})
    BY <1>4, <1>9, ClaimsType DEF Claims
  <2>4. CASE i = j
    <3>1. ~(Cardinality(Used(Q)) < Limit(r.lane))
      BY <1>5, <1>10, <2>1, <2>4 DEF HasSlot
    <3>2. QED
      BY <2>1, <2>2, <2>3, <3>1, Monotone
  <2>5. CASE i # j
    <3>1. Cardinality(Claims(P) \cup {}) >= Limit(r.lane)
      BY <1>5, <1>7, <1>10, <2>1, <2>5 DEF Saturated
    <3>2. QED
      BY <2>1, <2>2, <2>3, <3>1, Monotone
  <2>6. QED
    BY <2>4, <2>5
<1>11. Consistent(Q, W \cup {s}, S)
  BY <1>4, <1>5, <1>6, <1>8 DEF Consistent, Owned
<1>12. QED
  BY <1>1, <1>2, <1>5, <1>7, <1>10, <1>11

\* reserveRuntimeSessionStart does one or the other.
LEMMA reserveConsistent ==
  ASSUME NEW P, NEW W, NEW S, Consistent(P, W, S), NEW j \in Incs, Saturated(P, {}),
         P.inc[j].phase \in Aside, P.inc[j].session \in Sessions
  PROVE  /\ Consistent(reserveRuntimeSessionStart(P, j), W \cup {P.inc[j].session}, S)
         /\ Saturated(reserveRuntimeSessionStart(P, j), {})
         /\ \A i \in P.pendingStarts : reserveRuntimeSessionStart(P, j).inc[i] = P.inc[i]
<1>1. CASE P.inc[j].session \in P.reservations \/ HasSlot(P, P.inc[j].lane)
  BY <1>1, RetainConsistent DEF reserveRuntimeSessionStart
<1>2. CASE ~(P.inc[j].session \in P.reservations \/ HasSlot(P, P.inc[j].lane))
  BY <1>2, WaitConsistent DEF reserveRuntimeSessionStart
<1>3. QED
  BY <1>1, <1>2

--------------------------------------------------------------------------------
(* Each action keeps the pool consistent and saturated, and serves in order *)

\* What is inductive of the queue and of the names.
Fair == TypeOK /\ Consistent(Now, pendingStartSessions, startingSessions) /\ Saturated(Now, {})

\* The starts that must go first go with those they precede.
Serves(Q) ==
  \A i \in pendingStarts : Q.inc[i].phase = "admitted" =>
    \A k \in pendingStarts : MustPrecede(Now, k, i) => Q.inc[k].phase = "admitted"

\* A step of a fair dispatcher: the pool that it installs.
FairStep ==
  \E Q : /\ Become(Q)
         /\ Consistent(Q, pendingStartSessions', startingSessions')
         /\ Saturated(Q, {})
         /\ Serves(Q)

\* What the proofs below use of a fair state.
LEMMA FairFacts ==
  ASSUME Fair
  PROVE  /\ TypeOK /\ PoolOK(Now) /\ Ordered(Now) /\ Saturated(Now, {})
         /\ Consistent(Now, pendingStartSessions, startingSessions)
         /\ Now.inc = inc /\ Now.pendingStarts = pendingStarts /\ Now.streaming = streaming
         /\ Now.reservations = reservations
         /\ \A i \in pendingStarts : i \in Incs /\ inc[i].phase = "waiting"
         /\ pendingStartSessions \subseteq Sessions /\ startingSessions \subseteq Sessions
BY DEF Fair, Consistent, Now, TypeOK

\* Who admits nobody serves in order.
LEMMA ServesNobody ==
  ASSUME NEW Q, \A i \in pendingStarts : Q.inc[i].phase # "admitted"
  PROVE  Serves(Q)
BY DEF Serves

\* So does a drain, whatever it was preceded by outside the queue.
LEMMA ServesDrained ==
  ASSUME NEW P, NEW Q, PoolOK(P), PoolOK(Q), Drained(P, Q), P.pendingStarts = pendingStarts,
         \A i \in pendingStarts : Same(inc[i], P.inc[i])
  PROVE  Serves(Q)
<1> SUFFICES ASSUME NEW i \in pendingStarts, Q.inc[i].phase = "admitted",
                    NEW k \in pendingStarts, MustPrecede(Now, k, i)
             PROVE  Q.inc[k].phase = "admitted"
  BY DEF Serves
<1>1. MustPrecede(P, k, i)
  BY DEF MustPrecede, Now, Same
<1>2. i \notin Q.pendingStarts
  BY DEF PoolOK
<1>3. k \notin Q.pendingStarts
  BY <1>1, <1>2 DEF Drained
<1>4. QED
  BY <1>3 DEF Drained

\* A step that leaves the pool and the start indexes alone.
LEMMA IdleFair ==
  ASSUME Fair, UNCHANGED <<pool, pendingStartSessions, startingSessions>>
  PROVE  FairStep
<1>1. Become(Now)
  BY DEF Become, Now, pool
<1>2. Serves(Now)
  BY FairFacts, ServesNobody
<1>3. Consistent(Now, pendingStartSessions', startingSessions')
  BY FairFacts
<1>4. QED
  BY <1>1, <1>2, <1>3, FairFacts DEF FairStep

\* The inert steps.
LEMMA InertFair ==
  ASSUME Fair, InertStep
  PROVE  FairStep
<1>1. PICK i \in Incs : \E q \in Records :
        /\ SetInc(i, q)
        /\ Same(inc[i], q) \/ (Moves(inc[i], q) /\ inc[i].phase = "live" /\ q.phase = "closing")
  BY FairFacts, InertSteps DEF InertChange
<1>2. PICK q \in Records :
        /\ SetInc(i, q)
        /\ Same(inc[i], q) \/ (Moves(inc[i], q) /\ inc[i].phase = "live" /\ q.phase = "closing")
  BY <1>1
<1>3. PICK Q : Q = With(Now, i, q)
  OBVIOUS
<1>4. Become(Q)
  BY <1>2, <1>3 DEF Become, With, Now, SetInc
<1>5. UNCHANGED <<pendingStartSessions, startingSessions>>
  BY DEF InertStep, PromptPushed, SteerFallsBack, FirstPull, TurnEnds,
       UnsafeToolStarts, TakesEvent, FailsRecoverably, WatchdogAborts, AbortDeferred, RunStep
<1>6. Consistent(Q, pendingStartSessions, startingSessions) /\ Saturated(Q, {})
  <2>1. \/ Same(Now.inc[i], q)
        \/ Now.inc[i].phase \in Aside /\ q.phase \in Aside /\ (q.phase # "unused" => q.session \in Sessions)
    BY <1>2, FairFacts DEF Moves, Aside
  <2>2. QED
    BY <1>3, <2>1, FairFacts, WithConsistent
<1>7. Serves(Q)
  <2>1. Q.inc[i] = q /\ \A k \in Incs \ {i} : Q.inc[k] = inc[k]
    BY <1>3, FairFacts, WithEffect
  <2>2. \A k \in pendingStarts : Q.inc[k].phase # "admitted"
    BY <1>2, <2>1, FairFacts DEF Same
  <2>3. QED
    BY <2>2, ServesNobody
<1>8. Consistent(Q, pendingStartSessions', startingSessions')
  BY <1>5, <1>6
<1>9. QED
  BY <1>4, <1>6, <1>7, <1>8 DEF FairStep

\* The runtime of s is shut down and out of the map, its slot about to be kept.
LEMMA ShutDownFair ==
  ASSUME Fair, NEW s \in Sessions, streaming[s] # NoInc
  PROVE  LET V == With(Unmap(Now, s), streaming[s],
                       shutdownRuntimeStreamingSession(inc[streaming[s]]))
         IN  /\ Consistent(V, pendingStartSessions, startingSessions)
             /\ Saturated(V, {s})
             /\ V.pendingStarts = pendingStarts
             /\ \A i \in Incs : Same(inc[i], V.inc[i])
<1>1. PICK i \in Incs : i = streaming[s]
  BY Types, FairFacts
<1>2. PICK r \in Records : r = inc[i]
  BY Types, FairFacts
<1>3. PICK d \in Records : d = shutdownRuntimeStreamingSession(r) /\ Same(r, d)
  BY ShutdownRecord DEF Same
<1>4. PICK U : U = Unmap(Now, s)
  OBVIOUS
<1>5. /\ Consistent(U, pendingStartSessions, startingSessions) /\ Saturated(U, {s})
      /\ U.inc = inc /\ U.pendingStarts = pendingStarts
  BY <1>4, FairFacts, UnmapConsistent
<1>6. PICK V : V = With(U, i, d)
  OBVIOUS
<1>7. Consistent(V, pendingStartSessions, startingSessions) /\ Saturated(V, {s})
  <2>1. Same(U.inc[i], d)
    BY <1>2, <1>3, <1>5
  <2>2. QED
    BY <1>5, <1>6, <2>1, WithConsistent
<1>8. V.inc[i] = d /\ V.pendingStarts = pendingStarts /\ \A k \in Incs \ {i} : V.inc[k] = inc[k]
  BY <1>5, <1>6, WithEffect DEF Consistent
<1>9. \A k \in Incs : Same(inc[k], V.inc[k])
  BY <1>2, <1>3, <1>8 DEF Same
<1>10. QED
  BY <1>1, <1>2, <1>3, <1>4, <1>6, <1>7, <1>8, <1>9

\* A runtime that has been shut down leaves its slot to a start of its session.
LEMMA RestartFair ==
  ASSUME NEW V, NEW W \in SUBSET Sessions, NEW S, Consistent(V, W, S), Fair,
         NEW j \in Incs, V.inc[j].phase = "unused",
         NEW q \in Records, q.phase = "unused", q.session \in Sessions,
         Saturated(V, {q.session}), V.pendingStarts = pendingStarts,
         \A i \in pendingStarts : V.inc[i].phase = "waiting",
         Become(Retain(With(V, j, q), j)),
         pendingStartSessions' = W \cup {q.session}, startingSessions' = S
  PROVE  FairStep
<1>1. PICK P : P = With(V, j, q)
  OBVIOUS
<1>2. /\ Consistent(P, W, S) /\ Saturated(P, {q.session})
  BY <1>1, WithConsistent DEF Aside
<1>3. P.inc[j] = q /\ P.pendingStarts = pendingStarts /\ \A k \in Incs \ {j} : P.inc[k] = V.inc[k]
  BY <1>1, WithEffect DEF Consistent
<1>4. PICK Q : Q = Retain(P, j)
  OBVIOUS
<1>5. /\ Consistent(Q, W \cup {q.session}, S) /\ Saturated(Q, {})
      /\ \A i \in pendingStarts : Q.inc[i] = P.inc[i]
  <2>1. P.inc[j].phase \in Aside \cup {"retaining"} /\ P.inc[j].session = q.session
    BY <1>3 DEF Aside
  <2>2. P.inc[j].session \in Sessions /\ Saturated(P, {P.inc[j].session})
    BY <1>2, <2>1
  <2>3. /\ Consistent(Retain(P, j), W \cup {P.inc[j].session}, S)
        /\ \A i \in P.pendingStarts : Retain(P, j).inc[i] = P.inc[i]
        /\ Saturated(Retain(P, j), {})
    BY <1>2, <2>1, <2>2, RetainConsistent
  <2>4. QED
    BY <1>3, <1>4, <2>1, <2>3
<1>6. \A i \in pendingStarts : Q.inc[i].phase # "admitted"
  BY <1>3, <1>5, FairFacts
<1>7. QED
  BY <1>1, <1>4, <1>5, <1>6, ServesNobody DEF FairStep

\* Who admits whom is the same when the phases are.
LEMMA ServesSame ==
  ASSUME NEW P, NEW Q, Serves(P), \A i \in pendingStarts : Q.inc[i].phase = P.inc[i].phase
  PROVE  Serves(Q)
BY DEF Serves

\* A start that is to await before it reserves claims the slot of its session.
LEMMA ClaimConsistent ==
  ASSUME NEW V, NEW W, NEW S, Consistent(V, W, S), NEW j \in Incs, V.inc[j].phase \in Aside,
         NEW q \in Records, q.phase = "retaining", q.session \in Sessions,
         Saturated(V, {q.session})
  PROVE  Consistent(With(V, j, q), W, S) /\ Saturated(With(V, j, q), {})
<1>1. PICK Q : Q = With(V, j, q)
  OBVIOUS
<1>2. PoolOK(V) /\ Ordered(V) /\ V.inc[j].phase # "waiting" /\ V.inc[j].phase \notin Continuing
  BY DEF Consistent, Aside, Continuing
<1>3. PoolOK(Q)
  BY <1>1, <1>2, WithOK
<1>4. /\ Q.reservations = V.reservations /\ Q.pendingStarts = V.pendingStarts
      /\ Q.inc[j] = q /\ Used(Q) = Used(V)
      /\ \A k \in Incs \ {j} : Q.inc[k] = V.inc[k]
  BY <1>1, <1>2, WithEffect
<1>5. \A k \in V.pendingStarts : k \in Incs \ {j} /\ Q.inc[k] = V.inc[k]
  BY <1>2, <1>4 DEF PoolOK
<1>6. Ordered(Q)
  BY <1>2, <1>4, <1>5 DEF Ordered
<1>7. Owned(Q, W, S)
  BY <1>3, <1>4, NewOwner DEF Owned
<1>8. Claims(V) \cup {q.session} \subseteq Claims(Q) \cup {}
  <2>1. SessionsOf(V, ContinuationsOf(V)) \subseteq SessionsOf(Q, ContinuationsOf(Q))
    BY <1>2, <1>4 DEF SessionsOf, ContinuationsOf
  <2>2. q.session \in SessionsOf(Q, ContinuationsOf(Q))
    BY <1>4 DEF SessionsOf, ContinuationsOf, Continuing
  <2>3. QED
    BY <1>4, <2>1, <2>2 DEF Claims
<1>9. Saturated(Q, {})
  BY <1>2, <1>3, <1>4, <1>5, <1>8, StaysSaturated
<1>10. QED
  BY <1>1, <1>3, <1>6, <1>7, <1>9 DEF Consistent

\* A start of a session that is not in the map, once the pool is drained of the
\* slot that its last runtime had.
LEMMA ReserveFair ==
  ASSUME Fair, NEW R, Consistent(R, pendingStartSessions, startingSessions), Saturated(R, {}),
         Drained(Now, R), NEW j \in Incs, inc[j].phase = "unused",
         NEW q \in Records, q.phase = "unused", q.session \in Sessions,
         Become(reserveRuntimeSessionStart(With(R, j, q), j)),
         pendingStartSessions' = pendingStartSessions \cup {q.session},
         startingSessions' = startingSessions
  PROVE  FairStep
<1>1. R.inc[j].phase = "unused" /\ j \notin pendingStarts /\ PoolOK(R)
  BY FairFacts DEF Drained, Consistent
<1>2. PICK W : W = With(R, j, q)
  OBVIOUS
<1>3. Consistent(W, pendingStartSessions, startingSessions) /\ Saturated(W, {})
  BY <1>1, <1>2, WithConsistent DEF Aside
<1>4. W.inc[j] = q /\ \A k \in Incs \ {j} : W.inc[k] = R.inc[k]
  BY <1>1, <1>2, WithEffect
<1>5. PICK Q : Q = reserveRuntimeSessionStart(W, j)
  OBVIOUS
<1>6. /\ Consistent(Q, pendingStartSessions \cup {q.session}, startingSessions)
      /\ Saturated(Q, {})
  BY <1>3, <1>4, <1>5, reserveConsistent DEF Aside
<1>7. \A k \in Incs \ {j} : Q.inc[k] = W.inc[k]
  BY <1>3, <1>4, <1>5, RetainEffect, WaitEffect DEF reserveRuntimeSessionStart, Consistent
<1>8. Serves(R)
  BY <1>1, FairFacts, ServesDrained DEF Same
<1>9. \A i \in pendingStarts : Q.inc[i].phase = R.inc[i].phase
  BY <1>1, <1>4, <1>7, FairFacts
<1>10. Serves(Q)
  BY <1>8, <1>9, ServesSame
<1>11. QED
  BY <1>2, <1>5, <1>6, <1>10 DEF FairStep

\* The steps by which a prompt begins a start.
LEMMA NewStartFair ==
  ASSUME Fair, NEW s \in Sessions, NEW m \in Prompts, NEW j \in Incs,
         \/ PromptRestarts(s, m, j)
         \/ PromptChangesModel(s, m, j)
         \/ PromptReplacesDone(s, m, j)
         \/ PromptColdStarts(s, m, j)
  PROVE  FairStep
<1> DEFINE q == Start(s, m)
<1>1. q \in Records /\ q.phase = "unused" /\ q.session = s
  BY StartRecord
<1> HIDE DEF q
<1>2. inc[j].phase = "unused" /\ startingSessions' = startingSessions
  BY DEF PromptRestarts, PromptChangesModel, PromptReplacesDone, PromptColdStarts, Fresh
<1> DEFINE V == With(Unmap(Now, s), streaming[s],
                     shutdownRuntimeStreamingSession(inc[streaming[s]]))
<1>3. ASSUME streaming[s] # NoInc
      PROVE  /\ Consistent(V, pendingStartSessions, startingSessions) /\ Saturated(V, {s})
             /\ V.pendingStarts = pendingStarts /\ V.inc[j].phase = "unused"
             /\ \A i \in pendingStarts : V.inc[i].phase = "waiting"
  BY <1>2, <1>3, ShutDownFair, FairFacts DEF Same
<1>4. CASE PromptRestarts(s, m, j)
  <2>1. /\ streaming[s] # NoInc /\ Become(Retain(With(V, j, q), j))
        /\ pendingStartSessions' = pendingStartSessions \cup {s}
    BY <1>4 DEF PromptRestarts, q
  <2> HIDE DEF V
  <2>2. QED
    BY <1>1, <1>2, <1>3, <2>1, FairFacts, RestartFair
<1>5. CASE PromptChangesModel(s, m, j)
  <2>1. PICK r : r = [q EXCEPT !.phase = "retaining"]
    OBVIOUS
  <2>2. r \in Records /\ r.phase = "retaining" /\ r.session = s
    BY <1>1, <2>1 DEF Records, Phases
  <2>3. /\ streaming[s] # NoInc /\ Become(With(V, j, r))
        /\ pendingStartSessions' = pendingStartSessions
    BY <1>5, <2>1 DEF PromptChangesModel, q
  <2> HIDE DEF V
  <2>4. PICK Q : Q = With(V, j, r)
    OBVIOUS
  <2>5. Consistent(Q, pendingStartSessions, startingSessions) /\ Saturated(Q, {})
    BY <1>3, <2>2, <2>3, <2>4, ClaimConsistent DEF Aside
  <2>6. Q.inc[j] = r /\ \A k \in Incs \ {j} : Q.inc[k] = V.inc[k]
    BY <1>3, <2>2, <2>3, <2>4, WithEffect DEF Consistent
  <2>7. \A i \in pendingStarts : Q.inc[i].phase # "admitted"
    BY <1>2, <1>3, <2>3, <2>6, FairFacts
  <2>8. QED
    BY <1>2, <2>3, <2>4, <2>5, <2>7, ServesNobody DEF FairStep
<1>6. CASE PromptReplacesDone(s, m, j)
  <2>1. PICK R : R = ReleaseSlot(Now, s)
    OBVIOUS
  <2>2. /\ Consistent(R, pendingStartSessions, startingSessions) /\ Drained(Now, R)
        /\ Saturated(R, {})
    BY <2>1, FairFacts, ReleaseSlotDrained
  <2>3. /\ Become(reserveRuntimeSessionStart(With(R, j, q), j))
        /\ pendingStartSessions' = pendingStartSessions \cup {s}
    BY <1>6, <2>1 DEF PromptReplacesDone, q
  <2>4. QED
    BY <1>1, <1>2, <2>2, <2>3, ReserveFair
<1>7. CASE PromptColdStarts(s, m, j)
  <2>1. /\ Become(reserveRuntimeSessionStart(With(Now, j, q), j))
        /\ pendingStartSessions' = pendingStartSessions \cup {s}
    BY <1>7 DEF PromptColdStarts, q
  <2>2. Drained(Now, Now)
    BY FairFacts, DrainedRefl
  <2>3. QED
    BY <1>1, <1>2, <2>1, <2>2, FairFacts, ReserveFair
<1>8. QED
  BY <1>4, <1>5, <1>6, <1>7

\* The continuations take the slot that is theirs, and the name with it.
LEMMA ContinuesFair ==
  ASSUME Fair, NEW j \in Incs, ModelChangeContinues(j) \/ StartContinues(j)
  PROVE  FairStep
<1>1. PICK r \in Records : r = inc[j]
  BY Types, FairFacts
<1>2. /\ r.session \in Sessions /\ r.phase \in Continuing /\ r.phase # "waiting"
  BY <1>1, Types, FairFacts DEF ModelChangeContinues, StartContinues, Continuing
<1>3. CASE ModelChangeContinues(j)
  <2>1. PICK Q : Q = Retain(Now, j)
    OBVIOUS
  <2>2. /\ Consistent(Q, pendingStartSessions \cup {r.session}, startingSessions)
        /\ Saturated(Q, {}) /\ \A i \in pendingStarts : Q.inc[i] = inc[i]
    <3>1. /\ Now.inc[j] = r /\ r.phase \in Aside \cup {"retaining"}
          /\ Consistent(Now, pendingStartSessions, startingSessions) /\ Saturated(Now, {})
          /\ Now.pendingStarts = pendingStarts /\ Now.inc = inc
      BY <1>1, <1>3, FairFacts DEF ModelChangeContinues
    <3>2. QED
      BY <1>2, <2>1, <3>1, RetainConsistent
  <2>3. \A i \in pendingStarts : Q.inc[i].phase # "admitted"
    BY <2>2, FairFacts
  <2>4. /\ Become(Q) /\ pendingStartSessions' = pendingStartSessions \cup {r.session}
        /\ startingSessions' = startingSessions
    BY <1>1, <1>3, <2>1 DEF ModelChangeContinues
  <2>5. QED
    BY <2>2, <2>3, <2>4, ServesNobody DEF FairStep
<1>4. CASE StartContinues(j)
  <2> DEFINE s == r.session
  <2>1. PICK Q : Q = [streaming |-> streaming', reservations |-> reservations',
                      pendingStarts |-> pendingStarts', inc |-> inc']
    OBVIOUS
  <2>2. Become(Q)
    BY <2>1 DEF Become
  <2>3. PoolOK(Q)
    <3>1. TypeOK'
      BY <1>4, StartTypes, FairFacts
    <3>2. PoolOK(Now)'
      BY <3>1, TypeOKSplitNext
    <3>3. QED
      BY <2>1, <3>2 DEF PoolOK, Pools, Now
  <2>4. PICK g \in [Incs -> Records] : g = inc
    BY FairFacts DEF TypeOK
  <2>5. PICK q : q = [r EXCEPT !.phase = "building"]
    OBVIOUS
  <2>6. q.phase = "building" /\ q.session = s
    BY <2>5 DEF Records
  <2>7. /\ Q.inc = [g EXCEPT ![j] = q] /\ Q.pendingStarts = pendingStarts
        /\ Q.streaming = [streaming EXCEPT ![s] = j]
        /\ Q.reservations \subseteq reservations \cup {s} /\ reservations \subseteq Q.reservations
        /\ pendingStartSessions' = pendingStartSessions \ {s}
        /\ startingSessions' = startingSessions \cup {s}
        /\ r.phase \in {"admitted", "reserved"}
    BY <1>1, <1>4, <2>1, <2>4, <2>5 DEF StartContinues
  <2>8. Q.inc[j] = q /\ \A i \in Incs \ {j} : Q.inc[i] = inc[i]
    BY <2>4, <2>7
  <2>9. Now.inc[j] = r /\ \A k \in Incs \ {j} : Q.inc[k] = Now.inc[k]
    BY <1>1, <2>8, FairFacts
  <2>10. /\ Owners(Now, Reserving) \subseteq Owners(Q, Reserving) \cup {s}
         /\ Owners(Now, Queued) \subseteq Owners(Q, Queued) \cup {s}
         /\ Owners(Now, Starting) \subseteq Owners(Q, Starting) \cup {s}
         /\ s \in Owners(Q, Reserving) /\ s \in Owners(Q, Starting)
    BY <2>6, <2>8, <2>9, OwnersOthers DEF Reserving, Starting
  <2>11. Owned(Q, pendingStartSessions', startingSessions')
    BY <2>7, <2>10, FairFacts DEF Owned, Consistent
  <2>12. \A i \in pendingStarts : i # j /\ Q.inc[i] = inc[i]
    BY <1>1, <1>2, <2>8, FairFacts
  <2>13. Ordered(Q)
    BY <2>7, <2>12, FairFacts DEF Ordered
  <2>14. Claims(Now) \cup {} \subseteq Claims(Q) \cup {}
    <3>1. Used(Now) \cup {s} \subseteq Used(Q)
      <4>1. j # NoInc
        BY IncsAssumption
      <4>2. streaming \in [Sessions -> Incs \cup {NoInc}]
        BY FairFacts DEF TypeOK
      <4>3. Mapped(Now) \cup {s} \subseteq Mapped(Q)
        BY <1>2, <2>7, <4>1, <4>2, FairFacts DEF Mapped
      <4>4. QED
        BY <2>7, <4>3, FairFacts DEF Used
    <3>2. SessionsOf(Now, ContinuationsOf(Now)) \subseteq SessionsOf(Q, ContinuationsOf(Q)) \cup {s}
      BY <2>9 DEF SessionsOf, ContinuationsOf
    <3>3. QED
      BY <3>1, <3>2 DEF Claims
  <2>15. Saturated(Q, {})
    <3>1. /\ Q.pendingStarts \subseteq Now.pendingStarts
          /\ \A i \in Q.pendingStarts : Q.inc[i].lane = Now.inc[i].lane
      BY <2>7, <2>12, FairFacts
    <3>2. PoolOK(Now) /\ Saturated(Now, {})
      BY FairFacts
    <3>3. QED
      BY <2>3, <2>14, <3>1, <3>2, StaysSaturated
  <2>16. \A i \in pendingStarts : Q.inc[i].phase # "admitted"
    BY <2>12, FairFacts
  <2>17. Consistent(Q, pendingStartSessions', startingSessions')
    BY <2>3, <2>11, <2>13 DEF Consistent
  <2>18. Serves(Q)
    BY <2>16, ServesNobody
  <2>19. QED
    BY <2>2, <2>15, <2>17, <2>18 DEF FairStep
<1>5. QED
  BY <1>3, <1>4

\* A start that is built, or fails, leaves its name to the finally.
LEMMA BuiltPool ==
  ASSUME Fair, NEW j \in Incs, inc[j].phase \in Starting, inc[j].session \in Sessions,
         NEW r \in Records, r.phase \in Aside \cup {"failing"},
         r.phase # "unused" => r.session \in Sessions
  PROVE  LET P == With(Now, j, r)
             s == inc[j].session
         IN  /\ PoolOK(P) /\ Ordered(P) /\ Saturated(P, {}) /\ P.pendingStarts = pendingStarts
             /\ P.reservations \ {s} \subseteq Owners(P, Reserving)
             /\ pendingStartSessions \ {s} \subseteq Owners(P, Queued)
             /\ startingSessions \ {s} \subseteq Owners(P, Starting)
             /\ \A i \in pendingStarts : P.inc[i] = inc[i]
             /\ r.phase = "failing" /\ r.session = s
                  => Consistent(P, pendingStartSessions, startingSessions)
<1> DEFINE s == inc[j].session
<1>1. PICK P : P = With(Now, j, r)
  OBVIOUS
<1>2. inc[j].phase # "waiting" /\ r.phase # "waiting" /\ inc[j].phase \notin Continuing
  BY DEF Starting, Aside, Continuing
<1>3. PoolOK(P)
  BY <1>1, <1>2, FairFacts, WithOK
<1>4. /\ P.reservations = reservations /\ P.pendingStarts = pendingStarts
      /\ P.inc[j] = r /\ Used(P) = Used(Now)
      /\ \A k \in Incs \ {j} : P.inc[k] = Now.inc[k]
  BY <1>1, FairFacts, WithEffect
<1>5. \A i \in pendingStarts : P.inc[i] = inc[i]
  BY <1>2, <1>4, FairFacts
<1>6. Ordered(P)
  BY <1>4, <1>5, FairFacts DEF Ordered
<1>7. /\ Owners(Now, Reserving) \subseteq Owners(P, Reserving) \cup {s}
      /\ Owners(Now, Queued) \subseteq Owners(P, Queued) \cup {s}
      /\ Owners(Now, Starting) \subseteq Owners(P, Starting) \cup {s}
      /\ Owners(Now, Queued) \subseteq Owners(P, Queued)
  BY <1>4, FairFacts, OwnersOthers DEF Queued, Starting
<1>8. /\ reservations \subseteq Owners(Now, Reserving)
      /\ pendingStartSessions \subseteq Owners(Now, Queued)
      /\ startingSessions \subseteq Owners(Now, Starting)
  BY FairFacts DEF Consistent, Owned
<1>9. Claims(Now) \cup {} \subseteq Claims(P) \cup {}
  <2>1. SessionsOf(Now, ContinuationsOf(Now)) \subseteq SessionsOf(P, ContinuationsOf(P))
    BY <1>2, <1>4, FairFacts DEF SessionsOf, ContinuationsOf
  <2>2. QED
    BY <1>4, <2>1 DEF Claims
<1>10. Saturated(P, {})
  BY <1>3, <1>4, <1>5, <1>9, FairFacts, StaysSaturated
<1>11. ASSUME r.phase = "failing", r.session = s
       PROVE  Consistent(P, pendingStartSessions, startingSessions)
  <2>1. s \in Owners(P, Reserving) /\ s \in Owners(P, Starting)
    BY <1>4, <1>11, FairFacts, OwnersOthers DEF Reserving, Starting
  <2>2. QED
    BY <1>3, <1>4, <1>6, <1>7, <1>8, <2>1 DEF Consistent, Owned
<1>12. QED
  BY <1>1, <1>3, <1>4, <1>5, <1>6, <1>7, <1>8, <1>10, <1>11

\* The finally of startStreamingSession.
LEMMA FinallyFair ==
  ASSUME Fair, NEW j \in Incs, inc[j].phase \in Starting, inc[j].session \in Sessions,
         NEW r \in Records, r.phase \in Aside, r.phase # "unused" => r.session \in Sessions,
         Become(Finished(With(Now, j, r), j)), FinallySessions(inc[j].session)
  PROVE  FairStep
<1> DEFINE s == inc[j].session
           W == pendingStartSessions \ {s}
           S == startingSessions \ {s}
<1>1. PICK P : P = With(Now, j, r)
  OBVIOUS
<1>2. /\ PoolOK(P) /\ Ordered(P) /\ Saturated(P, {}) /\ P.pendingStarts = pendingStarts
      /\ P.reservations \ {s} \subseteq Owners(P, Reserving)
      /\ W \subseteq Owners(P, Queued) /\ S \subseteq Owners(P, Starting)
      /\ \A i \in pendingStarts : P.inc[i] = inc[i]
  BY <1>1, BuiltPool
<1>3. PICK Q : Q = Finished(P, j)
  OBVIOUS
<1>4. inc[j].drainAfter \in BOOLEAN
  BY Types, FairFacts
<1>5. Consistent(Q, W, S) /\ Drained(P, Q) /\ Saturated(Q, {})
  BY <1>2, <1>3, <1>4, FinishedDrained
<1>6. Serves(Q)
  <2>1. \A i \in pendingStarts : Same(inc[i], P.inc[i])
    BY <1>2 DEF Same
  <2>2. QED
    BY <1>2, <1>5, <2>1, ServesDrained DEF Consistent
<1>7. pendingStartSessions' = W /\ startingSessions' = S
  BY DEF FinallySessions
<1>8. QED
  BY <1>1, <1>3, <1>5, <1>6, <1>7 DEF FairStep

\* A build that succeeds, or fails, or reports its failure.
LEMMA BuildFair ==
  ASSUME Fair, NEW j \in Incs, BuildSucceeds(j) \/ BuildFails(j) \/ FailureReported(j)
  PROVE  FairStep
<1>1. PICK r \in Records : r = inc[j]
  BY Types, FairFacts
<1>2. r.session \in Sessions /\ r.phase \in Starting
  BY <1>1, Types, FairFacts DEF BuildSucceeds, BuildFails, FailureReported, Starting
<1>3. CASE BuildSucceeds(j)
  <2>1. PICK q : q = [r EXCEPT !.phase = "live", !.drainAfter = FALSE]
    OBVIOUS
  <2>2. q \in Records /\ q.phase = "live" /\ q.session = r.session
    BY <2>1 DEF Records, Phases
  <2>3. Become(Finished(With(Now, j, q), j)) /\ FinallySessions(inc[j].session)
    BY <1>1, <1>3, <2>1 DEF BuildSucceeds
  <2>4. QED
    BY <1>1, <1>2, <2>2, <2>3, FinallyFair DEF Aside
<1>4. CASE BuildFails(j)
  <2>1. PICK d \in Records : /\ d = shutdownRuntimeStreamingSession(r)
                             /\ d.session = r.session
    BY ShutdownRecord
  <2>2. PICK q : q = [d EXCEPT !.phase = "failing", !.pending = <<>>]
    OBVIOUS
  <2>3. q \in Records /\ q.phase = "failing" /\ q.session = r.session
    <3>1. <<>> \in Seq(Prompts) /\ "failing" \in Phases
      BY DEF Phases
    <3>2. QED
      BY <2>1, <2>2, <3>1 DEF Records
  <2>4. PICK P : P = With(Now, j, q)
    OBVIOUS
  <2>5. /\ Consistent(P, pendingStartSessions, startingSessions)
        /\ P.pendingStarts = pendingStarts /\ \A i \in pendingStarts : P.inc[i] = inc[i]
    BY <1>1, <1>2, <2>3, <2>4, BuiltPool
  <2>6. PICK U : U = Unmap(P, r.session)
    OBVIOUS
  <2>7. /\ Consistent(U, pendingStartSessions, startingSessions)
        /\ U.inc = P.inc /\ U.pendingStarts = pendingStarts
    BY <1>2, <2>5, <2>6, UnmapConsistent
  <2>8. PICK Q : Q = drainPendingStarts(U)
    OBVIOUS
  <2>9. /\ Consistent(Q, pendingStartSessions, startingSessions) /\ Drained(U, Q)
        /\ Saturated(Q, {})
    <3>1. PoolOK(U) /\ Ordered(U)
      BY <2>7 DEF Consistent
    <3>2. PoolOK(Q) /\ Drained(U, Q) /\ Full(Q)
      BY <2>8, <3>1, DrainOK, DrainDrained
    <3>3. QED
      BY <2>7, <3>2, DrainedConsistent, FullSaturated
  <2>10. Serves(Q)
    <3>1. \A i \in pendingStarts : Same(inc[i], U.inc[i])
      BY <2>5, <2>7 DEF Same
    <3>2. QED
      BY <2>7, <2>9, <3>1, ServesDrained DEF Consistent
  <2>11. /\ Become(Q) /\ pendingStartSessions' = pendingStartSessions
         /\ startingSessions' = startingSessions
    BY <1>1, <1>4, <2>1, <2>2, <2>4, <2>6, <2>8 DEF BuildFails
  <2>12. QED
    BY <2>9, <2>10, <2>11 DEF FairStep
<1>5. CASE FailureReported(j)
  <2>1. Become(Finished(With(Now, j, Unused), j)) /\ FinallySessions(inc[j].session)
    BY <1>5 DEF FailureReported
  <2>2. QED
    BY <1>1, <1>2, <2>1, UnusedRecord, FinallyFair DEF Aside
<1>6. QED
  BY <1>3, <1>4, <1>5

\* The end of a tool, with the abort that waited for it.
LEMMA ToolCompletesFair ==
  ASSUME Fair, NEW i \in Incs, ToolCompletes(i)
  PROVE  FairStep
<1>1. PICK r \in Records : r = inc[i]
  BY Types, FairFacts
<1>2. r.session \in Sessions /\ r.phase = "live"
  BY <1>1, Types, FairFacts DEF ToolCompletes
<1>3. PICK q : q = [r EXCEPT !.taken = "none", !.unsafe = FALSE]
  OBVIOUS
<1>4. q \in Records /\ Same(r, q) /\ q.session = r.session
  BY <1>3 DEF Records, Same
<1>5. pendingStartSessions' = pendingStartSessions /\ startingSessions' = startingSessions
  BY DEF ToolCompletes
<1>6. ASSUME NEW a \in Records, Same(r, a)
      PROVE  LET W == With(Now, i, a)
             IN  /\ Consistent(W, pendingStartSessions, startingSessions) /\ Saturated(W, {})
                 /\ W.pendingStarts = pendingStarts
                 /\ \A k \in pendingStarts : Same(inc[k], W.inc[k])
  <2>1. PICK W : W = With(Now, i, a)
    OBVIOUS
  <2>2. Consistent(W, pendingStartSessions, startingSessions) /\ Saturated(W, {})
    BY <1>1, <1>6, <2>1, FairFacts, WithConsistent
  <2>3. /\ W.pendingStarts = pendingStarts
        /\ W.inc[i] = a /\ \A k \in Incs \ {i} : W.inc[k] = inc[k]
    BY <2>1, FairFacts, WithEffect
  <2>4. \A k \in pendingStarts : Same(inc[k], W.inc[k])
    BY <1>1, <1>6, <2>3, FairFacts DEF Same
  <2>5. QED
    BY <2>1, <2>2, <2>3, <2>4
<1>7. CASE r.pendingAbort
  <2>1. PICK a : a = [q EXCEPT !.aborted = TRUE]
    OBVIOUS
  <2>2. a \in Records /\ Same(r, a)
    BY <1>4, <2>1 DEF Records, Same
  <2>3. PICK W : W = With(Now, i, a)
    OBVIOUS
  <2>4. PICK Q : Q = ReleaseSlot(W, r.session)
    OBVIOUS
  <2>5. /\ Consistent(Q, pendingStartSessions, startingSessions) /\ Drained(W, Q)
        /\ Saturated(Q, {})
    BY <1>2, <1>6, <2>2, <2>3, <2>4, ReleaseSlotDrained
  <2>6. Serves(Q)
    BY <1>6, <2>2, <2>3, <2>5, ServesDrained DEF Consistent
  <2>7. Become(Q)
    BY <1>1, <1>3, <1>4, <1>7, <2>1, <2>3, <2>4 DEF ToolCompletes
  <2>8. QED
    BY <1>5, <2>5, <2>6, <2>7 DEF FairStep
<1>8. CASE ~r.pendingAbort
  <2>1. PICK W : W = With(Now, i, q)
    OBVIOUS
  <2>2. Become(W)
    BY <1>1, <1>3, <1>8, <2>1 DEF ToolCompletes
  <2>3. /\ Consistent(W, pendingStartSessions, startingSessions) /\ Saturated(W, {})
        /\ \A k \in pendingStarts : Same(inc[k], W.inc[k])
    BY <1>4, <1>6, <2>1
  <2>4. \A k \in pendingStarts : W.inc[k].phase # "admitted"
    BY <2>3, FairFacts DEF Same
  <2>5. QED
    BY <1>5, <2>2, <2>3, <2>4, ServesNobody DEF FairStep
<1>9. QED
  BY <1>7, <1>8

\* The finally of the event loop: the slot goes to a restart, or to who waits.
LEMMA EventLoopEndsFair ==
  ASSUME Fair, NEW i \in Incs, NEW j \in Incs, EventLoopEnds(i, j)
  PROVE  FairStep
<1> DEFINE s == inc[i].session
<1>1. /\ s \in Sessions /\ inc[i].phase \in Aside /\ inc[i].lane \in Lanes
      /\ inc[i].phase # "unused" /\ inc[i].phase # "waiting"
      /\ startingSessions' = startingSessions
  BY Types, FairFacts DEF EventLoopEnds, Aside
<1>2. PICK U : U = Unmap(Now, s)
  OBVIOUS
<1>3. /\ Consistent(U, pendingStartSessions, startingSessions) /\ Saturated(U, {s})
      /\ streaming[s] = NoInc => Saturated(U, {})
      /\ U.inc = inc /\ U.pendingStarts = pendingStarts
  BY <1>1, <1>2, FairFacts, UnmapConsistent
<1>4. PICK P : P = With(U, i, Unused)
  OBVIOUS
<1>5. /\ Consistent(P, pendingStartSessions, startingSessions) /\ Saturated(P, {s})
      /\ streaming[s] = NoInc => Saturated(P, {})
  BY <1>1, <1>3, <1>4, UnusedRecord, WithConsistent DEF Aside
<1>6. /\ P.pendingStarts = pendingStarts /\ P.inc[i] = Unused
      /\ \A k \in Incs \ {i} : P.inc[k] = inc[k]
  BY <1>3, <1>4, UnusedRecord, WithEffect DEF Consistent
<1>7. \A k \in pendingStarts : k # i /\ P.inc[k] = inc[k]
  BY <1>1, <1>6, FairFacts
<1>8. CASE streaming[s] # NoInc /\ inc[i].restart /\ stash[s] # <<>>
  <2>1. PICK q : q = [Restart(s, inc[i].lane) EXCEPT !.drainAfter = TRUE]
    OBVIOUS
  <2>2. q \in Records /\ q.phase = "unused" /\ q.session = s
    BY <1>1, <2>1, RestartRecord
  <2>3. /\ inc[j].phase = "unused" /\ Become(Retain(With(P, j, q), j))
        /\ pendingStartSessions' = pendingStartSessions \cup {s}
    BY <1>2, <1>4, <1>8, <2>1 DEF EventLoopEnds, Fresh
  <2>4. P.inc[j].phase = "unused"
    BY <1>6, <2>3, UnusedRecord
  <2>5. \A k \in pendingStarts : P.inc[k].phase = "waiting"
    BY <1>7, FairFacts
  <2>6. pendingStartSessions \in SUBSET Sessions
    BY FairFacts
  <2>7. Saturated(P, {q.session}) /\ pendingStartSessions' = pendingStartSessions \cup {q.session}
    BY <1>5, <2>2, <2>3
  <2>8. QED
    BY <1>1, <1>5, <1>6, <2>2, <2>3, <2>4, <2>5, <2>6, <2>7, RestartFair
<1>9. CASE ~(streaming[s] # NoInc /\ inc[i].restart /\ stash[s] # <<>>)
  <2>1. PICK Q : Q = DrainIf(P, streaming[s] # NoInc)
    OBVIOUS
  <2>2. Become(Q) /\ pendingStartSessions' = pendingStartSessions
    BY <1>2, <1>4, <1>9, <2>1 DEF EventLoopEnds
  <2>3. /\ Consistent(Q, pendingStartSessions, startingSessions) /\ Drained(P, Q)
        /\ Saturated(Q, {})
    BY <1>5, <2>1, DrainIfDrained
  <2>4. \A k \in pendingStarts : Same(inc[k], P.inc[k])
    BY <1>7 DEF Same
  <2>5. Serves(Q)
    BY <1>5, <1>6, <2>3, <2>4, ServesDrained DEF Consistent
  <2>6. QED
    BY <1>1, <2>2, <2>3, <2>5 DEF FairStep
<1>10. QED
  BY <1>8, <1>9

\* Aborts, model changes and the idle-gap recovery.
LEMMA ControlFair ==
  ASSUME Fair, NEW s \in Sessions,
         \/ abortSession(s)
         \/ ModelChanged(s)
         \/ \E j \in Incs : recoverIdleGapSession(s, j)
  PROVE  FairStep
<1>1. streaming[s] # NoInc /\ streaming[s] \in Incs
  BY Types, FairFacts DEF abortSession, ModelChanged, recoverIdleGapSession
<1>2. PICK i \in Incs : i = streaming[s]
  BY <1>1
<1>3. PICK r \in Records : r = inc[i]
  BY Types, FairFacts
<1>4. CASE ShutDownAndRelease(s)
  <2>1. PICK d \in Records : d = shutdownRuntimeStreamingSession(r) /\ Same(r, d)
    BY ShutdownRecord DEF Same
  <2>2. PICK W : W = With(Now, i, d)
    OBVIOUS
  <2>3. Consistent(W, pendingStartSessions, startingSessions) /\ Saturated(W, {})
    BY <1>3, <2>1, <2>2, FairFacts, WithConsistent
  <2>4. /\ W.pendingStarts = pendingStarts
        /\ W.inc[i] = d /\ \A k \in Incs \ {i} : W.inc[k] = inc[k]
    BY <2>2, FairFacts, WithEffect
  <2>5. \A k \in pendingStarts : Same(inc[k], W.inc[k])
    BY <1>3, <2>1, <2>4, FairFacts DEF Same
  <2>6. PICK Q : Q = ReleaseSlot(W, s)
    OBVIOUS
  <2>7. /\ Consistent(Q, pendingStartSessions, startingSessions) /\ Drained(W, Q)
        /\ Saturated(Q, {})
    BY <2>3, <2>6, ReleaseSlotDrained
  <2>8. Serves(Q)
    BY <2>3, <2>4, <2>5, <2>7, ServesDrained DEF Consistent
  <2>9. /\ Become(Q) /\ pendingStartSessions' = pendingStartSessions
        /\ startingSessions' = startingSessions
    BY <1>2, <1>3, <1>4, <2>1, <2>2, <2>6 DEF ShutDownAndRelease
  <2>10. QED
    BY <2>7, <2>8, <2>9 DEF FairStep
<1>5. ASSUME NEW j \in Incs, recoverIdleGapSession(s, j)
      PROVE  FairStep
  <2>1. PICK q : q = Restart(s, r.lane)
    OBVIOUS
  <2>2. q \in Records /\ q.phase = "unused" /\ q.session = s
    <3>1. r.lane \in Lanes
      BY DEF Records
    <3>2. QED
      BY <2>1, <3>1, RestartRecord
  <2>3. PICK V : V = With(Unmap(Now, s), streaming[s],
                          shutdownRuntimeStreamingSession(inc[streaming[s]]))
    OBVIOUS
  <2>4. /\ inc[j].phase = "unused" /\ Become(Retain(With(V, j, q), j))
        /\ pendingStartSessions' = pendingStartSessions \cup {s}
        /\ startingSessions' = startingSessions
    BY <1>2, <1>3, <1>5, <2>1, <2>3 DEF recoverIdleGapSession, Fresh
  <2>5. /\ Consistent(V, pendingStartSessions, startingSessions) /\ Saturated(V, {s})
        /\ V.pendingStarts = pendingStarts
        /\ \A k \in Incs : Same(inc[k], V.inc[k])
    BY <1>1, <2>3, ShutDownFair
  <2>6. V.inc[j].phase = "unused" /\ \A k \in pendingStarts : V.inc[k].phase = "waiting"
    BY <2>4, <2>5, FairFacts DEF Same
  <2>7. QED
    BY <2>2, <2>4, <2>5, <2>6, FairFacts, RestartFair
<1>6. QED
  BY <1>4, <1>5 DEF abortSession, ModelChanged

\* shutdownAll leaves nothing to own or to wait for.
LEMMA ShutdownAllFair ==
  ASSUME Fair, shutdownAll
  PROVE  FairStep
<1>1. PICK Q : Q = [streaming |-> streaming', reservations |-> reservations',
                    pendingStarts |-> pendingStarts', inc |-> inc']
  OBVIOUS
<1>2. Become(Q)
  BY <1>1 DEF Become
<1>3. PoolOK(Q)
  <2>1. PoolOK(Now)'
    BY ShutdownAllTypes, TypeOKSplitNext, FairFacts
  <2>2. QED
    BY <1>1, <2>1 DEF PoolOK, Pools, Now
<1>4. /\ Q.reservations = {} /\ Q.pendingStarts = {}
      /\ pendingStartSessions' = {} /\ startingSessions' = {}
  BY <1>1 DEF shutdownAll
<1>5. Consistent(Q, pendingStartSessions', startingSessions') /\ Saturated(Q, {})
  BY <1>3, <1>4 DEF Consistent, Ordered, Owned, Saturated
<1>6. \A i \in pendingStarts : Q.inc[i] = Unused
  BY <1>1, FairFacts DEF shutdownAll
<1>7. Serves(Q)
  BY <1>6, UnusedRecord, ServesNobody
<1>8. QED
  BY <1>2, <1>5, <1>7 DEF FairStep

--------------------------------------------------------------------------------
(* What is inductive of the queue and the names, and what follows from it *)

\* The initial state is fair: there is nothing to own or to wait for.
LEMMA FairInit == Init => Fair
<1> SUFFICES ASSUME Init PROVE Fair
  OBVIOUS
<1>1. TypeOK /\ PoolOK(Now)
  BY TypeInit, TypeOKSplit
<1>2. /\ Now.reservations = {} /\ Now.pendingStarts = {}
      /\ pendingStartSessions = {} /\ startingSessions = {}
  BY DEF Init, Now
<1>3. QED
  BY <1>1, <1>2 DEF Fair, Consistent, Ordered, Owned, Saturated

\* Every step is a step of a fair dispatcher, with or without the gap.
LEMMA FairNext ==
  ASSUME Fair, [Next]_vars
  PROVE  FairStep
<1>1. CASE PromptStep
  <2>1. ASSUME NEW s \in Sessions, NEW m \in Prompts, PromptSteers(s, m) \/ PromptStashed(s, m)
        PROVE  FairStep
    BY <2>1, IdleFair DEF PromptSteers, PromptStashed
  <2>2. QED
    BY <1>1, <2>1, InertFair, NewStartFair DEF PromptStep, InertStep
<1>2. CASE SteerStep
  <2>1. ASSUME NEW m \in Prompts, SteerAccepted(m)
        PROVE  FairStep
    BY <2>1, IdleFair DEF SteerAccepted
  <2>2. QED
    BY <1>2, <2>1, InertFair DEF SteerStep, InertStep
<1>3. CASE StartStep
  BY <1>3, ContinuesFair, BuildFair DEF StartStep
<1>4. CASE RuntimeStep
  BY <1>4, InertFair, ToolCompletesFair, EventLoopEndsFair DEF RuntimeStep, InertStep
<1>5. CASE ControlStep
  BY <1>5, InertFair, ControlFair, ShutdownAllFair DEF ControlStep, InertStep
<1>6. CASE UNCHANGED vars
  <2>1. UNCHANGED <<pool, pendingStartSessions, startingSessions>>
    BY <1>6 DEF vars, pool
  <2>2. QED
    BY <2>1, IdleFair
<1>7. QED
  BY <1>1, <1>2, <1>3, <1>4, <1>5, <1>6 DEF Next

\* A step of a fair dispatcher leads to a fair state.
LEMMA FairInductive ==
  ASSUME Fair, [Next]_vars
  PROVE  Fair'
<1>1. PICK Q : /\ Become(Q)
               /\ Consistent(Q, pendingStartSessions', startingSessions')
               /\ Saturated(Q, {})
  BY FairNext DEF FairStep
<1>2. TypeOK'
  BY FairFacts, TypeStep
<1>3. PoolOK(Now)'
  BY <1>1, BecomeOK DEF Consistent
<1>4. Ordered(Now)'
  BY <1>1 DEF Consistent, Ordered, Become, Now
<1>5. Owned(Now, pendingStartSessions, startingSessions)'
  BY <1>1 DEF Consistent, Owned, Owners, SessionsOf, Become, Now
<1>6. Saturated(Now, {})'
  BY <1>1 DEF Saturated, Claims, Used, Mapped, SessionsOf, ContinuationsOf, Become, Now
<1>7. QED
  BY <1>2, <1>3, <1>4, <1>5, <1>6 DEF Fair, Consistent

\* It admits the starts that wait in order.
LEMMA FairAdmits ==
  ASSUME Fair, [Next]_vars
  PROVE  \A i \in Incs : Admitted(i) =>
           \A k \in inc[i].ahead : inc[k].lane \in {"interactive", inc[i].lane} => Admitted(k)
<1>1. PICK Q : Become(Q) /\ Serves(Q)
  BY FairNext DEF FairStep
<1> SUFFICES ASSUME NEW i \in Incs, Admitted(i), NEW k \in inc[i].ahead,
                    inc[k].lane \in {"interactive", inc[i].lane}
             PROVE  Admitted(k)
  OBVIOUS
<1>2. i \in pendingStarts /\ Q.inc[i].phase = "admitted"
  BY <1>1, FairFacts DEF TypeOK, Admitted, Become
<1>3. k \in pendingStarts
  BY <1>2, FairFacts DEF Ordered
<1>4. MustPrecede(Now, k, i)
  BY FairFacts DEF MustPrecede
<1>5. Q.inc[k].phase = "admitted"
  BY <1>1, <1>2, <1>3, <1>4 DEF Serves
<1>6. QED
  BY <1>1, <1>3, <1>5, FairFacts DEF Admitted, Become

\* A fair state owes no slot to a start that waits, once no continuation is due.
LEMMA FairWorkConserving == Fair => WorkConserving
<1> SUFFICES ASSUME Fair, Continuations = {}, NEW i \in pendingStarts, HasSlot(Now, inc[i].lane)
             PROVE  FALSE
  BY DEF WorkConserving
<1>1. Claims(Now) \cup {} = Used(Now)
  BY FairFacts DEF Continuations, Claims, SessionsOf, ContinuationsOf, Continuing
<1>2. Cardinality(Used(Now)) >= Limit(inc[i].lane)
  BY <1>1, FairFacts DEF Saturated
<1>3. Cardinality(Used(Now)) \in Nat
  BY FairFacts, ClaimsType, Monotone
<1>4. Limit(inc[i].lane) \in Nat
  BY Types, FairFacts, LimitFacts DEF Lanes
<1>5. QED
  BY <1>2, <1>3, <1>4 DEF HasSlot

\* Who owns the names, as the runs say it.
LEMMA FairOwners == Fair => ReservationsOwned /\ NoStaleStartIndex
<1> SUFFICES ASSUME Fair PROVE ReservationsOwned /\ NoStaleStartIndex
  OBVIOUS
<1>1. /\ reservations \subseteq Owners(Now, Reserving)
      /\ pendingStartSessions \subseteq Owners(Now, Queued)
      /\ startingSessions \subseteq Owners(Now, Starting)
  BY FairFacts DEF Consistent, Owned
<1>2. \A phases : \A s \in Owners(Now, phases) :
        \E i \in Incs : inc[i].session = s /\ inc[i].phase \in phases
  BY FairFacts DEF Owners, SessionsOf
<1>3. QED
  BY <1>1, <1>2 DEF ReservationsOwned, NoStaleStartIndex, Reserving, Queued, Starting

\* In every behavior.
LEMMA FairAlways == Spec => []Fair
<1>1. Fair /\ [Next]_vars => Fair'
  BY FairInductive
<1>2. QED
  BY <1>1, FairInit, PTL DEF Spec

\* No slot is lost: whatever paths gave slots back (abort, model change, failed
\* build, end of the event loop, finally of a start), once the continuations have
\* run no start waits for a slot that is free for its lane.
THEOREM NoSlotLost == Spec => []WorkConserving
BY FairAlways, FairWorkConserving, PTL

\* No reservation leaks: every name in startReservations has a start in flight
\* that releases it.
THEOREM ReservationsHeld == Spec => []ReservationsOwned
<1>1. Fair => ReservationsOwned
  BY FairOwners
<1>2. QED
  BY <1>1, FairAlways, PTL

\* A name for which prompts are only stashed, in pendingStartSessions or in
\* startingSessions, has a start in flight that takes it out again.
THEOREM IndexesFresh == Spec => []NoStaleStartIndex
<1>1. Fair => NoStaleStartIndex
  BY FairOwners
<1>2. QED
  BY <1>1, FairAlways, PTL

\* Waiting starts are admitted in order within a lane, and no background start
\* overtakes an interactive one, whichever path drains the queue.
THEOREM ServedInOrder == Spec => AdmittedInOrder
<1> DEFINE A == \A i \in Incs : Admitted(i) =>
                  \A k \in inc[i].ahead : inc[k].lane \in {"interactive", inc[i].lane} => Admitted(k)
<1>1. Fair /\ [Next]_vars => [A]_vars
  BY FairAdmits
<1>2. QED
  BY <1>1, FairAlways, PTL DEF Spec, AdmittedInOrder

------------------------------------------------------------------------------
(* The loop of drainPendingStarts                                           *)

\* findIndex finds h: the first entry with a slot.
Finds(P, h) ==
  /\ h \in P.pendingStarts /\ HasSlot(P, P.inc[h].lane)
  /\ \A k \in P.inc[h].ahead : ~HasSlot(P, P.inc[k].lane)

\* The entry that was found is taken out of the queue, a slot is reserved for it, and
\* its promise is resolved.
Round(P, h) == Admit(P, {h})

\* n rounds of the loop
Rounds(P, n, run) ==
  /\ run[0] = P
  /\ \A k \in 0 .. n - 1 : \E h \in Incs : Finds(run[k], h) /\ run[k + 1] = Round(run[k], h)

\* The loop ends, and what it leaves is what the closed form gives.
LoopsTo(P, Q) ==
  \A n \in Nat : \A run \in [0 .. n -> Pools] : Rounds(P, n, run) =>
    /\ n <= Cardinality(P.pendingStarts)
    /\ (\E h \in Incs : Finds(run[n], h)) \/ run[n] = Q

\* What the pool knows of an incarnation.
LEMMA RecordOf ==
  ASSUME NEW P, PoolOK(P), NEW i \in Incs
  PROVE  P.inc[i] \in Records /\ P.inc[i].lane \in Lanes /\ P.inc[i].ahead \in SUBSET Incs
<1>1. PICK r \in Records : r = P.inc[i]
  BY DEF PoolOK, Pools
<1>2. QED
  BY <1>1 DEF Records

\* Every lane has the slots of the background lane.
LEMMA LaneLimit ==
  ASSUME NEW lane \in Lanes
  PROVE  Limit(lane) \in Nat /\ Limit("background") <= Limit(lane) /\ Limit(lane) <= Limit("interactive")
BY LimitFacts DEF Lanes

\* The slots in use can be counted.
LEMMA UsedCount ==
  ASSUME NEW P, PoolOK(P)
  PROVE  Cardinality(Used(P)) \in Nat /\ Used(P) \in SUBSET Sessions
BY PendingSessions, Monotone

\* What a round leaves
LEMMA RoundIs ==
  ASSUME NEW P, PoolOK(P), Ordered(P), NEW h \in P.pendingStarts
  PROVE  /\ PoolOK(Round(P, h)) /\ Round(P, h).pendingStarts = P.pendingStarts \ {h}
         /\ Used(Round(P, h)) = Used(P) \cup {P.inc[h].session}
         /\ \A i \in Incs : /\ Round(P, h).inc[i].session = P.inc[i].session
                            /\ Round(P, h).inc[i].lane = P.inc[i].lane
         /\ \A i \in P.pendingStarts \ {h} : Round(P, h).inc[i].ahead = P.inc[i].ahead \ {h}
<1> DEFINE Q == Round(P, h)
<1>0. PICK H \in SUBSET P.pendingStarts : H = {h}
  OBVIOUS
<1>1. H \in SUBSET Incs /\ P.inc \in [Incs -> Records] /\ P.pendingStarts \in SUBSET Incs
  BY DEF PoolOK, Pools
<1>2. Q = Admit(P, H)
  BY <1>0 DEF Round
<1>3. /\ Q.streaming = P.streaming
      /\ Q.reservations = P.reservations \cup SessionsOf(P, H)
      /\ Q.pendingStarts = P.pendingStarts \ H
  BY <1>1, <1>2, AdmitEffect
<1>4. \A i \in H : Q.inc[i].session = P.inc[i].session /\ Q.inc[i].lane = P.inc[i].lane
  BY <1>1, <1>2, AdmitEffect
<1>5. \A i \in Incs \ H : /\ Q.inc[i].session = P.inc[i].session /\ Q.inc[i].lane = P.inc[i].lane
                          /\ Q.inc[i].ahead = P.inc[i].ahead \ H
  BY <1>1, <1>2, AdmitEffect
<1>6. PoolOK(Q)
  BY <1>2, AdmitOK
<1> HIDE DEF Q
<1>7. SessionsOf(P, H) = {P.inc[h].session}
  BY <1>0 DEF SessionsOf
<1>8. Used(Q) = Used(P) \cup {P.inc[h].session}
  BY <1>3, <1>7 DEF Used, Mapped
<1>9. QED
  BY <1>0, <1>1, <1>3, <1>4, <1>5, <1>6, <1>8 DEF Q

\* A round of the loop keeps the waiting starts in their order.
LEMMA RoundOrdered ==
  ASSUME NEW P, PoolOK(P), Ordered(P), NEW h \in P.pendingStarts
  PROVE  Ordered(Round(P, h))
<1> DEFINE Q == Round(P, h)
<1>1. Q.pendingStarts = P.pendingStarts \ {h}
  BY RoundIs
<1>2. \A i \in P.pendingStarts \ {h} : Q.inc[i].ahead = P.inc[i].ahead \ {h}
  BY RoundIs
<1> HIDE DEF Q
<1>3. ASSUME NEW i \in Q.pendingStarts
      PROVE  /\ Q.inc[i].ahead \subseteq Q.pendingStarts \ {i}
             /\ \A k \in Q.inc[i].ahead : Q.inc[k].ahead \subseteq Q.inc[i].ahead
             /\ \A k \in Q.pendingStarts : k = i \/ k \in Q.inc[i].ahead \/ i \in Q.inc[k].ahead
  <2>1. /\ P.inc[i].ahead \subseteq P.pendingStarts \ {i}
        /\ \A k \in P.inc[i].ahead : P.inc[k].ahead \subseteq P.inc[i].ahead
        /\ \A k \in P.pendingStarts : k = i \/ k \in P.inc[i].ahead \/ i \in P.inc[k].ahead
    BY <1>1 DEF Ordered
  <2>2. QED
    BY <1>1, <1>2, <2>1
<1>4. Ordered(Q)
  BY <1>3 DEF Ordered
<1>5. QED
  BY <1>4 DEF Q

\* One start and then the others are the same as all of them at once.
LEMMA AdmitTwice ==
  ASSUME NEW P, PoolOK(P), NEW A \in SUBSET P.pendingStarts, NEW h \in A
  PROVE  Admit(Admit(P, {h}), A \ {h}) = Admit(P, A)
<1> DEFINE Q == Admit(P, {h})
           B == A \ {h}
           R == Admit(Q, B)
           S == Admit(P, A)
<1>1. A \in SUBSET Incs /\ P.inc \in [Incs -> Records]
  BY DEF PoolOK, Pools
<1>2. /\ Q.streaming = P.streaming
      /\ Q.reservations = P.reservations \cup SessionsOf(P, {h})
      /\ Q.pendingStarts = P.pendingStarts \ {h}
      /\ Q.inc = [i \in Incs |-> IF i \in {h} THEN [P.inc[i] EXCEPT !.phase = "admitted", !.ahead = {}]
                                 ELSE [P.inc[i] EXCEPT !.ahead = @ \ {h}]]
  BY DEF Admit
<1>3. \A i \in Incs : Q.inc[i].session = P.inc[i].session
  <2>1. \A i \in {h} : Q.inc[i].session = P.inc[i].session
    BY <1>1, AdmitEffect
  <2>2. \A i \in Incs \ {h} : Q.inc[i].session = P.inc[i].session
    BY <1>1, AdmitEffect
  <2>3. QED
    BY <2>1, <2>2
<1>4. R = [streaming |-> Q.streaming,
           reservations |-> Q.reservations \cup SessionsOf(Q, B),
           pendingStarts |-> Q.pendingStarts \ B,
           inc |-> [i \in Incs |-> IF i \in B THEN [Q.inc[i] EXCEPT !.phase = "admitted", !.ahead = {}]
                                   ELSE [Q.inc[i] EXCEPT !.ahead = @ \ B]]]
  BY DEF Admit
<1>5. S = [streaming |-> P.streaming,
           reservations |-> P.reservations \cup SessionsOf(P, A),
           pendingStarts |-> P.pendingStarts \ A,
           inc |-> [i \in Incs |-> IF i \in A THEN [P.inc[i] EXCEPT !.phase = "admitted", !.ahead = {}]
                                   ELSE [P.inc[i] EXCEPT !.ahead = @ \ A]]]
  BY DEF Admit
<1> HIDE DEF Q, R, S
<1>6. SessionsOf(Q, B) = SessionsOf(P, B) /\ SessionsOf(P, A) = SessionsOf(P, {h}) \cup SessionsOf(P, B)
  BY <1>1, <1>3 DEF SessionsOf
<1>7. ASSUME NEW i \in Incs
      PROVE  (IF i \in B THEN [Q.inc[i] EXCEPT !.phase = "admitted", !.ahead = {}]
                         ELSE [Q.inc[i] EXCEPT !.ahead = @ \ B])
             = (IF i \in A THEN [P.inc[i] EXCEPT !.phase = "admitted", !.ahead = {}]
                           ELSE [P.inc[i] EXCEPT !.ahead = @ \ A])
  <2>1. PICK r \in Records : r = P.inc[i]
    BY <1>1
  <2>2. PICK q : q = Q.inc[i]
    OBVIOUS
  <2>3. CASE i = h
    <3>1. q = [r EXCEPT !.phase = "admitted", !.ahead = {}]
      BY <1>2, <2>1, <2>2, <2>3
    <3>2. [q EXCEPT !.ahead = @ \ B] = q
      BY <3>1 DEF Records, Phases
    <3>3. QED
      BY <2>1, <2>2, <2>3, <3>1, <3>2
  <2>4. CASE i # h
    <3>1. q = [r EXCEPT !.ahead = @ \ {h}]
      BY <1>2, <2>1, <2>2, <2>4
    <3>2. [q EXCEPT !.phase = "admitted", !.ahead = {}] = [r EXCEPT !.phase = "admitted", !.ahead = {}]
      BY <3>1 DEF Records, Phases
    <3>3. [q EXCEPT !.ahead = @ \ B] = [r EXCEPT !.ahead = @ \ A]
      <4>1. (r.ahead \ {h}) \ B = r.ahead \ A
        OBVIOUS
      <4>2. QED
        BY <3>1, <4>1 DEF Records
    <3>4. QED
      BY <2>1, <2>2, <2>4, <3>2, <3>3
  <2>5. QED
    BY <2>3, <2>4
<1>8. [i \in Incs |-> IF i \in B THEN [Q.inc[i] EXCEPT !.phase = "admitted", !.ahead = {}]
                                  ELSE [Q.inc[i] EXCEPT !.ahead = @ \ B]]
      = [i \in Incs |-> IF i \in A THEN [P.inc[i] EXCEPT !.phase = "admitted", !.ahead = {}]
                                   ELSE [P.inc[i] EXCEPT !.ahead = @ \ A]]
  BY <1>7
<1>9. /\ Q.reservations \cup SessionsOf(Q, B) = P.reservations \cup SessionsOf(P, A)
      /\ Q.pendingStarts \ B = P.pendingStarts \ A
  BY <1>2, <1>6
<1>10. R = S
  BY <1>2, <1>4, <1>5, <1>8, <1>9
<1>11. QED
  BY <1>10 DEF Q, R, S

\* While a background slot is free, the loop finds the oldest start.
LEMMA OldestFound ==
  ASSUME NEW P, PoolOK(P), Ordered(P), NEW h \in Incs, Finds(P, h),
         Cardinality(Used(P)) < Limit("background")
  PROVE  /\ P.inc[h].ahead = {}
         /\ \A i \in P.pendingStarts \ {h} : h \in P.inc[i].ahead
<1>1. P.inc[h].ahead \subseteq P.pendingStarts /\ h \in P.pendingStarts /\ P.pendingStarts \in SUBSET Incs
  BY PendingSessions DEF Finds, Ordered
<1>2. \A k \in P.inc[h].ahead : HasSlot(P, P.inc[k].lane)
  BY <1>1, RecordOf, LaneLimit, LimitFacts, UsedCount DEF HasSlot
<1>3. P.inc[h].ahead = {}
  BY <1>2 DEF Finds
<1>4. QED
  BY <1>1, <1>3 DEF Ordered

\* After that it finds the oldest interactive start.
LEMMA OldestInteractiveFound ==
  ASSUME NEW P, PoolOK(P), Ordered(P), NEW h \in Incs, Finds(P, h),
         ~(Cardinality(Used(P)) < Limit("background"))
  PROVE  /\ P.inc[h].lane = "interactive"
         /\ InteractiveOf(P, P.inc[h].ahead) = {}
         /\ \A i \in InteractiveOf(P, P.pendingStarts) \ {h} : h \in P.inc[i].ahead
<1>1. P.inc[h].ahead \subseteq P.pendingStarts /\ h \in P.pendingStarts
  BY DEF Finds, Ordered
<1>2. P.inc[h].lane = "interactive" /\ HasSlot(P, "interactive")
  BY RecordOf DEF Finds, HasSlot, Lanes
<1>3. InteractiveOf(P, P.inc[h].ahead) = {}
  BY <1>2 DEF Finds, InteractiveOf
<1>4. ASSUME NEW i \in InteractiveOf(P, P.pendingStarts) \ {h}
      PROVE  h \in P.inc[i].ahead
  <2>1. i \in P.pendingStarts /\ P.inc[i].lane = "interactive"
    BY DEF InteractiveOf
  <2>2. h \in P.inc[i].ahead \/ i \in P.inc[h].ahead
    BY <1>1, <2>1 DEF Ordered
  <2>3. i \notin P.inc[h].ahead
    BY <1>3, <2>1 DEF InteractiveOf
  <2>4. QED
    BY <2>2, <2>3
<1>5. QED
  BY <1>2, <1>3, <1>4

\* The sessions of starts of which one has been admitted
LEMMA RoundSessions ==
  ASSUME NEW P, PoolOK(P), Ordered(P), NEW h \in P.pendingStarts, NEW X \in SUBSET Incs
  PROVE  /\ SessionsOf(Round(P, h), X) = SessionsOf(P, X)
         /\ InteractiveOf(Round(P, h), X) = InteractiveOf(P, X)
         /\ h \in X => {P.inc[h].session} \cup SessionsOf(P, X \ {h}) = SessionsOf(P, X)
<1>1. \A i \in X : /\ Round(P, h).inc[i].session = P.inc[i].session
                   /\ Round(P, h).inc[i].lane = P.inc[i].lane
  BY RoundIs
<1>2. QED
  BY <1>1 DEF SessionsOf, InteractiveOf

\* A round admits one of the starts that the closed form admits, and leaves the others.
LEMMA RoundAdmits ==
  ASSUME NEW P, PoolOK(P), Ordered(P), NEW h \in Incs, Finds(P, h)
  PROVE  /\ h \in DrainedFirst(P) \cup DrainedLater(P)
         /\ DrainedFirst(Round(P, h)) \cup DrainedLater(Round(P, h))
              = (DrainedFirst(P) \cup DrainedLater(P)) \ {h}
<1> DEFINE Q == Round(P, h)
           W == P.pendingStarts
           F == DrainedFirst(P)
           G == DrainedFirst(Q)
           B(X) == Used(P) \cup SessionsOf(P, X)
<1>1. h \in W /\ W \in SUBSET Incs /\ \A i \in W : P.inc[i].ahead \in SUBSET W /\ i \notin P.inc[i].ahead
  BY PendingSessions DEF Finds, Ordered
<1>2. /\ PoolOK(Q) /\ Q.pendingStarts = W \ {h} /\ Used(Q) = Used(P) \cup {P.inc[h].session}
      /\ \A i \in W \ {h} : Q.inc[i].ahead = P.inc[i].ahead \ {h}
  BY <1>1, RoundIs
<1>3. \A X \in SUBSET Incs : /\ SessionsOf(Q, X) = SessionsOf(P, X)
                             /\ InteractiveOf(Q, X) = InteractiveOf(P, X)
                             /\ h \in X => {P.inc[h].session} \cup SessionsOf(P, X \ {h}) = SessionsOf(P, X)
  BY <1>1, RoundSessions
<1>4. DrainedFirst(P) = {i \in W : Cardinality(B(P.inc[i].ahead)) < Limit("background")}
  BY DEF DrainedFirst
<1>5. DrainedLater(P) =
        {i \in InteractiveOf(P, W \ F) :
           Cardinality(B(F) \cup SessionsOf(P, InteractiveOf(P, P.inc[i].ahead \ F))) < Limit("interactive")}
  BY DEF DrainedLater
<1>6. DrainedFirst(Q) =
        {i \in W \ {h} : Cardinality(Used(Q) \cup SessionsOf(Q, Q.inc[i].ahead)) < Limit("background")}
  BY <1>2 DEF DrainedFirst
<1>7. DrainedLater(Q) =
        {i \in InteractiveOf(Q, (W \ {h}) \ G) :
           Cardinality(Used(Q) \cup SessionsOf(Q, G) \cup SessionsOf(Q, InteractiveOf(Q, Q.inc[i].ahead \ G)))
             < Limit("interactive")}
  BY <1>2 DEF DrainedLater
<1>8. F \in SUBSET W /\ G \in SUBSET (W \ {h})
  BY <1>4, <1>6
<1> HIDE DEF Q, F, G
\* the slots that are in use, when a start behind h has its turn
<1>9. ASSUME NEW X \in SUBSET W, h \in X
      PROVE  Used(Q) \cup SessionsOf(Q, X \ {h}) = B(X)
  <2>1. X \in SUBSET Incs /\ X \ {h} \in SUBSET Incs
    BY <1>1
  <2>2. SessionsOf(Q, X \ {h}) = SessionsOf(P, X \ {h})
    BY <1>3, <2>1
  <2>3. {P.inc[h].session} \cup SessionsOf(P, X \ {h}) = SessionsOf(P, X)
    BY <1>3, <1>9, <2>1
  <2>4. QED
    BY <1>2, <2>2, <2>3
<1>10. CASE Cardinality(Used(P)) < Limit("background")
  <2>1. P.inc[h].ahead = {} /\ \A i \in W \ {h} : h \in P.inc[i].ahead
    BY <1>10, OldestFound
  <2>2. h \in F
    <3>1. SessionsOf(P, {}) = {}
      BY DEF SessionsOf
    <3>2. B(P.inc[h].ahead) = Used(P)
      BY <2>1, <3>1
    <3>3. QED
      BY <1>1, <1>4, <1>10, <3>2 DEF F
  <2>3. \A i \in W \ {h} : Used(Q) \cup SessionsOf(Q, Q.inc[i].ahead) = B(P.inc[i].ahead)
    BY <1>1, <1>2, <1>9, <2>1
  <2>4. G = F \ {h}
    BY <1>4, <1>6, <2>3 DEF F, G
  <2>5. Used(Q) \cup SessionsOf(Q, G) = B(F)
    BY <1>8, <1>9, <2>2, <2>4
  <2>6. (W \ {h}) \ G = W \ F
    BY <2>2, <2>4
  <2>7. InteractiveOf(Q, W \ F) = InteractiveOf(P, W \ F)
    BY <1>1, <1>3
  <2>8. \A i \in InteractiveOf(P, W \ F) :
          SessionsOf(Q, InteractiveOf(Q, Q.inc[i].ahead \ G)) = SessionsOf(P, InteractiveOf(P, P.inc[i].ahead \ F))
    <3>1. TAKE i \in InteractiveOf(P, W \ F)
    <3>2. i \in W \ {h}
      BY <2>2 DEF InteractiveOf
    <3>3. Q.inc[i].ahead \ G = P.inc[i].ahead \ F
      BY <1>2, <2>2, <2>4, <3>2
    <3>4. P.inc[i].ahead \ F \in SUBSET Incs
      BY <1>1, <3>2
    <3>5. InteractiveOf(Q, P.inc[i].ahead \ F) = InteractiveOf(P, P.inc[i].ahead \ F)
      BY <1>3, <3>4
    <3>6. InteractiveOf(P, P.inc[i].ahead \ F) \in SUBSET Incs
      BY <3>4 DEF InteractiveOf
    <3>7. QED
      BY <1>3, <3>3, <3>5, <3>6
  <2>9. DrainedLater(Q) = DrainedLater(P)
    BY <1>5, <1>7, <2>5, <2>6, <2>7, <2>8
  <2>10. h \notin DrainedLater(P)
    BY <1>5, <2>2 DEF InteractiveOf
  <2>11. QED
    BY <2>2, <2>4, <2>9, <2>10 DEF F, G, Q
<1>11. CASE ~(Cardinality(Used(P)) < Limit("background"))
  <2>1. /\ P.inc[h].lane = "interactive" /\ InteractiveOf(P, P.inc[h].ahead) = {}
        /\ \A i \in InteractiveOf(P, W) \ {h} : h \in P.inc[i].ahead
    BY <1>11, OldestInteractiveFound
  <2>2. \A X \in SUBSET W : B(X) \in SUBSET Sessions /\ Used(P) \in SUBSET B(X)
    BY PendingSessions
  <2>3. \A X \in SUBSET W : ~(Cardinality(B(X)) < Limit("background"))
    <3> SUFFICES ASSUME NEW X \in SUBSET W
                 PROVE  ~(Cardinality(B(X)) < Limit("background"))
      OBVIOUS
    <3> HIDE DEF B
    <3>1. QED
      BY <1>11, <2>2, Monotone, LimitFacts
  <2>4. F = {}
    BY <1>1, <1>4, <2>3 DEF F
  <2>5. G = {}
    <3>1. ASSUME NEW i \in W \ {h}
          PROVE  ~(Cardinality(Used(Q) \cup SessionsOf(Q, Q.inc[i].ahead)) < Limit("background"))
      <4>1. Q.inc[i].ahead \in SUBSET Q.pendingStarts
        BY <1>1, <1>2
      <4> DEFINE S == Used(Q) \cup SessionsOf(Q, Q.inc[i].ahead)
      <4>2. S \in SUBSET Sessions /\ Used(P) \in SUBSET S
        BY <1>2, <4>1, PendingSessions
      <4> HIDE DEF S
      <4>3. ~(Cardinality(S) < Limit("background"))
        BY <1>11, <4>2, Monotone, LimitFacts
      <4>4. QED
        BY <4>3 DEF S
    <3>2. QED
      BY <1>6, <3>1 DEF G
  <2>6. SessionsOf(P, {}) = {} /\ SessionsOf(Q, {}) = {}
    BY DEF SessionsOf
  <2>7. DrainedLater(P) =
          {i \in InteractiveOf(P, W) :
             Cardinality(B(InteractiveOf(P, P.inc[i].ahead))) < Limit("interactive")}
    BY <1>5, <2>4, <2>6
  <2>8. DrainedLater(Q) =
          {i \in InteractiveOf(Q, W \ {h}) :
             Cardinality(Used(Q) \cup SessionsOf(Q, InteractiveOf(Q, Q.inc[i].ahead))) < Limit("interactive")}
    BY <1>7, <2>5, <2>6
  <2>9. h \in DrainedLater(P)
    <3>1. B(InteractiveOf(P, P.inc[h].ahead)) = Used(P)
      BY <2>1, <2>6
    <3>2. Cardinality(Used(P)) < Limit("interactive")
      BY <2>1 DEF Finds, HasSlot
    <3>3. h \in InteractiveOf(P, W)
      BY <1>1, <2>1 DEF InteractiveOf
    <3>4. QED
      BY <2>7, <3>1, <3>2, <3>3
  <2>10. InteractiveOf(Q, W \ {h}) = InteractiveOf(P, W) \ {h}
    BY <1>1, <1>3 DEF InteractiveOf
  <2>11. \A i \in InteractiveOf(P, W) \ {h} :
           Used(Q) \cup SessionsOf(Q, InteractiveOf(Q, Q.inc[i].ahead)) = B(InteractiveOf(P, P.inc[i].ahead))
    <3>1. TAKE i \in InteractiveOf(P, W) \ {h}
    <3>2. i \in W \ {h}
      BY DEF InteractiveOf
    <3>3. Q.inc[i].ahead = P.inc[i].ahead \ {h} /\ h \in P.inc[i].ahead
      BY <1>2, <2>1, <3>2
    <3>4. Q.inc[i].ahead \in SUBSET Incs
      BY <1>1, <3>2, <3>3
    <3>5. InteractiveOf(Q, Q.inc[i].ahead) = InteractiveOf(P, P.inc[i].ahead) \ {h}
      BY <1>3, <3>3, <3>4 DEF InteractiveOf
    <3>6. h \in InteractiveOf(P, P.inc[i].ahead) /\ InteractiveOf(P, P.inc[i].ahead) \in SUBSET W
      BY <1>1, <2>1, <3>2, <3>3 DEF InteractiveOf
    <3>7. QED
      BY <1>9, <3>5, <3>6
  <2>12. DrainedLater(Q) = DrainedLater(P) \ {h}
    BY <2>7, <2>8, <2>10, <2>11
  <2>13. QED
    BY <2>4, <2>5, <2>9, <2>12 DEF F, G, Q
<1>12. QED
  BY <1>10, <1>11

\* The closed form is the same before and after a round.
LEMMA RoundDrains ==
  ASSUME NEW P, PoolOK(P), Ordered(P), NEW h \in Incs, Finds(P, h)
  PROVE  drainPendingStarts(Round(P, h)) = drainPendingStarts(P)
<1> DEFINE A == DrainedFirst(P) \cup DrainedLater(P)
<1>1. h \in A /\ DrainedFirst(Round(P, h)) \cup DrainedLater(Round(P, h)) = A \ {h}
  BY RoundAdmits
<1>2. A \in SUBSET P.pendingStarts
  BY DEF DrainedFirst, DrainedLater, InteractiveOf
<1>3. drainPendingStarts(P) = Admit(P, A) /\ drainPendingStarts(Round(P, h)) = Admit(Round(P, h), A \ {h})
  BY <1>1 DEF drainPendingStarts
<1> HIDE DEF A
<1>4. Admit(Admit(P, {h}), A \ {h}) = Admit(P, A)
  BY <1>1, <1>2, AdmitTwice
<1>5. QED
  BY <1>3, <1>4 DEF Round

\* When no start has a slot the closed form changes nothing.
LEMMA FullDrains ==
  ASSUME NEW P, PoolOK(P), Ordered(P), Full(P)
  PROVE  drainPendingStarts(P) = P
<1>1. DrainedFirst(P) = {} /\ DrainedLater(P) = {}
  <2>1. \A i \in P.pendingStarts : /\ P.inc[i].lane \in Lanes /\ P.inc[i].ahead \in SUBSET P.pendingStarts
                                   /\ Cardinality(Used(P)) >= Limit(P.inc[i].lane)
    BY PendingSessions, RecordOf DEF Ordered, Full
  <2>2. \A X \in SUBSET P.pendingStarts :
          Cardinality(Used(P) \cup SessionsOf(P, X)) \in Nat
          /\ Cardinality(Used(P) \cup SessionsOf(P, X)) >= Cardinality(Used(P))
    <3> SUFFICES ASSUME NEW X \in SUBSET P.pendingStarts
                 PROVE  /\ Cardinality(Used(P) \cup SessionsOf(P, X)) \in Nat
                        /\ Cardinality(Used(P) \cup SessionsOf(P, X)) >= Cardinality(Used(P))
      OBVIOUS
    <3> DEFINE S == Used(P) \cup SessionsOf(P, X)
    <3>1. S \in SUBSET Sessions /\ Used(P) \in SUBSET S
      BY PendingSessions
    <3> HIDE DEF S
    <3>2. Cardinality(S) \in Nat /\ Cardinality(Used(P)) <= Cardinality(S) /\ Cardinality(Used(P)) \in Nat
      BY <3>1, Monotone
    <3>3. QED
      BY <3>2 DEF S
  <2>3. \A i \in P.pendingStarts : Cardinality(Used(P)) >= Limit("background")
    <3>1. TAKE i \in P.pendingStarts
    <3>2. PICK l \in Lanes : l = P.inc[i].lane
      BY <2>1
    <3>3. Cardinality(Used(P)) >= Limit(l)
      BY <2>1, <3>2
    <3>4. Limit(l) \in Nat /\ Limit("background") \in Nat /\ Limit("background") <= Limit(l)
      BY LaneLimit, LimitFacts
    <3>5. Cardinality(Used(P)) \in Nat
      BY UsedCount
    <3>6. QED
      BY <3>3, <3>4, <3>5
  <2>4. DrainedFirst(P) = {}
    BY <2>1, <2>2, <2>3, UsedCount, LimitFacts DEF DrainedFirst
  <2>5. \A i \in InteractiveOf(P, P.pendingStarts) : Cardinality(Used(P)) >= Limit("interactive")
    BY <2>1 DEF InteractiveOf
  <2>6. SessionsOf(P, {}) = {}
    BY DEF SessionsOf
  <2>7. \A i \in InteractiveOf(P, P.pendingStarts) : InteractiveOf(P, P.inc[i].ahead \ {}) \in SUBSET P.pendingStarts
    BY <2>1 DEF InteractiveOf
  <2>8. DrainedLater(P) = {}
    BY <2>2, <2>4, <2>5, <2>6, <2>7, UsedCount, LimitFacts DEF DrainedLater
  <2>9. QED
    BY <2>4, <2>8
<1>2. drainPendingStarts(P) = Admit(P, {})
  BY <1>1 DEF drainPendingStarts
<1>3. SessionsOf(P, {}) = {}
  BY DEF SessionsOf
<1>4. \A i \in Incs : [P.inc[i] EXCEPT !.ahead = @ \ {}] = P.inc[i]
  <2>1. TAKE i \in Incs
  <2>2. PICK r \in Records : r = P.inc[i]
    BY RecordOf
  <2>3. [r EXCEPT !.ahead = @ \ {}] = r
    BY DEF Records
  <2>4. QED
    BY <2>2, <2>3
<1>5. [i \in Incs |-> [P.inc[i] EXCEPT !.ahead = @ \ {}]] = P.inc
  BY <1>4 DEF PoolOK, Pools
<1>6. Admit(P, {}) = [streaming |-> P.streaming, reservations |-> P.reservations,
                      pendingStarts |-> P.pendingStarts, inc |-> P.inc]
  BY <1>3, <1>5 DEF Admit
<1>7. QED
  BY <1>2, <1>6 DEF PoolOK, Pools

\* If some start waits although its lane has a slot, the loop finds one.
LEMMA LoopFinds ==
  ASSUME NEW P, PoolOK(P), Ordered(P), ~Full(P)
  PROVE  \E h \in Incs : Finds(P, h)
<1> DEFINE X == {i \in P.pendingStarts : HasSlot(P, P.inc[i].lane)}
<1>1. PICK i \in P.pendingStarts : ~(Cardinality(Used(P)) >= Limit(P.inc[i].lane))
  BY DEF Full
<1>2. P.pendingStarts \in SUBSET Incs
  BY PendingSessions
<1>3. Cardinality(Used(P)) \in Nat /\ Limit(P.inc[i].lane) \in Nat
  <2>1. P.inc[i].lane \in Lanes
    BY <1>2, RecordOf
  <2>2. QED
    BY <2>1, LaneLimit, UsedCount
<1>4. i \in X
  BY <1>1, <1>3 DEF HasSlot
<1>5. PICK h \in X : X \cap P.inc[h].ahead = {}
  <2>1. X \in SUBSET P.pendingStarts
    OBVIOUS
  <2> HIDE DEF X
  <2>2. QED
    BY <1>4, <2>1, FirstStart
<1>6. P.inc[h].ahead \subseteq P.pendingStarts
  BY DEF Ordered
<1>7. Finds(P, h)
  BY <1>5, <1>6 DEF Finds
<1>8. QED
  BY <1>2, <1>7

\* What a round of the loop keeps
LEMMA RoundKeeps ==
  ASSUME NEW P, PoolOK(P), Ordered(P), NEW h \in Incs, Finds(P, h)
  PROVE  /\ PoolOK(Round(P, h)) /\ Ordered(Round(P, h))
         /\ drainPendingStarts(Round(P, h)) = drainPendingStarts(P)
         /\ Cardinality(P.pendingStarts) \in Nat
         /\ Cardinality(Round(P, h).pendingStarts) = Cardinality(P.pendingStarts) - 1
<1>1. h \in P.pendingStarts /\ P.pendingStarts \in SUBSET Incs
  BY PendingSessions DEF Finds
<1>2. PoolOK(Round(P, h)) /\ Ordered(Round(P, h)) /\ Round(P, h).pendingStarts = P.pendingStarts \ {h}
  BY <1>1, RoundIs, RoundOrdered
<1>3. IsFiniteSet(P.pendingStarts)
  BY <1>1, IncsAssumption, FS_Subset
<1>4. /\ Cardinality(P.pendingStarts) \in Nat
      /\ Cardinality(P.pendingStarts \ {h}) = Cardinality(P.pendingStarts) - 1
  BY <1>1, <1>3, FS_RemoveElement, FS_CardinalityType
<1>5. QED
  BY <1>2, <1>4, RoundDrains

\* A set of numbers that is not empty has a least one.
LEMMA LeastNumber ==
  ASSUME NEW S \in SUBSET Nat, S # {}
  PROVE  \E x \in S : \A y \in S : x <= y
<1> DEFINE R == {ss \in Nat \X Nat : ss[1] < ss[2]}
<1>1. IsWellFoundedOn(R, Nat)
  BY NatLessThanWellFounded, Zenon DEF OpToRel
<1>2. PICK x \in S : \A y \in S : <<y, x>> \notin R
  <2> HIDE DEF R
  <2>1. QED
    BY <1>1, WFMin, Zenon
<1>3. ASSUME NEW y \in S
      PROVE  x <= y
  <2>1. y < x => <<y, x>> \in R
    OBVIOUS
  <2>2. QED
    BY <1>2, <2>1
<1>4. QED
  BY <1>3

\* The loop of drainPendingStarts (session-dispatcher.ts:1206), which looks again for
\* the first start with a slot after each one it admits, ends after at most as many
\* rounds as starts wait, and then its pool is the one that the model installs.
THEOREM DrainIsItsLoop ==
  ASSUME NEW P, PoolOK(P), Ordered(P)
  PROVE  LoopsTo(P, drainPendingStarts(P))
<1> SUFFICES ASSUME NEW n \in Nat, NEW run \in [0 .. n -> Pools], Rounds(P, n, run)
             PROVE  /\ n <= Cardinality(P.pendingStarts)
                    /\ (\E h \in Incs : Finds(run[n], h)) \/ run[n] = drainPendingStarts(P)
  BY DEF LoopsTo
<1> DEFINE Kept(k) == /\ PoolOK(run[k]) /\ Ordered(run[k])
                      /\ drainPendingStarts(run[k]) = drainPendingStarts(P)
                      /\ Cardinality(run[k].pendingStarts) \in Nat
                      /\ Cardinality(run[k].pendingStarts) + k = Cardinality(P.pendingStarts)
           Bad == {k \in 0 .. n : ~Kept(k)}
<1>1. Kept(0)
  <2>1. IsFiniteSet(P.pendingStarts)
    BY PendingSessions, IncsAssumption, FS_Subset
  <2>2. QED
    BY <2>1, FS_CardinalityType DEF Rounds
<1>2. ASSUME NEW k \in 0 .. n - 1, Kept(k)
      PROVE  Kept(k + 1)
  <2>1. PICK h \in Incs : Finds(run[k], h) /\ run[k + 1] = Round(run[k], h)
    BY DEF Rounds
  <2>2. PICK R : R = run[k]
    OBVIOUS
  <2>3. /\ PoolOK(Round(R, h)) /\ Ordered(Round(R, h))
        /\ drainPendingStarts(Round(R, h)) = drainPendingStarts(R)
        /\ Cardinality(R.pendingStarts) \in Nat
        /\ Cardinality(Round(R, h).pendingStarts) = Cardinality(R.pendingStarts) - 1
    BY <1>2, <2>1, <2>2, RoundKeeps
  <2>4. IsFiniteSet(Round(R, h).pendingStarts)
    BY <2>3, PendingSessions, IncsAssumption, FS_Subset
  <2>5. Cardinality(Round(R, h).pendingStarts) \in Nat
    BY <2>4, FS_CardinalityType
  <2>6. Cardinality(Round(R, h).pendingStarts) + (k + 1) = Cardinality(P.pendingStarts)
    BY <1>2, <2>2, <2>3
  <2>7. QED
    BY <1>2, <2>1, <2>2, <2>3, <2>5, <2>6
<1>3. Bad = {}
  <2> SUFFICES ASSUME Bad # {}
               PROVE  FALSE
    OBVIOUS
  <2>1. Bad \in SUBSET Nat
    OBVIOUS
  <2>2. PICK x \in Bad : \A y \in Bad : x <= y
    <3> HIDE DEF Bad
    <3>1. QED
      BY <2>1, LeastNumber
  <2>3. x \in 0 .. n /\ ~Kept(x)
    OBVIOUS
  <2> HIDE DEF Kept
  <2>4. x # 0
    BY <1>1, <2>3
  <2>5. x - 1 \in 0 .. n - 1 /\ x - 1 \notin Bad /\ (x - 1) + 1 = x
    BY <2>2, <2>3, <2>4
  <2>6. Kept(x - 1)
    BY <2>5
  <2>7. Kept((x - 1) + 1)
    BY <1>2, <2>5, <2>6
  <2>8. QED
    BY <2>3, <2>5, <2>7
<1>4. Kept(n)
  <2> HIDE DEF Kept
  <2>1. QED
    BY <1>3
<1>5. CASE Full(run[n])
  BY <1>4, <1>5, FullDrains
<1>6. CASE ~Full(run[n])
  BY <1>4, <1>6, LoopFinds
<1>7. n <= Cardinality(P.pendingStarts)
  BY <1>4
<1>8. QED
  BY <1>5, <1>6, <1>7

\* Now, after the sessions of X have given back the slots they had
Released(X) == [Now EXCEPT !.reservations = @ \ X,
                           !.streaming = [s \in Sessions |-> IF s \in X THEN NoInc ELSE @[s]]]

DrainedAsTheLoop ==
  \A X \in SUBSET Sessions : LoopsTo(Released(X), drainPendingStarts(Released(X)))

\* Whatever slots are given back at once, drainPendingStarts (session-dispatcher.ts:1206)
\* admits in one step of the model what the loop of the code admits.
THEOREM DrainsAsTheLoop == Spec => []DrainedAsTheLoop
<1>1. ASSUME Fair, NEW X \in SUBSET Sessions
      PROVE  LoopsTo(Released(X), drainPendingStarts(Released(X)))
  <2>1. PoolOK(Now) /\ Ordered(Now)
    BY <1>1 DEF Fair, Consistent
  <2>2. PICK P : P = Now
    OBVIOUS
  <2>3. PICK Q : Q = Released(X)
    OBVIOUS
  <2>4. /\ Q = [P EXCEPT !.reservations = P.reservations \ X,
                         !.streaming = [s \in Sessions |-> IF s \in X THEN NoInc ELSE P.streaming[s]]]
        /\ P \in Pools
    BY <2>1, <2>2, <2>3 DEF Released, PoolOK
  <2>5. /\ Q \in Pools /\ Q.pendingStarts = P.pendingStarts /\ Q.inc = P.inc
    BY <2>4 DEF Pools
  <2>6. PoolOK(Q)
    BY <2>1, <2>2, <2>5 DEF PoolOK
  <2>7. Ordered(Q)
    BY <2>1, <2>2, <2>5 DEF Ordered
  <2>8. QED
    BY <2>3, <2>6, <2>7, DrainIsItsLoop
<1>2. Fair => DrainedAsTheLoop
  BY <1>1 DEF DrainedAsTheLoop
<1>3. QED
  BY <1>2, FairAlways, PTL
--------------------------------------------------------------------------------
(* The pool is the semaphore of SlotPool: what a step hands to whom *)

\* The queue of waiting starts is the same.
SameQueue(P, Q) ==
  /\ Q.pendingStarts = P.pendingStarts
  /\ \A i \in P.pendingStarts : Same(P.inc[i], Q.inc[i])

\* Between P and Q all but the slots of kept were given back, and the starts of S
\* have been served, in their order.
HandsTo(P, Q, kept, S) ==
  /\ Claims(Q) = kept \cup SessionsOf(P, S)
  /\ Q.pendingStarts = P.pendingStarts \ S
  /\ \A i \in Q.pendingStarts : /\ Q.inc[i].session = P.inc[i].session
                                /\ Q.inc[i].lane = P.inc[i].lane
                                /\ Q.inc[i].ahead = P.inc[i].ahead \ S
  /\ \A i \in S : \A k \in P.inc[i].ahead :
       P.inc[k].lane \in {"interactive", P.inc[i].lane} => k \in S
  /\ \A i \in S : P.inc[i].lane = "background" =>
       Cardinality(kept \cup SessionsOf(P, P.inc[i].ahead)) < Limit("background")

Hands(P, Q) ==
  \E kept \in SUBSET Claims(P), S \in SUBSET P.pendingStarts : HandsTo(P, Q, kept, S)

\* Who only gives up claims serves nobody.
LEMMA HandsNobody ==
  ASSUME NEW P, NEW Q, SameQueue(P, Q), Claims(Q) \subseteq Claims(P)
  PROVE  Hands(P, Q)
<1>1. HandsTo(P, Q, Claims(Q), {})
  BY DEF HandsTo, SameQueue, Same, SessionsOf
<1>2. QED
  BY <1>1 DEF Hands

\* Claims may be given up before the others are served.
LEMMA HandsFrom ==
  ASSUME NEW P, NEW U, NEW Q, Ordered(P), SameQueue(P, U), Claims(U) \subseteq Claims(P),
         Hands(U, Q)
  PROVE  Hands(P, Q)
<1>1. PICK kept \in SUBSET Claims(U), S \in SUBSET U.pendingStarts : HandsTo(U, Q, kept, S)
  BY DEF Hands
<1>2. /\ S \in SUBSET P.pendingStarts /\ kept \in SUBSET Claims(P)
      /\ \A i \in P.pendingStarts : P.inc[i].ahead \in SUBSET P.pendingStarts
      /\ \A i \in P.pendingStarts : /\ U.inc[i].session = P.inc[i].session
                                    /\ U.inc[i].lane = P.inc[i].lane
                                    /\ U.inc[i].ahead = P.inc[i].ahead
  BY DEF SameQueue, Same, Ordered
<1>3. \A X \in SUBSET P.pendingStarts : SessionsOf(U, X) = SessionsOf(P, X)
  BY <1>2 DEF SessionsOf
<1>4. U.pendingStarts = P.pendingStarts
  BY DEF SameQueue
<1>5. /\ Claims(Q) = kept \cup SessionsOf(P, S)
      /\ Q.pendingStarts = P.pendingStarts \ S
  BY <1>1, <1>2, <1>3, <1>4 DEF HandsTo
<1>6. \A i \in Q.pendingStarts : /\ Q.inc[i].session = P.inc[i].session
                                 /\ Q.inc[i].lane = P.inc[i].lane
                                 /\ Q.inc[i].ahead = P.inc[i].ahead \ S
  BY <1>1, <1>2, <1>5 DEF HandsTo
<1>7. \A i \in S : \A k \in P.inc[i].ahead :
        P.inc[k].lane \in {"interactive", P.inc[i].lane} => k \in S
  BY <1>1, <1>2 DEF HandsTo
<1>8. \A i \in S : P.inc[i].lane = "background" =>
        Cardinality(kept \cup SessionsOf(P, P.inc[i].ahead)) < Limit("background")
  <2> SUFFICES ASSUME NEW i \in S, P.inc[i].lane = "background"
               PROVE  Cardinality(kept \cup SessionsOf(P, P.inc[i].ahead)) < Limit("background")
    OBVIOUS
  <2>1. /\ U.inc[i].ahead = P.inc[i].ahead /\ U.inc[i].lane = "background"
        /\ SessionsOf(U, P.inc[i].ahead) = SessionsOf(P, P.inc[i].ahead)
    BY <1>2, <1>3
  <2>2. QED
    BY <1>1, <2>1 DEF HandsTo
<1>9. QED
  BY <1>2, <1>5, <1>6, <1>7, <1>8 DEF Hands, HandsTo

\* A drain serves the starts that it admits, when no claim goes beyond the slots
\* in use.
LEMMA DrainHands ==
  ASSUME NEW P, PoolOK(P), Ordered(P), Settled(P)
  PROVE  Hands(P, drainPendingStarts(P))
<1>1. PICK A : A = DrainedFirst(P) \cup DrainedLater(P)
  OBVIOUS
<1>2. /\ A \in SUBSET P.pendingStarts /\ A \in SUBSET Incs
      /\ P.inc \in [Incs -> Records] /\ P.pendingStarts \in SUBSET Incs
  BY <1>1 DEF DrainedFirst, DrainedLater, InteractiveOf, PoolOK, Pools
<1>3. PICK Q : Q = Admit(P, A)
  OBVIOUS
<1>4. /\ Q.streaming = P.streaming
      /\ Q.reservations = P.reservations \cup SessionsOf(P, A)
      /\ Q.pendingStarts = P.pendingStarts \ A
  BY <1>2, <1>3, AdmitEffect
<1>5. \A i \in A : Q.inc[i].phase = "admitted" /\ Q.inc[i].session = P.inc[i].session
  BY <1>2, <1>3, AdmitEffect
<1>6. \A i \in Incs \ A : /\ Q.inc[i].phase = P.inc[i].phase
                          /\ Q.inc[i].ahead = P.inc[i].ahead \ A
                          /\ Q.inc[i].session = P.inc[i].session
                          /\ Q.inc[i].lane = P.inc[i].lane
  BY <1>2, <1>3, AdmitEffect
<1>7. Claims(Q) = Used(P) \cup SessionsOf(P, A)
  <2>1. Used(Q) = Used(P) \cup SessionsOf(P, A)
    BY <1>4 DEF Used, Mapped
  <2>2. SessionsOf(Q, ContinuationsOf(Q)) \subseteq SessionsOf(P, ContinuationsOf(P)) \cup SessionsOf(P, A)
    BY <1>2, <1>5, <1>6 DEF SessionsOf, ContinuationsOf
  <2>3. QED
    BY <2>1, <2>2 DEF Claims, Settled
<1>8. \A i \in A : \A k \in P.inc[i].ahead :
        P.inc[k].lane \in {"interactive", P.inc[i].lane} => k \in A
  BY <1>1, <1>2, DrainServes DEF MustPrecede, Ordered
<1>9. \A i \in A : P.inc[i].lane = "background" =>
        Cardinality(Used(P) \cup SessionsOf(P, P.inc[i].ahead)) < Limit("background")
  BY <1>1 DEF DrainedFirst, DrainedLater, InteractiveOf
<1>10. HandsTo(P, Q, Used(P), A)
  BY <1>2, <1>4, <1>6, <1>7, <1>8, <1>9 DEF HandsTo
<1>11. QED
  BY <1>1, <1>2, <1>3, <1>10 DEF Hands, Claims, drainPendingStarts

\* So does a drain under a condition.
LEMMA DrainIfHands ==
  ASSUME NEW P, PoolOK(P), Ordered(P), Settled(P), NEW c \in BOOLEAN
  PROVE  Hands(P, DrainIf(P, c))
<1>1. SameQueue(P, P)
  BY DEF SameQueue, Same
<1>2. QED
  BY <1>1, DrainHands, HandsNobody DEF DrainIf

\* Releasing the slot of a name.
LEMMA ReleaseSlotHands ==
  ASSUME NEW P, PoolOK(P), Ordered(P), Calm(P), NEW s \in Sessions
  PROVE  Hands(P, ReleaseSlot(P, s))
<1>1. PICK U : U = Unmap(P, s)
  OBVIOUS
<1>2. /\ PoolOK(U) /\ U.inc = P.inc /\ U.pendingStarts = P.pendingStarts
      /\ U.reservations = P.reservations /\ U.streaming = [P.streaming EXCEPT ![s] = NoInc]
  BY <1>1, UnmapOK DEF Unmap, PoolOK, Pools
<1>3. Ordered(U) /\ SameQueue(P, U) /\ Calm(U)
  BY <1>2 DEF Ordered, SameQueue, Same, Calm, ContinuationsOf
<1>4. Claims(U) \subseteq Claims(P)
  <2>1. Used(U) \subseteq Used(P)
    BY <1>2 DEF Used, Mapped, PoolOK, Pools
  <2>2. QED
    BY <1>3, <2>1, CalmSettled
<1>5. Hands(U, DrainIf(U, P.streaming[s] # NoInc))
  BY <1>2, <1>3, CalmSettled, DrainIfHands
<1>6. QED
  BY <1>1, <1>3, <1>4, <1>5, HandsFrom DEF ReleaseSlot

\* The finally of startStreamingSession: its second drain finds nothing to do.
LEMMA FinishedHands ==
  ASSUME NEW P, PoolOK(P), Ordered(P), Calm(P), NEW j \in Incs,
         inc[j].session \in Sessions, inc[j].drainAfter \in BOOLEAN
  PROVE  Hands(P, Finished(P, j))
<1> DEFINE s == inc[j].session
           c == s \in P.reservations /\ P.streaming[s] = NoInc
<1>1. PICK U : U = Unreserve(P, s)
  OBVIOUS
<1>2. /\ PoolOK(U) /\ U.inc = P.inc /\ U.pendingStarts = P.pendingStarts
      /\ U.reservations = P.reservations \ {s} /\ U.streaming = P.streaming
  BY <1>1, UnreserveOK DEF Unreserve, PoolOK, Pools
<1>3. Ordered(U) /\ SameQueue(P, U) /\ Calm(U)
  BY <1>2 DEF Ordered, SameQueue, Same, Calm, ContinuationsOf
<1>4. Claims(U) \subseteq Claims(P)
  <2>1. Used(U) \subseteq Used(P)
    BY <1>2 DEF Used, Mapped
  <2>2. QED
    BY <1>3, <2>1, CalmSettled
<1>5. \E d \in BOOLEAN : Finished(P, j) = DrainIf(U, d)
  <2>1. Finished(P, j) = DrainIf(DrainIf(U, c), inc[j].drainAfter)
    BY <1>1 DEF Finished, releaseRuntimeSessionStartReservation
  <2>2. CASE c
    <3>1. PICK Q : Q = drainPendingStarts(U)
      OBVIOUS
    <3>2. PoolOK(Q) /\ Drained(U, Q) /\ Full(Q)
      BY <1>2, <1>3, <3>1, DrainOK, DrainDrained
    <3>3. drainPendingStarts(Q) = Q
      BY <1>2, <1>3, <3>2, DrainedOrdered, FullDrains
    <3>4. Finished(P, j) = Q /\ DrainIf(U, TRUE) = Q
      BY <2>1, <2>2, <3>1, <3>3 DEF DrainIf
    <3>5. QED
      BY <3>4
  <2>3. CASE ~c
    BY <2>1, <2>3 DEF DrainIf
  <2>4. QED
    BY <2>2, <2>3
<1>6. PICK d \in BOOLEAN : Finished(P, j) = DrainIf(U, d)
  BY <1>5
<1>7. Hands(U, DrainIf(U, d))
  BY <1>2, <1>3, CalmSettled, DrainIfHands
<1>8. QED
  BY <1>3, <1>4, <1>6, <1>7, HandsFrom

--------------------------------------------------------------------------------
(* The steps of SlotPool *)

SlotStep == [Slots!Next]_Slots!vars

\* SlotPool counts as the dispatcher does.
LEMMA SlotCount ==
  ASSUME NEW T
  PROVE  Slots!Cardinality(T) = Cardinality(T)
BY DEF Slots!Cardinality, Cardinality

\* Its lanes have the limits of the dispatcher.
LEMMA SlotFree ==
  ASSUME NEW T, NEW lane
  PROVE  Slots!Free(T, lane) <=> Cardinality(T) < Limit(lane)
<1>1. Slots!Share(lane) = Limit(lane)
  BY DEF Slots!Share, Limit
<1>2. QED
  BY <1>1, SlotCount DEF Slots!Free

\* The pool that an action installs, as SlotPool sees it.
LEMMA BecomeMapped ==
  ASSUME NEW Q, Become(Q)
  PROVE  Claims(Now)' = Claims(Q) /\ QueueOf(Now)' = QueueOf(Q)
<1>1. Claims(Now)' = Claims(Q)
  BY DEF Become, Now, Claims, Used, Mapped, SessionsOf, ContinuationsOf
<1>2. QueueOf(Now)' = QueueOf(Q)
  BY DEF Become, Now, QueueOf
<1>3. QED
  BY <1>1, <1>2

\* What was handed was handed to those whose turn it is, if afterwards no claim
\* goes beyond the maximum and no start waits beside a slot.
LEMMA HandsTurn ==
  ASSUME Fair, NEW R, Bounded(R), Saturated(R, {}),
         NEW kept \in SUBSET Claims(Now), NEW S \in SUBSET pendingStarts,
         HandsTo(Now, R, kept, S)
  PROVE  /\ Slots!Turn(kept, S)
         /\ Slots!Waiting = pendingStarts
         /\ Claims(R) = kept \cup Slots!NamesOf(S)
         /\ R.pendingStarts = pendingStarts \ S
         /\ QueueOf(R) = Slots!Behind(S)
<1>0. PICK q : q = QueueOf(Now)
  OBVIOUS
<1>1. /\ Now.pendingStarts = pendingStarts /\ Now.inc = inc
      /\ \A i \in pendingStarts : inc[i].ahead \in SUBSET pendingStarts
  BY FairFacts DEF Ordered
<1>2. DOMAIN q = pendingStarts
  BY <1>0, <1>1 DEF QueueOf
<1>3. \A i \in pendingStarts :
        q[i] = [name |-> inc[i].session, lane |-> inc[i].lane, before |-> inc[i].ahead]
  BY <1>0, <1>1 DEF QueueOf
<1>4. \A i \in pendingStarts : /\ q[i].name = inc[i].session /\ q[i].lane = inc[i].lane
                               /\ q[i].before = inc[i].ahead
  <2> SUFFICES ASSUME NEW i \in pendingStarts
               PROVE  /\ q[i].name = inc[i].session /\ q[i].lane = inc[i].lane
                      /\ q[i].before = inc[i].ahead
    OBVIOUS
  <2>1. PICK a : a = inc[i].session
    OBVIOUS
  <2>2. PICK b : b = inc[i].lane
    OBVIOUS
  <2>3. PICK c : c = inc[i].ahead
    OBVIOUS
  <2>4. q[i] = [name |-> a, lane |-> b, before |-> c]
    BY <1>3, <2>1, <2>2, <2>3
  <2>5. q[i].name = a /\ q[i].lane = b /\ q[i].before = c
    BY <2>4
  <2>6. QED
    BY <2>1, <2>2, <2>3, <2>5
<1>5. \A X \in SUBSET pendingStarts : {q[i].name : i \in X} = SessionsOf(Now, X)
  BY <1>1, <1>4 DEF SessionsOf
<1>6. /\ Claims(R) = kept \cup SessionsOf(Now, S)
      /\ R.pendingStarts = pendingStarts \ S
  BY <1>1 DEF HandsTo
<1>7. \A i \in pendingStarts \ S : /\ R.inc[i].session = inc[i].session
                                   /\ R.inc[i].lane = inc[i].lane
                                   /\ R.inc[i].ahead = inc[i].ahead \ S
  BY <1>1, <1>6 DEF HandsTo
<1>8. \A T, lane : Slots!Free(T, lane) <=> Cardinality(T) < Limit(lane)
  BY SlotFree
<1>9. QueueOf(R) = [i \in pendingStarts \ S |-> [q[i] EXCEPT !.before = @ \ S]]
  <2>1. \A i \in pendingStarts \ S :
          [name |-> R.inc[i].session, lane |-> R.inc[i].lane, before |-> R.inc[i].ahead]
            = [q[i] EXCEPT !.before = @ \ S]
    <3> SUFFICES ASSUME NEW i \in pendingStarts \ S
                 PROVE  [name |-> R.inc[i].session, lane |-> R.inc[i].lane, before |-> R.inc[i].ahead]
                          = [q[i] EXCEPT !.before = @ \ S]
      OBVIOUS
    <3>1. PICK a : a = inc[i].session
      OBVIOUS
    <3>2. PICK b : b = inc[i].lane
      OBVIOUS
    <3>3. PICK c : c = inc[i].ahead
      OBVIOUS
    <3>4. q[i] = [name |-> a, lane |-> b, before |-> c]
      BY <1>3, <3>1, <3>2, <3>3
    <3>5. [q[i] EXCEPT !.before = @ \ S] = [name |-> a, lane |-> b, before |-> c \ S]
      BY <3>4
    <3>6. R.inc[i].session = a /\ R.inc[i].lane = b /\ R.inc[i].ahead = c \ S
      BY <1>7, <3>1, <3>2, <3>3
    <3>7. QED
      BY <3>5, <3>6
  <2>2. QED
    BY <1>6, <2>1 DEF QueueOf
<1>10. \A i \in S : \A k \in q[i].before :
         q[k].lane \in {"interactive", q[i].lane} => k \in S
  BY <1>1, <1>4 DEF HandsTo
<1>11. \A i \in S : q[i].lane = "background" =>
         Cardinality(kept \cup {q[k].name : k \in q[i].before}) < Limit("background")
  <2> SUFFICES ASSUME NEW i \in S, q[i].lane = "background"
               PROVE  Cardinality(kept \cup {q[k].name : k \in q[i].before}) < Limit("background")
    OBVIOUS
  <2>1. /\ q[i].before = inc[i].ahead /\ inc[i].lane = "background"
        /\ inc[i].ahead \in SUBSET pendingStarts
    BY <1>1, <1>4
  <2>2. {q[k].name : k \in q[i].before} = SessionsOf(Now, inc[i].ahead)
    BY <1>5, <2>1
  <2>3. QED
    BY <1>1, <2>1, <2>2 DEF HandsTo
<1>12. Cardinality(Claims(R)) <= MaxSessions /\ Cardinality(Claims(R)) \in Nat
  <2>1. Claims(R) \in SUBSET Sessions
    BY <1>1, <1>6, FairFacts, ClaimsType, PendingSessions
  <2>2. QED
    BY <2>1, Monotone DEF Bounded
<1>13. \A i \in pendingStarts \ S : ~(Cardinality(Claims(R)) < Limit(q[i].lane))
  <2> SUFFICES ASSUME NEW i \in pendingStarts \ S
               PROVE  ~(Cardinality(Claims(R)) < Limit(q[i].lane))
    OBVIOUS
  <2>1. Cardinality(Claims(R)) >= Limit(R.inc[i].lane) /\ R.inc[i].lane = q[i].lane
    <3>1. Claims(R) \cup {} = Claims(R)
      OBVIOUS
    <3>2. QED
      BY <1>4, <1>6, <1>7, <3>1 DEF Saturated
  <2>2. Limit(q[i].lane) \in Nat
    BY <1>4, Types, FairFacts, LaneLimit
  <2>3. QED
    BY <1>12, <2>1, <2>2
<1>14. Slots!Waiting = pendingStarts /\ Slots!NamesOf(S) = SessionsOf(Now, S)
  BY <1>0, <1>2, <1>5 DEF Slots!Waiting, Slots!NamesOf
<1>15. QueueOf(R) = Slots!Behind(S)
  BY <1>0, <1>9, <1>14 DEF Slots!Behind
<1>16. Slots!Turn(kept, S)
  <2>1. kept \cup Slots!NamesOf(S) = Claims(R)
    BY <1>6, <1>14
  <2>2. \A X : Slots!NamesOf(X) = {q[i].name : i \in X}
    BY <1>0 DEF Slots!NamesOf
  <2>3. \A i \in pendingStarts \ S : ~Slots!Free(kept \cup Slots!NamesOf(S), q[i].lane)
    BY <1>8, <1>13, <2>1
  <2>4. \A i \in S : q[i].lane = "background" =>
          Slots!Free(kept \cup Slots!NamesOf(q[i].before), "background")
    <3> SUFFICES ASSUME NEW i \in S, q[i].lane = "background"
                 PROVE  Slots!Free(kept \cup Slots!NamesOf(q[i].before), "background")
      OBVIOUS
    <3>1. Slots!NamesOf(q[i].before) = {q[k].name : k \in q[i].before}
      BY <2>2
    <3>2. QED
      BY <1>8, <1>11, <3>1
  <2>5. Slots!Cardinality(kept \cup Slots!NamesOf(S)) <= MaxSessions
    BY <1>12, <2>1, SlotCount
  <2>6. QED
    BY <1>0, <1>10, <1>14, <2>3, <2>4, <2>5 DEF Slots!Turn
<1>17. QED
  BY <1>6, <1>14, <1>15, <1>16

\* The same when that is the next state.
LEMMA NextPool ==
  ASSUME Fair', PoolInv', NEW Q, Become(Q)
  PROVE  Saturated(Q, {}) /\ Bounded(Q)
<1>1. Saturated(Now, {})' /\ Bounded(Now)'
  BY DEF Fair, PoolInv, Sound
<1>2. Saturated(Q, {})
  BY <1>1 DEF Saturated, Claims, Used, Mapped, SessionsOf, ContinuationsOf, Become, Now
<1>3. Bounded(Q)
  BY <1>1 DEF Bounded, Claims, Used, Mapped, SessionsOf, ContinuationsOf, Become, Now
<1>4. QED
  BY <1>2, <1>3

\* A step that asks for no slot: the pool that it installs.
HandStep == \E Q : Become(Q) /\ Hands(Now, Q)

\* It is one that serves.
LEMMA HandsServe ==
  ASSUME Fair, Fair', PoolInv', HandStep
  PROVE  SlotStep
<1>1. PICK Q : Become(Q) /\ Hands(Now, Q)
  BY DEF HandStep
<1>2. Saturated(Q, {}) /\ Bounded(Q)
  BY <1>1, NextPool
<1>3. PICK kept \in SUBSET Claims(Now), S \in SUBSET pendingStarts : HandsTo(Now, Q, kept, S)
  BY <1>1, FairFacts DEF Hands
<1>4. /\ Slots!Turn(kept, S) /\ Slots!Waiting = pendingStarts
      /\ Claims(Q) = kept \cup Slots!NamesOf(S) /\ QueueOf(Q) = Slots!Behind(S)
  BY <1>2, <1>3, HandsTurn
<1>5. Slots!Serve(kept, S)
  BY <1>1, <1>4, BecomeMapped DEF Slots!Serve
<1>6. QED
  BY <1>3, <1>4, <1>5 DEF SlotStep, Slots!Next

\* A start that asks for a slot of a pool that has been drained: it keeps the slot
\* that its name has reserved, is given one, or waits as the last.
LEMMA AskStep ==
  ASSUME Fair, NEW R, Sound(R), Settled(R), Saturated(R, {}), Hands(Now, R),
         NEW j \in Incs, inc[j].phase = "unused", R.inc[j].phase = "unused",
         NEW q \in Records, q.phase = "unused", q.session \in Sessions, q.lane \in Lanes,
         Become(reserveRuntimeSessionStart(With(R, j, q), j))
  PROVE  SlotStep
<1>1. PICK kept \in SUBSET Claims(Now), S \in SUBSET pendingStarts : HandsTo(Now, R, kept, S)
  BY FairFacts DEF Hands
<1>2. /\ Slots!Turn(kept, S) /\ Slots!Waiting = pendingStarts
      /\ Claims(R) = kept \cup Slots!NamesOf(S) /\ QueueOf(R) = Slots!Behind(S)
      /\ R.pendingStarts = pendingStarts \ S
  BY <1>1, HandsTurn DEF Sound
<1>3. PICK W : W = With(R, j, q)
  OBVIOUS
<1>4. /\ PoolOK(W) /\ W.streaming = R.streaming /\ W.reservations = R.reservations
      /\ W.pendingStarts = R.pendingStarts /\ Used(W) = Used(R)
      /\ W.inc[j] = q /\ \A k \in Incs \ {j} : W.inc[k] = R.inc[k]
  BY <1>3, WithOK, WithEffect DEF Sound
<1>5. j \notin pendingStarts /\ j \notin W.pendingStarts /\ W.pendingStarts \subseteq Incs
  BY <1>2, <1>4, FairFacts, PendingSessions DEF Sound
<1>6. PICK Q : Q = reserveRuntimeSessionStart(W, j)
  OBVIOUS
<1>7. Become(Q) /\ Claims(R) = Used(R)
  BY <1>3, <1>6 DEF Settled, Claims
<1>8. SessionsOf(W, ContinuationsOf(W)) = SessionsOf(R, ContinuationsOf(R))
  BY <1>4 DEF SessionsOf, ContinuationsOf, Continuing
<1>9. CASE Q = Retain(W, j)
  <2>1. /\ Q.pendingStarts = W.pendingStarts
        /\ Q.inc[j].phase = "reserved" /\ Q.inc[j].session = q.session
        /\ \A k \in Incs \ {j} : Q.inc[k] = W.inc[k]
        /\ Used(Q) = Used(W) \cup {q.session}
    BY <1>4, <1>9, RetainEffect
  <2>2. QueueOf(Q) = QueueOf(R)
    <3>1. \A k \in R.pendingStarts : Q.inc[k] = R.inc[k]
      BY <1>4, <1>5, <2>1
    <3>2. QED
      BY <1>4, <2>1, <3>1 DEF QueueOf
  <2>3. Claims(Q) = Claims(R) \cup {q.session}
    <3>1. SessionsOf(Q, ContinuationsOf(Q)) \subseteq SessionsOf(W, ContinuationsOf(W)) \cup {q.session}
      BY <2>1 DEF SessionsOf, ContinuationsOf
    <3>2. QED
      BY <1>4, <1>7, <1>8, <2>1, <3>1 DEF Claims, Settled
  <2>4. CASE q.session \in R.reservations
    <3>1. Claims(Q) = Claims(R)
      BY <1>7, <2>3, <2>4 DEF Used
    <3>2. Slots!Serve(kept, S)
      BY <1>2, <1>7, <2>2, <3>1, BecomeMapped DEF Slots!Serve
    <3>3. QED
      BY <1>1, <1>2, <3>2 DEF SlotStep, Slots!Next
  <2>5. CASE Cardinality(Used(R)) < Limit(q.lane)
    <3>1. Slots!Free(kept \cup Slots!NamesOf(S), q.lane)
      BY <1>2, <1>7, <2>5, SlotFree
    <3>2. Slots!Grant(kept, S, q.session, q.lane)
      BY <1>2, <1>7, <2>2, <2>3, <3>1, BecomeMapped DEF Slots!Grant
    <3>3. q.lane \in Slots!Lanes
      BY DEF Slots!Lanes, Lanes
    <3>4. QED
      BY <1>1, <1>2, <3>2, <3>3 DEF SlotStep, Slots!Next
  <2>6. QED
    <3>1. q.session \in R.reservations \/ HasSlot(W, q.lane) \/ Q = Wait(W, j)
      BY <1>4, <1>6 DEF reserveRuntimeSessionStart
    <3>2. Q.inc[j].phase = "waiting" => FALSE
      BY <2>1
    <3>3. Q # Wait(W, j)
      BY <1>4, <3>2, WaitEffect
    <3>4. QED
      BY <1>4, <2>4, <2>5, <3>1, <3>3 DEF HasSlot
<1>10. CASE Q # Retain(W, j)
  <2>1. Q = Wait(W, j) /\ ~HasSlot(W, q.lane)
    BY <1>4, <1>6, <1>10 DEF reserveRuntimeSessionStart
  <2>2. /\ Q.pendingStarts = W.pendingStarts \cup {j} /\ Used(Q) = Used(W)
        /\ Q.inc[j].phase = "waiting" /\ Q.inc[j].session = q.session
        /\ Q.inc[j].lane = q.lane /\ Q.inc[j].ahead = W.pendingStarts
        /\ \A k \in Incs \ {j} : Q.inc[k] = W.inc[k]
    BY <1>4, <2>1, WaitEffect
  <2>3. Claims(Q) = Claims(R)
    <3>1. SessionsOf(Q, ContinuationsOf(Q)) = SessionsOf(W, ContinuationsOf(W))
      BY <1>4, <2>2 DEF SessionsOf, ContinuationsOf, Continuing
    <3>2. QED
      BY <1>4, <1>8, <2>2, <3>1 DEF Claims
  <2>4. ~Slots!Free(kept \cup Slots!NamesOf(S), q.lane)
    BY <1>2, <1>4, <1>7, <2>1, SlotFree DEF HasSlot
  <2>5. QueueOf(Q) = [i \in (pendingStarts \ S) \cup {j} |->
                        IF i = j THEN [name |-> q.session, lane |-> q.lane,
                                       before |-> pendingStarts \ S]
                        ELSE QueueOf(R)[i]]
    <3>1. Q.pendingStarts = (pendingStarts \ S) \cup {j}
      BY <1>2, <1>4, <2>2
    <3>2. \A i \in pendingStarts \ S :
            /\ i # j
            /\ QueueOf(R)[i] = [name |-> Q.inc[i].session, lane |-> Q.inc[i].lane,
                                before |-> Q.inc[i].ahead]
      <4>1. \A i \in pendingStarts \ S : i # j /\ Q.inc[i] = R.inc[i]
        BY <1>2, <1>4, <1>5, <2>2
      <4>2. QED
        BY <1>2, <4>1 DEF QueueOf
    <3>3. [name |-> q.session, lane |-> q.lane, before |-> pendingStarts \ S]
            = [name |-> Q.inc[j].session, lane |-> Q.inc[j].lane, before |-> Q.inc[j].ahead]
      BY <1>2, <1>4, <2>2
    <3>4. PICK f : f = QueueOf(R)
      OBVIOUS
    <3>5. QED
      BY <3>1, <3>2, <3>3, <3>4 DEF QueueOf
  <2>6. Slots!Refuse(kept, S, j, q.session, q.lane)
    BY <1>2, <1>7, <2>3, <2>4, <2>5, BecomeMapped DEF Slots!Refuse
  <2>7. q.lane \in Slots!Lanes /\ j \in Incs \ Slots!Waiting
    BY <1>2, <1>5 DEF Slots!Lanes, Lanes
  <2>8. QED
    BY <1>1, <1>2, <2>6, <2>7 DEF SlotStep, Slots!Next
<1>11. QED
  BY <1>9, <1>10

--------------------------------------------------------------------------------
(* Which steps hand over, and which ask *)

\* What gives up no place in the queue and takes no slot.
Stays(P, Q) ==
  PoolOK(Q) /\ Ordered(Q) /\ SameQueue(P, Q) /\ Claims(Q) \subseteq Claims(P)

\* One such change after another.
LEMMA StaysTrans ==
  ASSUME NEW P, NEW Q, NEW R, Stays(P, Q), Stays(Q, R)
  PROVE  Stays(P, R)
BY DEF Stays, SameQueue, Same

\* What follows such a change serves as if it had not been made.
LEMMA StaysHands ==
  ASSUME NEW P, NEW U, NEW Q, Ordered(P), Stays(P, U), Hands(U, Q)
  PROVE  Hands(P, Q)
BY HandsFrom DEF Stays

\* Replacing an incarnation by one that claims nothing new.
LEMMA WithStays ==
  ASSUME NEW P, PoolOK(P), Ordered(P), NEW i \in Incs, NEW r \in Records,
         Same(P.inc[i], r) \/ Moves(P.inc[i], r)
  PROVE  Stays(P, With(P, i, r)) /\ (Calm(P) => Calm(With(P, i, r)))
<1>1. PICK Q : Q = With(P, i, r)
  OBVIOUS
<1>2. \A k \in Incs : P.inc[k].phase # "unused" => P.inc[k].session \in Sessions
  BY DEF PoolOK
<1>3. PoolOK(Q)
  BY <1>1, <1>2, WithOK DEF Same, Moves
<1>4. /\ Q.pendingStarts = P.pendingStarts /\ Used(Q) = Used(P)
      /\ Q.inc[i] = r /\ \A k \in Incs \ {i} : Q.inc[k] = P.inc[k]
  BY <1>1, WithEffect
<1>5. SameQueue(P, Q)
  BY <1>4, PendingSessions DEF SameQueue, Same, Moves, PoolOK
<1>6. Ordered(Q)
  BY <1>5 DEF Ordered, SameQueue, Same
<1>7. /\ ContinuationsOf(Q) \subseteq ContinuationsOf(P)
      /\ \A k \in ContinuationsOf(Q) : Q.inc[k].session = P.inc[k].session
  BY <1>4 DEF ContinuationsOf, Same, Moves
<1>8. Claims(Q) \subseteq Claims(P)
  BY <1>4, <1>7 DEF Claims, SessionsOf
<1>9. Calm(P) => Calm(Q)
  BY <1>7 DEF Calm
<1>10. QED
  BY <1>1, <1>3, <1>5, <1>6, <1>8, <1>9 DEF Stays

\* Removing a map entry.
LEMMA UnmapStays ==
  ASSUME NEW P, PoolOK(P), Ordered(P), NEW s \in Sessions
  PROVE  /\ Stays(P, Unmap(P, s)) /\ Unmap(P, s).inc = P.inc
         /\ Calm(P) => Calm(Unmap(P, s))
<1>1. PICK U : U = Unmap(P, s)
  OBVIOUS
<1>2. /\ PoolOK(U) /\ U.inc = P.inc /\ U.pendingStarts = P.pendingStarts
      /\ U.reservations = P.reservations /\ U.streaming = [P.streaming EXCEPT ![s] = NoInc]
  BY <1>1, UnmapOK DEF Unmap, PoolOK, Pools
<1>3. Ordered(U) /\ SameQueue(P, U) /\ ContinuationsOf(U) = ContinuationsOf(P)
  BY <1>2 DEF Ordered, SameQueue, Same, ContinuationsOf
<1>4. Used(U) \subseteq Used(P)
  BY <1>2 DEF Used, Mapped, PoolOK, Pools
<1>5. Claims(U) \subseteq Claims(P)
  BY <1>2, <1>3, <1>4 DEF Claims, SessionsOf
<1>6. QED
  BY <1>1, <1>2, <1>3, <1>5 DEF Stays, Calm

\* Making a start of an unused incarnation, or of one that awaits a model change,
\* whose session has a claim already.
LEMMA ClaimStays ==
  ASSUME NEW P, NEW V, PoolOK(P), Ordered(P), Stays(P, V), NEW j \in Incs,
         V.inc[j].phase # "waiting",
         NEW q \in Records, q.phase = "retaining", q.session \in Claims(P)
  PROVE  Stays(P, With(V, j, q))
<1>1. PICK Q : Q = With(V, j, q)
  OBVIOUS
<1>2. PoolOK(V) /\ Ordered(V) /\ SameQueue(P, V) /\ Claims(V) \subseteq Claims(P)
  BY DEF Stays
<1>3. q.session \in Sessions
  BY ClaimsType
<1>4. PoolOK(Q)
  BY <1>1, <1>2, <1>3, WithOK
<1>5. /\ Q.pendingStarts = V.pendingStarts /\ Used(Q) = Used(V)
      /\ Q.inc[j] = q /\ \A k \in Incs \ {j} : Q.inc[k] = V.inc[k]
  BY <1>1, <1>2, WithEffect
<1>6. \A k \in V.pendingStarts : Q.inc[k] = V.inc[k]
  BY <1>2, <1>5 DEF PoolOK
<1>7. SameQueue(P, Q) /\ Ordered(Q)
  BY <1>2, <1>5, <1>6 DEF SameQueue, Same, Ordered
<1>8. Claims(Q) \subseteq Claims(V) \cup {q.session}
  BY <1>5 DEF Claims, SessionsOf, ContinuationsOf
<1>9. QED
  BY <1>1, <1>2, <1>4, <1>7, <1>8 DEF Stays

\* Keeping a slot that the session has a claim to.
LEMMA RetainStays ==
  ASSUME NEW P, NEW V, PoolOK(P), Ordered(P), Stays(P, V), NEW j \in Incs,
         V.inc[j].phase # "waiting", V.inc[j].session \in Claims(P)
  PROVE  Stays(P, Retain(V, j))
<1>1. PICK Q : Q = Retain(V, j)
  OBVIOUS
<1>2. PoolOK(V) /\ Ordered(V) /\ SameQueue(P, V) /\ Claims(V) \subseteq Claims(P)
  BY DEF Stays
<1>3. V.inc[j].session \in Sessions
  BY ClaimsType
<1>4. PoolOK(Q)
  BY <1>1, <1>2, <1>3, RetainOK
<1>5. /\ Q.pendingStarts = V.pendingStarts
      /\ Q.inc[j].session = V.inc[j].session
      /\ \A k \in Incs \ {j} : Q.inc[k] = V.inc[k]
      /\ Used(Q) = Used(V) \cup {V.inc[j].session}
  BY <1>1, <1>2, <1>3, RetainEffect
<1>6. \A k \in V.pendingStarts : Q.inc[k] = V.inc[k]
  BY <1>2, <1>5 DEF PoolOK
<1>7. SameQueue(P, Q) /\ Ordered(Q)
  BY <1>2, <1>5, <1>6 DEF SameQueue, Same, Ordered
<1>8. Claims(Q) \subseteq Claims(V) \cup {V.inc[j].session}
  BY <1>5 DEF Claims, SessionsOf, ContinuationsOf
<1>9. QED
  BY <1>1, <1>2, <1>4, <1>7, <1>8 DEF Stays

\* An unused incarnation becomes the start that keeps the slot.
LEMMA RestartStays ==
  ASSUME NEW P, NEW V, PoolOK(P), Ordered(P), Stays(P, V), NEW j \in Incs,
         V.inc[j].phase = "unused",
         NEW q \in Records, q.phase = "unused", q.session \in Claims(P)
  PROVE  Stays(P, Retain(With(V, j, q), j))
<1>1. PICK W : W = With(V, j, q)
  OBVIOUS
<1>2. Moves(V.inc[j], q)
  BY DEF Moves, Continuing
<1>3. Stays(V, W) /\ W.inc[j] = q
  BY <1>1, <1>2, WithStays, WithEffect DEF Stays
<1>4. Stays(P, W)
  BY <1>3, StaysTrans
<1>5. QED
  BY <1>1, <1>3, <1>4, RetainStays

\* A step that leaves the pool so.
LEMMA StaysStep ==
  ASSUME NEW Q, Stays(Now, Q), Become(Q)
  PROVE  HandStep
BY HandsNobody DEF Stays, HandStep

\* The names in the map, and those of continuations, have a claim.
LEMMA ClaimOf ==
  ASSUME Fair
  PROVE  /\ \A s \in Sessions : streaming[s] # NoInc => s \in Claims(Now)
         /\ \A j \in Incs : inc[j].phase \in Continuing => inc[j].session \in Claims(Now)
<1>1. \A s \in Sessions : streaming[s] # NoInc => s \in Used(Now)
  BY DEF Used, Mapped, Now
<1>2. \A j \in Incs : inc[j].phase \in Continuing => inc[j].session \in SessionsOf(Now, ContinuationsOf(Now))
  BY FairFacts DEF SessionsOf, ContinuationsOf
<1>3. QED
  BY <1>1, <1>2 DEF Claims

\* The steps that leave the pool alone.
LEMMA IdleHands ==
  ASSUME Fair, UNCHANGED pool
  PROVE  HandStep
<1>1. Become(Now)
  BY DEF Become, Now, pool
<1>2. Stays(Now, Now)
  BY FairFacts DEF Stays, SameQueue, Same
<1>3. QED
  BY <1>1, <1>2, StaysStep

\* The inert steps.
LEMMA InertHands ==
  ASSUME Fair, InertStep
  PROVE  HandStep
<1>1. PICK i \in Incs : \E q \in Records : SetInc(i, q) /\ (Same(inc[i], q) \/ Moves(inc[i], q))
  BY FairFacts, InertSteps DEF InertChange
<1>2. PICK q \in Records : SetInc(i, q) /\ (Same(inc[i], q) \/ Moves(inc[i], q))
  BY <1>1
<1>3. Become(With(Now, i, q))
  BY <1>2 DEF Become, With, Now, SetInc
<1>4. Stays(Now, With(Now, i, q))
  BY <1>2, FairFacts, WithStays
<1>5. QED
  BY <1>3, <1>4, StaysStep

\* The runtime of s is shut down and out of the map: its session has the claim.
LEMMA ShutDownStays ==
  ASSUME Fair, NEW s \in Sessions, streaming[s] # NoInc
  PROVE  LET V == With(Unmap(Now, s), streaming[s],
                       shutdownRuntimeStreamingSession(inc[streaming[s]]))
         IN  /\ Stays(Now, V) /\ s \in Claims(Now)
             /\ \A j \in Incs : V.inc[j].phase = inc[j].phase
<1>1. PICK i \in Incs : i = streaming[s]
  BY Types, FairFacts
<1>2. PICK r \in Records : r = inc[i]
  BY Types, FairFacts
<1>3. PICK d \in Records : d = shutdownRuntimeStreamingSession(r) /\ Same(r, d)
  BY ShutdownRecord DEF Same
<1>4. PICK U : U = Unmap(Now, s)
  OBVIOUS
<1>5. Stays(Now, U) /\ U.inc = inc
  BY <1>4, FairFacts, UnmapStays
<1>6. PICK V : V = With(U, i, d)
  OBVIOUS
<1>7. Stays(U, V) /\ V.inc[i] = d /\ \A k \in Incs \ {i} : V.inc[k] = inc[k]
  <2>1. Same(U.inc[i], d) /\ PoolOK(U) /\ Ordered(U)
    BY <1>2, <1>3, <1>5 DEF Stays
  <2>2. QED
    BY <1>5, <1>6, <2>1, WithStays, WithEffect
<1>8. Stays(Now, V)
  BY <1>5, <1>7, StaysTrans
<1>9. \A k \in Incs : V.inc[k].phase = inc[k].phase
  BY <1>2, <1>3, <1>7 DEF Same
<1>10. QED
  BY <1>1, <1>2, <1>3, <1>4, <1>6, <1>8, <1>9, ClaimOf

\* The starts that take over the slot of the runtime they replace.
LEMMA TakeOverHands ==
  ASSUME Fair, NEW s \in Sessions, NEW j \in Incs,
         \/ \E m \in Prompts : PromptRestarts(s, m, j) \/ PromptChangesModel(s, m, j)
         \/ recoverIdleGapSession(s, j)
  PROVE  HandStep
<1>1. streaming[s] # NoInc /\ inc[j].phase = "unused"
  BY DEF PromptRestarts, PromptChangesModel, recoverIdleGapSession, Fresh
<1>2. PICK V : V = With(Unmap(Now, s), streaming[s],
                        shutdownRuntimeStreamingSession(inc[streaming[s]]))
  OBVIOUS
<1>3. Stays(Now, V) /\ s \in Claims(Now) /\ V.inc[j].phase = "unused"
  BY <1>1, <1>2, ShutDownStays
<1>4. ASSUME NEW q \in Records, q.phase = "unused", q.session = s,
             Become(Retain(With(V, j, q), j))
      PROVE  HandStep
  BY <1>3, <1>4, FairFacts, RestartStays, StaysStep
<1>5. ASSUME NEW m \in Prompts, PromptRestarts(s, m, j)
      PROVE  HandStep
  <2>1. PICK q \in Records : q = Start(s, m) /\ q.phase = "unused" /\ q.session = s
    BY StartRecord
  <2>2. Become(Retain(With(V, j, q), j))
    BY <1>2, <1>5, <2>1 DEF PromptRestarts
  <2>3. QED
    BY <1>4, <2>1, <2>2
<1>6. ASSUME NEW m \in Prompts, PromptChangesModel(s, m, j)
      PROVE  HandStep
  <2>1. PICK q \in Records : q = Start(s, m) /\ q.phase = "unused" /\ q.session = s
    BY StartRecord
  <2>2. PICK r : r = [q EXCEPT !.phase = "retaining"]
    OBVIOUS
  <2>3. r \in Records /\ r.phase = "retaining" /\ r.session = s
    BY <2>1, <2>2 DEF Records, Phases
  <2>4. Become(With(V, j, r))
    BY <1>2, <1>6, <2>1, <2>2 DEF PromptChangesModel
  <2>5. QED
    BY <1>3, <2>3, <2>4, FairFacts, ClaimStays, StaysStep
<1>7. ASSUME recoverIdleGapSession(s, j)
      PROVE  HandStep
  <2>1. PICK i \in Incs : i = streaming[s]
    BY <1>1, Types, FairFacts
  <2>2. inc[i].lane \in Lanes
    BY Types, FairFacts
  <2>3. PICK q : q = Restart(s, inc[i].lane)
    OBVIOUS
  <2>4. q \in Records /\ q.phase = "unused" /\ q.session = s
    BY <2>2, <2>3, RestartRecord
  <2>5. Become(Retain(With(V, j, q), j))
    BY <1>2, <1>7, <2>1, <2>3 DEF recoverIdleGapSession
  <2>6. QED
    BY <1>4, <2>4, <2>5
<1>8. QED
  BY <1>5, <1>6, <1>7

\* The continuations take what they have claimed.
LEMMA ContinuesHands ==
  ASSUME Fair, Fair', NEW j \in Incs, ModelChangeContinues(j) \/ StartContinues(j)
  PROVE  HandStep
<1>1. PICK r \in Records : r = inc[j]
  BY Types, FairFacts
<1>2. r.phase \in Continuing /\ r.phase # "waiting" /\ r.session \in Sessions
  BY <1>1, Types, FairFacts DEF ModelChangeContinues, StartContinues, Continuing
<1>3. r.session \in Claims(Now)
  BY <1>1, <1>2, ClaimOf
<1>4. Stays(Now, Now) /\ Now.inc = inc
  BY FairFacts DEF Stays, SameQueue, Same
<1>5. CASE ModelChangeContinues(j)
  <2>1. Stays(Now, Retain(Now, j))
    BY <1>1, <1>2, <1>3, <1>4, FairFacts, RetainStays
  <2>2. QED
    BY <1>5, <2>1, StaysStep DEF ModelChangeContinues
<1>6. CASE StartContinues(j)
  <2>1. PICK Q : Q = [streaming |-> streaming', reservations |-> reservations',
                      pendingStarts |-> pendingStarts', inc |-> inc']
    OBVIOUS
  <2>2. Become(Q)
    BY <2>1 DEF Become
  <2>3. PoolOK(Q)
    <3>1. PoolOK(Now)'
      BY TypeOKSplitNext DEF Fair
    <3>2. QED
      BY <2>1, <3>1 DEF PoolOK, Pools, Now
  <2>4. PICK g \in [Incs -> Records] : g = inc
    BY FairFacts DEF TypeOK
  <2>5. PICK q : q = [r EXCEPT !.phase = "building"]
    OBVIOUS
  <2>6. q.phase = "building" /\ q.session = r.session
    BY <2>5 DEF Records
  <2>7. /\ Q.inc = [g EXCEPT ![j] = q] /\ Q.pendingStarts = pendingStarts
        /\ Q.streaming = [streaming EXCEPT ![r.session] = j]
        /\ Q.reservations \subseteq reservations \cup {r.session}
    BY <1>1, <1>6, <2>1, <2>4, <2>5 DEF StartContinues
  <2>8. Q.inc[j] = q /\ \A i \in Incs \ {j} : Q.inc[i] = inc[i]
    BY <2>4, <2>7
  <2>9. \A i \in pendingStarts : Q.inc[i] = inc[i]
    BY <1>1, <1>2, <2>8, FairFacts
  <2>10. SameQueue(Now, Q) /\ Ordered(Q)
    BY <2>7, <2>9, FairFacts DEF SameQueue, Same, Ordered
  <2>11. Claims(Q) \subseteq Claims(Now)
    <3>1. Used(Q) \subseteq Used(Now) \cup {r.session}
      BY <1>2, <2>7, FairFacts DEF Used, Mapped, TypeOK
    <3>2. SessionsOf(Q, ContinuationsOf(Q)) \subseteq SessionsOf(Now, ContinuationsOf(Now))
      BY <2>6, <2>8, FairFacts DEF SessionsOf, ContinuationsOf, Continuing
    <3>3. QED
      BY <1>3, <3>1, <3>2 DEF Claims
  <2>12. QED
    BY <2>2, <2>3, <2>10, <2>11, StaysStep DEF Stays
<1>7. QED
  BY <1>5, <1>6

\* A build that succeeds, or fails, or reports its failure.
LEMMA BuildHands ==
  ASSUME Fair, SettledGap = FALSE, NEW j \in Incs,
         BuildSucceeds(j) \/ BuildFails(j) \/ FailureReported(j)
  PROVE  HandStep
<1>1. PICK r \in Records : r = inc[j]
  BY Types, FairFacts
<1>2. /\ r.session \in Sessions /\ r.phase \in Starting /\ r.phase # "waiting"
      /\ Calm(Now) /\ inc[j].drainAfter \in BOOLEAN
  BY <1>1, Types, FairFacts, QuietCalm
     DEF BuildSucceeds, BuildFails, FailureReported, Starting
<1>3. ASSUME NEW q \in Records, q.phase \in Aside \cup {"failing"},
             q.phase # "unused" => q.session \in Sessions
      PROVE  LET P == With(Now, j, q)
             IN  Stays(Now, P) /\ Calm(P) /\ PoolOK(P) /\ Ordered(P)
  <2>1. Moves(inc[j], q)
    BY <1>1, <1>2, <1>3 DEF Moves, Aside, Continuing
  <2>2. QED
    BY <1>2, <2>1, FairFacts, WithStays DEF Stays
<1>4. ASSUME NEW q \in Records, q.phase \in Aside, q.phase # "unused" => q.session \in Sessions,
             Become(Finished(With(Now, j, q), j))
      PROVE  HandStep
  <2>1. PICK P : P = With(Now, j, q)
    OBVIOUS
  <2>2. Stays(Now, P) /\ Calm(P) /\ PoolOK(P) /\ Ordered(P)
    BY <1>3, <1>4, <2>1
  <2>3. Hands(P, Finished(P, j))
    BY <1>1, <1>2, <2>2, FinishedHands
  <2>4. QED
    BY <1>4, <2>1, <2>2, <2>3, FairFacts, StaysHands DEF HandStep
<1>5. CASE BuildSucceeds(j)
  <2>1. PICK q : q = [r EXCEPT !.phase = "live", !.drainAfter = FALSE]
    OBVIOUS
  <2>2. q \in Records /\ q.phase = "live" /\ q.session = r.session
    BY <2>1 DEF Records, Phases
  <2>3. Become(Finished(With(Now, j, q), j))
    BY <1>1, <1>5, <2>1 DEF BuildSucceeds
  <2>4. QED
    BY <1>2, <1>4, <2>2, <2>3 DEF Aside
<1>6. CASE BuildFails(j)
  <2>1. PICK d \in Records : d = shutdownRuntimeStreamingSession(r) /\ d.session = r.session
    BY ShutdownRecord
  <2>2. PICK q : q = [d EXCEPT !.phase = "failing", !.pending = <<>>]
    OBVIOUS
  <2>3. q \in Records /\ q.phase = "failing" /\ q.session = r.session
    <3>1. <<>> \in Seq(Prompts) /\ "failing" \in Phases
      BY DEF Phases
    <3>2. QED
      BY <2>1, <2>2, <3>1 DEF Records
  <2>4. PICK P : P = With(Now, j, q)
    OBVIOUS
  <2>5. Stays(Now, P) /\ Calm(P) /\ PoolOK(P) /\ Ordered(P)
    BY <1>2, <1>3, <2>3, <2>4
  <2>6. PICK U : U = Unmap(P, r.session)
    OBVIOUS
  <2>7. Stays(P, U) /\ Calm(U)
    BY <1>2, <2>5, <2>6, UnmapStays
  <2>8. Stays(Now, U) /\ Hands(U, drainPendingStarts(U))
    BY <2>5, <2>7, StaysTrans, CalmSettled, DrainHands DEF Stays
  <2>9. Become(drainPendingStarts(U))
    BY <1>1, <1>6, <2>1, <2>2, <2>4, <2>6 DEF BuildFails
  <2>10. QED
    BY <2>8, <2>9, FairFacts, StaysHands DEF HandStep
<1>7. CASE FailureReported(j)
  BY <1>4, <1>7, UnusedRecord DEF FailureReported, Aside
<1>8. QED
  BY <1>5, <1>6, <1>7

\* A runtime is changed, and the slot of its session released.
LEMMA ReleaseHands ==
  ASSUME Fair, Calm(Now), NEW i \in Incs, NEW r \in Records, Same(inc[i], r), NEW s \in Sessions,
         Become(ReleaseSlot(With(Now, i, r), s))
  PROVE  HandStep
<1>1. PICK W : W = With(Now, i, r)
  OBVIOUS
<1>2. Stays(Now, W) /\ Calm(W)
  BY <1>1, FairFacts, WithStays
<1>3. Hands(W, ReleaseSlot(W, s))
  BY <1>2, ReleaseSlotHands DEF Stays
<1>4. QED
  BY <1>1, <1>2, <1>3, FairFacts, StaysHands DEF HandStep

\* Aborts, model changes, and the end of a tool with the abort that waited for it.
LEMMA AbortHands ==
  ASSUME Fair, SettledGap = FALSE,
         \/ \E s \in Sessions : abortSession(s) \/ ModelChanged(s)
         \/ \E i \in Incs : ToolCompletes(i)
  PROVE  HandStep
<1>1. Calm(Now)
  BY QuietCalm DEF abortSession, ModelChanged, ToolCompletes
<1>2. ASSUME NEW s \in Sessions, streaming[s] # NoInc, ShutDownAndRelease(s)
      PROVE  HandStep
  <2>1. PICK i \in Incs : i = streaming[s]
    BY <1>2, Types, FairFacts
  <2>2. PICK r \in Records : r = inc[i]
    BY Types, FairFacts
  <2>3. PICK d \in Records : d = shutdownRuntimeStreamingSession(r) /\ Same(r, d)
    BY ShutdownRecord DEF Same
  <2>4. Become(ReleaseSlot(With(Now, i, d), s))
    BY <1>2, <2>1, <2>2, <2>3 DEF ShutDownAndRelease
  <2>5. QED
    BY <1>1, <2>2, <2>3, <2>4, ReleaseHands
<1>3. ASSUME NEW i \in Incs, ToolCompletes(i)
      PROVE  HandStep
  <2>1. PICK r \in Records : r = inc[i]
    BY Types, FairFacts
  <2>2. r.session \in Sessions
    BY <1>3, <2>1, Types, FairFacts DEF ToolCompletes
  <2>3. PICK q : q = [r EXCEPT !.taken = "none", !.unsafe = FALSE]
    OBVIOUS
  <2>4. q \in Records /\ Same(r, q) /\ q.session = r.session
    BY <2>3 DEF Records, Same
  <2>5. PICK a : a = [q EXCEPT !.aborted = TRUE]
    OBVIOUS
  <2>6. a \in Records /\ Same(r, a)
    BY <2>4, <2>5 DEF Records, Same
  <2>7. CASE r.pendingAbort
    <3>1. Become(ReleaseSlot(With(Now, i, a), r.session))
      BY <1>3, <2>1, <2>3, <2>4, <2>5, <2>7 DEF ToolCompletes
    <3>2. QED
      BY <1>1, <2>1, <2>2, <2>6, <3>1, ReleaseHands
  <2>8. CASE ~r.pendingAbort
    <3>1. Become(With(Now, i, q))
      BY <1>3, <2>1, <2>3, <2>8 DEF ToolCompletes
    <3>2. QED
      BY <2>1, <2>4, <3>1, FairFacts, WithStays, StaysStep
  <2>9. QED
    BY <2>7, <2>8
<1>4. QED
  BY <1>2, <1>3 DEF abortSession, ModelChanged

\* The finally of the event loop.
LEMMA EventLoopEndsHands ==
  ASSUME Fair, SettledGap = FALSE, NEW i \in Incs, NEW j \in Incs, EventLoopEnds(i, j)
  PROVE  HandStep
<1> DEFINE s == inc[i].session
<1>1. /\ s \in Sessions /\ inc[i].phase \in Aside /\ inc[i].lane \in Lanes
      /\ inc[i].phase # "unused" /\ Calm(Now)
  BY Types, FairFacts, QuietCalm DEF EventLoopEnds, Aside
<1>2. PICK U : U = Unmap(Now, s)
  OBVIOUS
<1>3. Stays(Now, U) /\ U.inc = inc /\ Calm(U)
  BY <1>1, <1>2, FairFacts, UnmapStays
<1>4. PICK P : P = With(U, i, Unused)
  OBVIOUS
<1>5. Stays(Now, P) /\ Calm(P) /\ \A k \in Incs \ {i} : P.inc[k] = inc[k]
  <2>1. Moves(U.inc[i], Unused)
    BY <1>1, <1>3, UnusedRecord DEF Moves, Aside, Continuing
  <2>2. PoolOK(U) /\ Ordered(U)
    BY <1>3 DEF Stays
  <2>3. Stays(U, P) /\ Calm(P)
    BY <1>3, <1>4, <2>1, <2>2, UnusedRecord, WithStays
  <2>4. \A k \in Incs \ {i} : P.inc[k] = inc[k]
    BY <1>3, <1>4, <2>2, UnusedRecord, WithEffect
  <2>5. QED
    BY <1>3, <2>3, <2>4, StaysTrans
<1>6. P.inc[i] = Unused
  BY <1>3, <1>4, UnusedRecord, WithEffect DEF Stays
<1>7. CASE streaming[s] # NoInc /\ inc[i].restart /\ stash[s] # <<>>
  <2>1. PICK q : q = [Restart(s, inc[i].lane) EXCEPT !.drainAfter = TRUE]
    OBVIOUS
  <2>2. q \in Records /\ q.phase = "unused" /\ q.session = s
    BY <1>1, <2>1, RestartRecord
  <2>3. inc[j].phase = "unused" /\ Become(Retain(With(P, j, q), j))
    BY <1>2, <1>4, <1>7, <2>1 DEF EventLoopEnds, Fresh
  <2>4. P.inc[j].phase = "unused"
    BY <1>5, <1>6, <2>3, UnusedRecord
  <2>5. q.session \in Claims(Now)
    BY <1>1, <1>7, <2>2, ClaimOf
  <2>6. QED
    BY <1>5, <2>2, <2>3, <2>4, <2>5, FairFacts, RestartStays, StaysStep
<1>8. CASE ~(streaming[s] # NoInc /\ inc[i].restart /\ stash[s] # <<>>)
  <2>1. PICK Q : Q = DrainIf(P, streaming[s] # NoInc)
    OBVIOUS
  <2>2. Become(Q)
    BY <1>2, <1>4, <1>8, <2>1 DEF EventLoopEnds
  <2>3. Hands(P, Q)
    BY <1>5, <2>1, CalmSettled, DrainIfHands DEF Stays
  <2>4. QED
    BY <1>5, <2>2, <2>3, FairFacts, StaysHands DEF HandStep
<1>9. QED
  BY <1>7, <1>8

\* The steps that ask for a slot.
LEMMA ArrivalStep ==
  ASSUME Fair, PoolInv, SettledGap = FALSE,
         NEW s \in Sessions, NEW m \in Prompts, NEW j \in Incs,
         PromptReplacesDone(s, m, j) \/ PromptColdStarts(s, m, j)
  PROVE  SlotStep
<1>1. PICK q \in Records : q = Start(s, m) /\ q.phase = "unused" /\ q.session = s
  BY StartRecord
<1>2. q.lane \in Lanes
  BY DEF Records
<1>3. /\ inc[j].phase = "unused" /\ Calm(Now) /\ Sound(Now) /\ PoolOK(Now) /\ Ordered(Now)
      /\ Now.inc = inc
  BY QuietCalm, FairFacts DEF PromptReplacesDone, PromptColdStarts, Fresh, Accepts, PoolInv
<1>4. CASE PromptReplacesDone(s, m, j)
  <2>1. PICK R : R = ReleaseSlot(Now, s)
    OBVIOUS
  <2>2. Sound(R) /\ Settled(R) /\ Hands(Now, R)
    BY <1>3, <2>1, ReleaseSlotSound, ReleaseSlotHands
  <2>3. Saturated(R, {}) /\ Drained(Now, R)
    BY <2>1, FairFacts, ReleaseSlotDrained
  <2>4. R.inc[j].phase = "unused"
    BY <1>3, <2>3, FairFacts DEF Drained
  <2>5. Become(reserveRuntimeSessionStart(With(R, j, q), j))
    BY <1>1, <1>4, <2>1 DEF PromptReplacesDone
  <2>6. QED
    BY <1>1, <1>2, <1>3, <2>2, <2>3, <2>4, <2>5, AskStep
<1>5. CASE PromptColdStarts(s, m, j)
  <2>1. Become(reserveRuntimeSessionStart(With(Now, j, q), j))
    BY <1>1, <1>5 DEF PromptColdStarts
  <2>2. Hands(Now, Now)
    BY HandsNobody DEF SameQueue, Same
  <2>3. QED
    BY <1>1, <1>2, <1>3, <2>1, <2>2, FairFacts, CalmSettled, AskStep
<1>6. QED
  BY <1>4, <1>5

\* shutdownAll clears the pool.
LEMMA ShutdownAllStep ==
  ASSUME Fair, SettledGap = FALSE, shutdownAll
  PROVE  SlotStep
<1>1. PICK Q : Q = [streaming |-> streaming', reservations |-> reservations',
                    pendingStarts |-> pendingStarts', inc |-> inc']
  OBVIOUS
<1>2. Become(Q)
  BY <1>1 DEF Become
<1>3. Q.pendingStarts = {} /\ Used(Q) = {}
  BY <1>1 DEF shutdownAll, Used, Mapped
<1>4. Calm(Q)
  <2>1. \A i \in Incs : inc[i].phase \notin Continuing
    BY QuietCalm DEF shutdownAll, Calm, ContinuationsOf, Now
  <2>2. ASSUME NEW i \in Incs PROVE inc'[i].phase \notin Continuing
    <3>1. PICK r \in Records : r = inc[i]
      BY Types, FairFacts
    <3>2. \/ inc'[i] = Unused
          \/ inc'[i] = r
          \/ inc'[i] = shutdownRuntimeStreamingSession(r)
      BY <3>1 DEF shutdownAll
    <3>3. QED
      BY <2>1, <3>1, <3>2, UnusedRecord, ShutdownRecord DEF Continuing
  <2>3. QED
    BY <1>1, <2>2 DEF Calm, ContinuationsOf
<1>5. Claims(Now)' = {} /\ QueueOf(Now)' = QueueOf(Q)
  BY <1>2, <1>3, <1>4, CalmSettled, BecomeMapped
<1>6. QueueOf(Q) \in [{} -> Slots!Requests]
  BY <1>3 DEF QueueOf
<1>7. Slots!Clear({})
  BY <1>5, <1>6 DEF Slots!Clear
<1>8. QED
  BY <1>7 DEF SlotStep, Slots!Next

\* Every step of the dispatcher is one of SlotPool, or none.
LEMMA StepToSlotPool ==
  ASSUME SettledGap = FALSE, Fair, PoolInv, [Next]_vars
  PROVE  SlotStep
<1>1. Fair' /\ PoolInv'
  BY FairInductive, PoolInvStep
<1>2. CASE HandStep
  BY <1>1, <1>2, HandsServe
<1>3. CASE PromptStep
  <2>1. ASSUME NEW s \in Sessions, NEW m \in Prompts, PromptSteers(s, m) \/ PromptStashed(s, m)
        PROVE  HandStep
    BY <2>1, IdleHands DEF PromptSteers, PromptStashed
  <2>2. ASSUME NEW s \in Sessions, NEW m \in Prompts, PromptPushed(s, m)
        PROVE  HandStep
    BY <2>2, InertHands DEF InertStep
  <2>3. ASSUME NEW s \in Sessions, NEW m \in Prompts, NEW j \in Incs,
               PromptRestarts(s, m, j) \/ PromptChangesModel(s, m, j)
        PROVE  HandStep
    BY <2>3, TakeOverHands
  <2>4. QED
    BY <1>2, <1>3, <2>1, <2>2, <2>3, ArrivalStep DEF PromptStep
<1>4. CASE SteerStep
  <2>1. ASSUME NEW m \in Prompts, SteerAccepted(m)
        PROVE  HandStep
    BY <2>1, IdleHands DEF SteerAccepted
  <2>2. QED
    BY <1>2, <1>4, <2>1, InertHands DEF SteerStep, InertStep
<1>5. CASE StartStep
  BY <1>1, <1>2, <1>5, ContinuesHands, BuildHands DEF StartStep
<1>6. CASE RuntimeStep
  BY <1>2, <1>6, InertHands, AbortHands, EventLoopEndsHands DEF RuntimeStep, InertStep
<1>7. CASE ControlStep
  BY <1>2, <1>7, InertHands, AbortHands, TakeOverHands, ShutdownAllStep DEF ControlStep, InertStep
<1>8. CASE UNCHANGED vars
  <2>1. UNCHANGED pool
    BY <1>8 DEF vars, pool
  <2>2. QED
    BY <1>2, <2>1, IdleHands
<1>9. QED
  BY <1>3, <1>4, <1>5, <1>6, <1>7, <1>8 DEF Next

\* The initial state is that of an empty pool.
LEMMA InitToSlotPool == Init => Slots!Init
<1> SUFFICES ASSUME Init PROVE Slots!Init
  OBVIOUS
<1>1. TypeOK /\ pendingStarts = {} /\ \A i \in Incs : inc[i].phase = "unused"
  BY TypeInit, UnusedRecord DEF Init
<1>2. Used(Now) = {}
  BY DEF Init, Used, Mapped, Now
<1>3. Calm(Now)
  BY <1>1 DEF Calm, ContinuationsOf, Continuing, Now
<1>4. Claims(Now) = {}
  BY <1>2, <1>3, CalmSettled
<1>5. QueueOf(Now) \in [{} -> Slots!Requests]
  BY <1>1 DEF QueueOf, Now
<1>6. QED
  BY <1>4, <1>5 DEF Slots!Init

\* Without the gap the dispatcher implements SlotPool, for any number of sessions,
\* starts, prompts and slots: whatever the order of starts, failures, aborts,
\* restarts and ends of runtimes (handlePromptImmediate, startStreamingSession,
\* abortSession, drainPendingStarts of session-dispatcher.ts and the finally of
\* the event loop), a step gives slots back, hands them at once to the starts whose
\* turn it is, and grants at most one more, or lets it wait as the last.
THEOREM ImplementsTheSlotPool ==
  ASSUME SettledGap = FALSE
  PROVE  Spec => ImplementsSlotPool
<1>1. Fair /\ PoolInv /\ [Next]_vars => Fair' /\ PoolInv' /\ [Slots!Next]_Slots!vars
  BY FairInductive, PoolInvStep, StepToSlotPool DEF SlotStep
<1>2. Init => Fair /\ PoolInv /\ Slots!Init
  BY FairInit, PoolInvInit, InitToSlotPool
<1>3. QED
  BY <1>1, <1>2, PTL DEF Spec, ImplementsSlotPool, Slots!Spec

==============================================================================
