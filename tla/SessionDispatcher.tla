-------------------------- MODULE SessionDispatcher --------------------------
(***************************************************************************)
(* RuntimeSessionDispatcher (src/src/runtime/session-dispatcher.ts) with   *)
(* the launcher, the end of the event loop and the stash it shares with    *)
(* them: how a prompt finds, starts, restarts or waits for the runtime of  *)
(* its session, how the pool of runtimes is bounded, and what becomes of   *)
(* the queued prompts when a runtime is aborted, restarted or fails.       *)
(*                                                                         *)
(* An incarnation is one call of startStreamingSession and the runtime it  *)
(* creates: a session NAME may have several, and the code's maps are keyed *)
(* by name.  An action is the code between two awaits.  The turns of a     *)
(* runtime are abstract here (DeliveryQueue has them).                     *)
(***************************************************************************)
EXTENDS Integers, Sequences, FiniteSets

CONSTANTS
  Sessions,    \* session names
  Incs,        \* identities for incarnations, reused once ended
  Prompts,     \* the prompts that may arrive, each once
  Background,  \* the prompts of the background lane
  NoInc,       \* no entry in streamingSessions
  NoSession,   \* the session of an unused incarnation
  MaxSessions, \* maxConcurrentSessions
  Reserved,    \* interactiveReservedSessions
  SettledGap   \* TRUE: another handler may run between an await of a promise
               \* that is already settled and its continuation; FALSE: the
               \* microtask queue runs the continuation first

ASSUME SessionsAssumption == IsFiniteSet(Sessions) /\ NoSession \notin Sessions
ASSUME PromptsAssumption == Background \subseteq Prompts
ASSUME IncsAssumption == IsFiniteSet(Incs) /\ NoInc \notin Incs
\* resolveRuntimeInteractiveReservedSlots caps the reserve below the maximum
ASSUME LimitsAssumption == /\ MaxSessions \in Nat \ {0}
                           /\ Reserved \in 0..(MaxSessions - 1)
ASSUME GapAssumption == SettledGap \in BOOLEAN

VARIABLES
  streaming,             \* streamingSessions: session name -> incarnation
  reservations,          \* startReservations
  pendingStarts,         \* the starts waiting for a slot; inc[i].ahead orders them
  pendingStartSessions,
  startingSessions,
  stash,                 \* stashedMessages
  inc,                   \* the incarnations
  awaiting,              \* prompt -> incarnation whose control() it is awaiting
  sent,                  \* prompts accepted so far
  stopped                \* shutdownAll has run

pool == <<streaming, reservations, pendingStarts, inc>>
vars == <<streaming, reservations, pendingStarts, pendingStartSessions,
          startingSessions, stash, inc, awaiting, sent, stopped>>

Lanes == {"interactive", "background"}

classifyRuntimeSessionStartLane(m) ==
  IF m \in Background THEN "background" ELSE "interactive"

\* retaining: awaiting applySessionModelChange; waiting: in pendingStarts;
\* admitted, reserved: the slot is reserved, the continuation not yet run;
\* building: in startRuntimeSession; failing: in its catch; live: in the event
\* loop; closing: the loop has broken out and awaits the provider's return()
Phases == {"unused", "retaining", "waiting", "admitted", "reserved",
           "building", "failing", "live", "closing"}

Unused == [session |-> NoSession, lane |-> "interactive", phase |-> "unused",
           ahead |-> {}, done |-> FALSE, aborted |-> FALSE, pending |-> <<>>,
           pulled |-> FALSE, unsafe |-> FALSE, pendingAbort |-> FALSE,
           taken |-> "none", restart |-> FALSE, drainAfter |-> FALSE]

Start(s, m) ==
  [Unused EXCEPT !.session = s, !.pending = <<m>>,
                 !.lane = classifyRuntimeSessionStartLane(m)]

Restart(s, lane) == [Unused EXCEPT !.session = s, !.lane = lane]

------------------------------------------------------------------------------
(* The pool: a record of the four variables that its helpers change         *)

Now == [streaming |-> streaming, reservations |-> reservations,
        pendingStarts |-> pendingStarts, inc |-> inc]

Become(P) == /\ streaming' = P.streaming
             /\ reservations' = P.reservations
             /\ pendingStarts' = P.pendingStarts
             /\ inc' = P.inc

Mapped(P) == {s \in Sessions : P.streaming[s] # NoInc}
Used(P) == Mapped(P) \cup P.reservations

Limit(lane) == IF lane = "background" THEN MaxSessions - Reserved ELSE MaxSessions

HasSlotOffByOne(P, lane) == Cardinality(Used(P)) <= Limit(lane)

HasSlot(P, lane) == Cardinality(Used(P)) < Limit(lane)

SessionsOf(P, X) == {P.inc[i].session : i \in X}

InteractiveOf(P, X) == {i \in X : P.inc[i].lane = "interactive"}

DrainedFirstNewest(P) ==
  {i \in P.pendingStarts :
     Cardinality(Used(P) \cup SessionsOf(P, {k \in P.pendingStarts : i \in P.inc[k].ahead}))
       < Limit("background")}

\* The loop takes the first start that has a slot until none has.  While the
\* background limit is not reached that is the oldest; then only interactive
\* starts are taken, oldest first.
DrainedFirst(P) ==
  {i \in P.pendingStarts :
     Cardinality(Used(P) \cup SessionsOf(P, P.inc[i].ahead)) < Limit("background")}

DrainedLaterNone(P) == {}

DrainedLater(P) ==
  LET first == DrainedFirst(P)
      used  == Used(P) \cup SessionsOf(P, first)
  IN {i \in InteractiveOf(P, P.pendingStarts \ first) :
        Cardinality(used \cup SessionsOf(P, InteractiveOf(P, P.inc[i].ahead \ first)))
          < Limit("interactive")}

AdmitKeepsEntry(P, A) ==
  [P EXCEPT !.reservations = @ \cup SessionsOf(P, A),
            !.inc = [i \in Incs |-> IF i \in A THEN [P.inc[i] EXCEPT !.phase = "admitted"]
                                    ELSE P.inc[i]]]

Admit(P, A) ==
  [streaming |-> P.streaming,
   reservations |-> P.reservations \cup SessionsOf(P, A),
   pendingStarts |-> P.pendingStarts \ A,
   inc |-> [i \in Incs |->
              IF i \in A THEN [P.inc[i] EXCEPT !.phase = "admitted", !.ahead = {}]
              ELSE [P.inc[i] EXCEPT !.ahead = @ \ A]]]

drainPendingStarts(P) == Admit(P, DrainedFirst(P) \cup DrainedLater(P))

DrainIf(P, cond) == IF cond THEN drainPendingStarts(P) ELSE P

Unmap(P, s) == [P EXCEPT !.streaming[s] = NoInc]

With(P, i, r) == [P EXCEPT !.inc[i] = r]

Reserve(P, s) == [P EXCEPT !.reservations = @ \cup {s}]

Unreserve(P, s) == [P EXCEPT !.reservations = @ \ {s}]

ReleaseSlotNoDrain(P, s) == Unmap(P, s)

\* releaseRuntimeSessionSlot and every streamingSessions.delete(name) followed
\* by a drain: the entry goes by NAME, whichever incarnation it maps to
ReleaseSlot(P, s) == DrainIf(Unmap(P, s), P.streaming[s] # NoInc)

releaseUnlessMapped(P, s) ==
  IF P.streaming[s] # NoInc THEN P ELSE DrainIf(Unreserve(P, s), s \in P.reservations)

releaseRuntimeSessionStartReservation(P, s) ==
  DrainIf(Unreserve(P, s), s \in P.reservations /\ P.streaming[s] = NoInc)

Retain(P, j) ==
  With(Reserve(P, P.inc[j].session), j, [P.inc[j] EXCEPT !.phase = "reserved"])

Wait(P, j) ==
  [With(P, j, [P.inc[j] EXCEPT !.phase = "waiting", !.ahead = P.pendingStarts])
     EXCEPT !.pendingStarts = @ \cup {j}]

reserveRuntimeSessionStart(P, j) ==
  IF P.inc[j].session \in P.reservations \/ HasSlot(P, P.inc[j].lane)
    THEN Retain(P, j)
    ELSE Wait(P, j)

------------------------------------------------------------------------------
(* Runtimes                                                                 *)

shutdownRuntimeStreamingSession(r) == [r EXCEPT !.done = TRUE, !.aborted = TRUE]

\* Map.set: an existing stash of the session is replaced
stashPendingRuntimeMessages(r) ==
  IF r.pending = <<>> THEN stash ELSE [stash EXCEPT ![r.session] = r.pending]

Fresh(i) == inc[i].phase = "unused" /\ \A m \in Prompts : awaiting[m] # i

\* Continuations of settled awaits that have not run yet
Continuations == {i \in Incs : inc[i].phase \in {"retaining", "admitted", "reserved"}}
Quiet == SettledGap \/ Continuations = {}

Accepts(m) == m \in Prompts \ sent /\ ~stopped /\ Quiet

Init ==
  /\ streaming = [s \in Sessions |-> NoInc]
  /\ reservations = {} /\ pendingStarts = {}
  /\ pendingStartSessions = {} /\ startingSessions = {}
  /\ stash = [s \in Sessions |-> <<>>]
  /\ inc = [i \in Incs |-> Unused]
  /\ awaiting = [m \in Prompts |-> NoInc]
  /\ sent = {}
  /\ stopped = FALSE

------------------------------------------------------------------------------
(* handlePromptImmediate, one action for each way a prompt goes             *)

\* A live runtime takes the prompt into its queue.
PromptPushed(s, m) ==
  /\ Accepts(m) /\ streaming[s] # NoInc /\ ~inc[streaming[s]].done
  /\ sent' = sent \cup {m}
  /\ inc' = [inc EXCEPT ![streaming[s]].pending = Append(@, m)]
  /\ UNCHANGED <<streaming, reservations, pendingStarts, pendingStartSessions,
                 startingSessions, stash, awaiting, stopped>>

\* The runtime takes steering (or a direct model switch) first: the prompt
\* awaits its answer, and then uses the session object it found before.
PromptSteers(s, m) ==
  /\ Accepts(m) /\ streaming[s] # NoInc
  /\ ~inc[streaming[s]].done /\ inc[streaming[s]].phase = "live"
  /\ sent' = sent \cup {m}
  /\ awaiting' = [awaiting EXCEPT ![m] = streaming[s]]
  /\ UNCHANGED <<pool, pendingStartSessions, startingSessions, stash, stopped>>

SteerAccepted(m) ==
  /\ Quiet /\ awaiting[m] # NoInc
  /\ awaiting' = [awaiting EXCEPT ![m] = NoInc]
  /\ UNCHANGED <<pool, pendingStartSessions, startingSessions, stash, sent, stopped>>

SteerFallsBack(m) ==
  /\ Quiet /\ awaiting[m] # NoInc
  /\ awaiting' = [awaiting EXCEPT ![m] = NoInc]
  /\ inc' = [inc EXCEPT ![awaiting[m]].pending =
                IF inc[awaiting[m]].phase = "unused" THEN @ ELSE Append(@, m)]
  /\ UNCHANGED <<streaming, reservations, pendingStarts, pendingStartSessions,
                 startingSessions, stash, sent, stopped>>

\* Another agent, provider or task setting: the runtime is shut down, its queue
\* stashed, and the slot kept for the next runtime of the session.
PromptRestarts(s, m, j) ==
  /\ Accepts(m) /\ streaming[s] # NoInc /\ ~inc[streaming[s]].done /\ Fresh(j)
  /\ LET old == inc[streaming[s]]
         P   == With(With(Unmap(Now, s), streaming[s], shutdownRuntimeStreamingSession(old)),
                     j, Start(s, m))
     IN /\ Become(Retain(P, j))
        /\ stash' = stashPendingRuntimeMessages(old)
  /\ sent' = sent \cup {m}
  /\ pendingStartSessions' = pendingStartSessions \cup {s}
  /\ UNCHANGED <<startingSessions, awaiting, stopped>>

\* Another model: as above, but the start comes after an await.
PromptChangesModel(s, m, j) ==
  /\ Accepts(m) /\ streaming[s] # NoInc /\ ~inc[streaming[s]].done /\ Fresh(j)
  /\ LET old == inc[streaming[s]]
     IN /\ Become(With(With(Unmap(Now, s), streaming[s], shutdownRuntimeStreamingSession(old)),
                       j, [Start(s, m) EXCEPT !.phase = "retaining"]))
        /\ stash' = stashPendingRuntimeMessages(old)
  /\ sent' = sent \cup {m}
  /\ UNCHANGED <<pendingStartSessions, startingSessions, awaiting, stopped>>

ModelChangeContinues(j) ==
  /\ inc[j].phase = "retaining"
  /\ Become(Retain(Now, j))
  /\ pendingStartSessions' = pendingStartSessions \cup {inc[j].session}
  /\ UNCHANGED <<startingSessions, stash, awaiting, sent, stopped>>

\* An entry that is done is released, and the session starts again at once.
PromptReplacesDone(s, m, j) ==
  /\ Accepts(m) /\ streaming[s] # NoInc /\ inc[streaming[s]].done /\ Fresh(j)
  /\ Become(reserveRuntimeSessionStart(
              With(ReleaseSlot(Now, s), j, Start(s, m)), j))
  /\ sent' = sent \cup {m}
  /\ pendingStartSessions' = pendingStartSessions \cup {s}
  /\ UNCHANGED <<startingSessions, stash, awaiting, stopped>>

\* A start of the session waits for a slot or is under way.
PromptStashed(s, m) ==
  /\ Accepts(m) /\ streaming[s] = NoInc
  /\ s \in pendingStartSessions \cup startingSessions
  /\ sent' = sent \cup {m}
  /\ stash' = [stash EXCEPT ![s] = Append(@, m)]
  /\ UNCHANGED <<pool, pendingStartSessions, startingSessions, awaiting, stopped>>

PromptColdStarts(s, m, j) ==
  /\ Accepts(m) /\ streaming[s] = NoInc /\ Fresh(j)
  /\ s \notin pendingStartSessions \cup startingSessions
  /\ Become(reserveRuntimeSessionStart(With(Now, j, Start(s, m)), j))
  /\ sent' = sent \cup {m}
  /\ pendingStartSessions' = pendingStartSessions \cup {s}
  /\ UNCHANGED <<startingSessions, stash, awaiting, stopped>>

------------------------------------------------------------------------------
(* startStreamingSession after its reservation, and startRuntimeSession     *)

\* The continuation of reserveRuntimeSessionStart runs up to the first await of
\* the launcher: the runtime is in the map, and starting.
StartContinues(j) ==
  /\ inc[j].phase \in {"admitted", "reserved"}
  /\ LET s == inc[j].session
     IN /\ streaming' = [streaming EXCEPT ![s] = j]
        /\ reservations' = IF inc[j].phase = "admitted" THEN reservations \cup {s}
                           ELSE reservations
        /\ pendingStartSessions' = pendingStartSessions \ {s}
        /\ startingSessions' = startingSessions \cup {s}
  /\ inc' = [inc EXCEPT ![j].phase = "building"]
  /\ UNCHANGED <<pendingStarts, stash, awaiting, sent, stopped>>

\* The finally of startStreamingSession; a restart by an event loop drains too.
Finished(P, j) ==
  DrainIf(releaseRuntimeSessionStartReservation(P, inc[j].session), inc[j].drainAfter)

FinallyKeepsStarting(s) ==
  /\ startingSessions' = startingSessions
  /\ pendingStartSessions' = pendingStartSessions \ {s}

FinallySessions(s) ==
  /\ startingSessions' = startingSessions \ {s}
  /\ pendingStartSessions' = pendingStartSessions \ {s}

BuildSucceeds(j) ==
  /\ Quiet /\ inc[j].phase = "building"
  /\ Become(Finished(With(Now, j, [inc[j] EXCEPT !.phase = "live", !.drainAfter = FALSE]), j))
  /\ FinallySessions(inc[j].session)
  /\ UNCHANGED <<stash, awaiting, sent, stopped>>

\* The catch of startRuntimeSession: the entry of the name goes, the queue of
\* the runtime with it, and the waiting starts are drained in any case.
BuildFails(j) ==
  /\ Quiet /\ inc[j].phase = "building"
  /\ LET failed == [shutdownRuntimeStreamingSession(inc[j]) EXCEPT
                     !.phase = "failing", !.pending = <<>>]
     IN Become(drainPendingStarts(Unmap(With(Now, j, failed), inc[j].session)))
  /\ UNCHANGED <<pendingStartSessions, startingSessions, stash, awaiting, sent, stopped>>

FailureReported(j) ==
  /\ Quiet /\ inc[j].phase = "failing"
  /\ Become(Finished(With(Now, j, Unused), j))
  /\ FinallySessions(inc[j].session)
  /\ UNCHANGED <<stash, awaiting, sent, stopped>>

------------------------------------------------------------------------------
(* The runtime: its generator and event loop, as far as the pool sees them  *)

\* The first pull of the message generator takes the stash of the NAME, before
\* it looks at session.done.
FirstPull(i) ==
  /\ Quiet /\ inc[i].phase = "live" /\ ~inc[i].pulled
  /\ inc' = [inc EXCEPT ![i].pulled = TRUE, ![i].pending = stash[inc[i].session] \o @]
  /\ stash' = [stash EXCEPT ![inc[i].session] = <<>>]
  /\ UNCHANGED <<streaming, reservations, pendingStarts, pendingStartSessions,
                 startingSessions, awaiting, sent, stopped>>

Running(i) == /\ Quiet /\ inc[i].phase = "live" /\ inc[i].pulled
              /\ ~inc[i].done /\ inc[i].taken = "none"

RunStep(i, r) ==
  /\ inc' = [inc EXCEPT ![i] = r]
  /\ UNCHANGED <<streaming, reservations, pendingStarts, pendingStartSessions,
                 startingSessions, awaiting, sent, stopped>>

\* A turn ends (complete, or failed beyond recovery): the oldest k queued
\* prompts were its input.
TurnEnds(i, k) ==
  /\ Running(i) /\ ~inc[i].aborted
  /\ k \in 1..Len(inc[i].pending)
  /\ RunStep(i, [inc[i] EXCEPT !.pending = SubSeq(@, k + 1, Len(@)),
                               !.unsafe = FALSE, !.pendingAbort = FALSE])
  /\ UNCHANGED stash

UnsafeToolStarts(i) ==
  /\ Running(i) /\ ~inc[i].aborted /\ inc[i].pending # <<>> /\ ~inc[i].unsafe
  /\ RunStep(i, [inc[i] EXCEPT !.unsafe = TRUE])
  /\ UNCHANGED stash

\* The loop takes an event while the session is not done; its handler changes
\* the session only after an await, done or not.
TakesEvent(i, kind) ==
  /\ Running(i)
  /\ kind = "toolEnd" => inc[i].unsafe
  /\ RunStep(i, [inc[i] EXCEPT !.taken = kind])
  /\ UNCHANGED stash

\* tool.completed, with the abort that waited for it
ToolCompletes(i) ==
  /\ Quiet /\ inc[i].phase = "live" /\ inc[i].taken = "toolEnd"
  /\ LET r == [inc[i] EXCEPT !.taken = "none", !.unsafe = FALSE]
     IN IF inc[i].pendingAbort
          THEN /\ Become(ReleaseSlot(With(Now, i, [r EXCEPT !.aborted = TRUE]), r.session))
               /\ stash' = stashPendingRuntimeMessages(r)
          ELSE /\ Become(With(Now, i, r))
               /\ UNCHANGED stash
  /\ UNCHANGED <<pendingStartSessions, startingSessions, awaiting, sent, stopped>>

\* turn.failed of the recoverable kind: stash, and end this runtime
FailsRecoverably(i) ==
  /\ Quiet /\ inc[i].phase = "live" /\ inc[i].taken = "fail"
  /\ RunStep(i, [inc[i] EXCEPT !.taken = "none", !.unsafe = FALSE, !.pendingAbort = FALSE,
                               !.restart = TRUE, !.done = TRUE, !.phase = "closing"])
  /\ stash' = stashPendingRuntimeMessages(inc[i])

\* The stuck-tool and provider-inactivity timers only abort the controller.
WatchdogAborts(i) ==
  /\ Quiet /\ inc[i].phase = "live" /\ inc[i].pulled /\ ~inc[i].aborted
  /\ RunStep(i, [inc[i] EXCEPT !.aborted = TRUE])
  /\ UNCHANGED stash

\* The finally of the event loop, once the event stream has ended: the entry of
\* the NAME goes; then the stash is restarted or the waiting starts drained.
EventLoopEnds(i, j) ==
  /\ Quiet /\ inc[i].phase \in {"live", "closing"} /\ inc[i].taken = "none"
  /\ LET s == inc[i].session
         P == With(Unmap(Now, s), i, Unused)
     IN IF streaming[s] # NoInc /\ inc[i].restart /\ stash[s] # <<>>
          THEN /\ Fresh(j)
               /\ Become(Retain(With(P, j, [Restart(s, inc[i].lane) EXCEPT
                                              !.drainAfter = TRUE]), j))
               /\ pendingStartSessions' = pendingStartSessions \cup {s}
          ELSE /\ j = i
               /\ Become(DrainIf(P, streaming[s] # NoInc))
               /\ UNCHANGED pendingStartSessions
  /\ UNCHANGED <<startingSessions, stash, awaiting, sent, stopped>>

------------------------------------------------------------------------------
(* Aborts, model changes, recovery and shutdown                             *)

ShutDownAndRelease(s) ==
  /\ Become(ReleaseSlot(With(Now, streaming[s], shutdownRuntimeStreamingSession(inc[streaming[s]])), s))
  /\ stash' = stashPendingRuntimeMessages(inc[streaming[s]])
  /\ UNCHANGED <<pendingStartSessions, startingSessions, awaiting, sent, stopped>>

AbortDeferred(s) ==
  /\ Quiet /\ streaming[s] # NoInc /\ inc[streaming[s]].unsafe
  /\ RunStep(streaming[s], [inc[streaming[s]] EXCEPT !.pendingAbort = TRUE])
  /\ UNCHANGED stash

abortSession(s) ==
  /\ Quiet /\ streaming[s] # NoInc /\ ~inc[streaming[s]].unsafe
  /\ ShutDownAndRelease(s)

\* applySessionModelChange as the model-changed event calls it
ModelChanged(s) ==
  /\ Quiet /\ streaming[s] # NoInc /\ ~inc[streaming[s]].done
  /\ ShutDownAndRelease(s)

\* The timer of a queue nobody pulled: restart the runtime over its stash.
recoverIdleGapSession(s, j) ==
  /\ Quiet /\ streaming[s] # NoInc /\ Fresh(j)
  /\ LET i == streaming[s]
     IN /\ inc[i].phase = "live" /\ ~inc[i].done /\ ~inc[i].unsafe /\ inc[i].pending # <<>>
        /\ Become(Retain(With(With(Unmap(Now, s), i, shutdownRuntimeStreamingSession(inc[i])),
                              j, Restart(s, inc[i].lane)), j))
        /\ stash' = stashPendingRuntimeMessages(inc[i])
  /\ pendingStartSessions' = pendingStartSessions \cup {s}
  /\ UNCHANGED <<startingSessions, awaiting, sent, stopped>>

\* shutdownAll: waiting starts are cancelled, every runtime in the map aborted
shutdownAll ==
  /\ Quiet /\ ~stopped
  /\ streaming' = [s \in Sessions |-> NoInc]
  /\ reservations' = {} /\ pendingStarts' = {}
  /\ pendingStartSessions' = {} /\ startingSessions' = {}
  /\ inc' = [i \in Incs |->
               IF i \in pendingStarts THEN Unused
               ELSE IF \E s \in Sessions : streaming[s] = i
                 THEN shutdownRuntimeStreamingSession(inc[i])
               ELSE inc[i]]
  /\ stopped' = TRUE
  /\ UNCHANGED <<stash, awaiting, sent>>

------------------------------------------------------------------------------

PromptStep ==
  \E s \in Sessions, m \in Prompts :
    \/ PromptPushed(s, m)
    \/ PromptSteers(s, m)
    \/ PromptStashed(s, m)
    \/ \E j \in Incs :
         \/ PromptRestarts(s, m, j)
         \/ PromptChangesModel(s, m, j)
         \/ PromptReplacesDone(s, m, j)
         \/ PromptColdStarts(s, m, j)

SteerStep == \E m \in Prompts : SteerAccepted(m) \/ SteerFallsBack(m)

StartStep ==
  \E j \in Incs : \/ ModelChangeContinues(j)
                  \/ StartContinues(j)
                  \/ BuildSucceeds(j)
                  \/ BuildFails(j)
                  \/ FailureReported(j)

RuntimeStep ==
  \E i \in Incs : \/ FirstPull(i)
                  \/ \E k \in 1..Len(inc[i].pending) : TurnEnds(i, k)
                  \/ UnsafeToolStarts(i)
                  \/ \E kind \in {"toolEnd", "fail"} : TakesEvent(i, kind)
                  \/ ToolCompletes(i)
                  \/ FailsRecoverably(i)
                  \/ WatchdogAborts(i)
                  \/ \E j \in Incs : EventLoopEnds(i, j)

ControlStep ==
  \/ \E s \in Sessions : \/ AbortDeferred(s)
                         \/ abortSession(s)
                         \/ ModelChanged(s)
                         \/ \E j \in Incs : recoverIdleGapSession(s, j)
  \/ shutdownAll

Next == PromptStep \/ SteerStep \/ StartStep \/ RuntimeStep \/ ControlStep

Spec == Init /\ [][Next]_vars

------------------------------------------------------------------------------
(* Properties                                                               *)

Records ==
  [session : Sessions \cup {NoSession}, lane : Lanes, phase : Phases,
   ahead : SUBSET Incs, done : BOOLEAN, aborted : BOOLEAN, pending : Seq(Prompts),
   pulled : BOOLEAN, unsafe : BOOLEAN, pendingAbort : BOOLEAN,
   taken : {"none", "toolEnd", "fail"}, restart : BOOLEAN, drainAfter : BOOLEAN]

\* The maps and queues of the dispatcher hold what they are declared to hold;
\* pendingStarts is exactly the set of starts that wait, and an incarnation
\* has a session from its first action to its last.
TypeOK ==
  /\ streaming \in [Sessions -> Incs \cup {NoInc}]
  /\ reservations \subseteq Sessions
  /\ pendingStartSessions \subseteq Sessions /\ startingSessions \subseteq Sessions
  /\ stash \in [Sessions -> Seq(Prompts)]
  /\ inc \in [Incs -> Records]
  /\ awaiting \in [Prompts -> Incs \cup {NoInc}]
  /\ sent \subseteq Prompts
  /\ stopped \in BOOLEAN
  /\ pendingStarts = {i \in Incs : inc[i].phase = "waiting"}
  /\ \A i \in Incs : inc[i].phase # "unused" => inc[i].session \in Sessions

\* The pool never counts more sessions than its maximum: the check made when a
\* start is reserved, the slot kept across a restart and the slots handed on by
\* drainPendingStarts never add up to more, whatever order starts, failures,
\* aborts and restarts of the same name come in.
PoolBound == Cardinality(Used(Now)) <= MaxSessions

\* No slot is lost: once the continuations have run, no start waits for a slot
\* that is free for its lane.  Every path that gives a slot back (abort, model
\* change, failed build, end of the event loop, finally of the start) drains.
WorkConserving ==
  Continuations = {} => \A i \in pendingStarts : ~HasSlot(Now, inc[i].lane)

\* No reservation leaks: a reserved name has a start in flight that will
\* release it, although two starts of one name share one reservation.
ReservationsOwned ==
  \A s \in reservations : \E i \in Incs :
    inc[i].session = s /\ inc[i].phase \in {"admitted", "reserved", "building", "failing"}

\* A name in pendingStartSessions or startingSessions, where prompts are only
\* stashed, has a start in flight that will take the name out again.
NoStaleStartIndex ==
  /\ \A s \in pendingStartSessions : \E i \in Incs :
       inc[i].session = s /\ inc[i].phase \in {"waiting", "admitted", "reserved"}
  /\ \A s \in startingSessions : \E i \in Incs :
       inc[i].session = s /\ inc[i].phase \in {"building", "failing"}

Admitted(i) == inc[i].phase = "waiting" /\ inc'[i].phase = "admitted"

\* Waiting starts are admitted in order within a lane, and a background start
\* never overtakes an interactive one: drainPendingStarts takes the first start
\* that has a slot.
AdmittedInOrder ==
  [][\A i \in Incs : Admitted(i) =>
       \A k \in inc[i].ahead :
         inc[k].lane \in {"interactive", inc[i].lane} => Admitted(k)]_vars

\* What is claimed of the pool: the slots in use, and those that the sessions of
\* continuations are owed.
Continuing == {"retaining", "admitted", "reserved"}

ContinuationsOf(P) == {i \in Incs : P.inc[i].phase \in Continuing}

Claims(P) == Used(P) \cup SessionsOf(P, ContinuationsOf(P))

QueueOf(P) == [i \in P.pendingStarts |->
                 [name |-> P.inc[i].session, lane |-> P.inc[i].lane, before |-> P.inc[i].ahead]]

\* Without the gap the dispatcher is a counting semaphore with two lanes and one
\* queue: every start, failure, abort, restart and end of a runtime is a step in
\* which slots are given back, handed to those whose turn it is, and at most one
\* more is asked for; no start is left waiting beside a slot of its lane.
Slots == INSTANCE SlotPool WITH
  Names <- Sessions, Starts <- Incs, MaxSlots <- MaxSessions,
  held <- Claims(Now), queue <- QueueOf(Now)

ImplementsSlotPool == Slots!Spec

==============================================================================
