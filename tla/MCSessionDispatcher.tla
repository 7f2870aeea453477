------------------------- MODULE MCSessionDispatcher -------------------------
(* SessionDispatcher on small sets.  The members of Sessions, of Incs and of  *)
(* each lane's prompts are interchangeable: no definition tells them apart.   *)
EXTENDS SessionDispatcher, SequencesExt

Symmetry == Permutations(Sessions) \cup Permutations(Incs)
            \cup Permutations(Background) \cup Permutations(Prompts \ Background)

\* Cold starts only: three sessions in both lanes queue for two slots.
LanesNext ==
  \/ \E s \in Sessions, m \in Prompts, j \in Incs : PromptColdStarts(s, m, j)
  \/ StartStep
  \/ \E s \in Sessions : abortSession(s)
  \/ \E i \in Incs : EventLoopEnds(i, i)

LanesSpec == Init /\ [][LanesNext]_vars

\* drainPendingStarts as the code has it: a loop that takes the first entry with
\* a slot out of an array, until there is none.
RECURSIVE DrainLoop(_, _)
DrainLoop(P, queue) ==
  LET free == {n \in DOMAIN queue : HasSlot(P, P.inc[queue[n]].lane)}
      next == queue[CHOOSE n \in free : \A k \in free : n <= k]
  IN IF free = {} THEN P
     ELSE DrainLoop([P EXCEPT !.reservations = @ \cup {P.inc[next].session},
                              !.pendingStarts = @ \ {next}],
                    SelectSeq(queue, LAMBDA i : i # next))

InOrder(P) == SortSeq(SetToSeq(P.pendingStarts), LAMBDA i, j : i \in P.inc[j].ahead)

Without(X) == [Now EXCEPT !.reservations = @ \ X,
                          !.streaming = [s \in Sessions |-> IF s \in X THEN NoInc ELSE @[s]]]

\* Whatever slots are given back at once, the definition of drainPendingStarts in
\* SessionDispatcher, which takes no steps, admits the starts that findIndex,
\* splice and resolve admit one after the other.
DrainIsTheLoop ==
  \A X \in SUBSET Sessions :
    LET P      == Without(X)
        closed == drainPendingStarts(P)
        loop   == DrainLoop(P, InOrder(P))
    IN /\ closed.pendingStarts = loop.pendingStarts
       /\ closed.reservations = loop.reservations

==============================================================================
