------------------------------ MODULE SlotPool -------------------------------
(***************************************************************************)
(* What the pool of runtimes promises to those who ask it for a slot: it   *)
(* is a counting semaphore with two lanes and one queue.  A name holds a   *)
(* slot at most once.  Interactive starts may take every slot, background  *)
(* starts leave a reserve.  A start that is refused waits behind those     *)
(* that already do.  A slot that is given back goes in the same step to    *)
(* the starts whose turn it is, and no start is left waiting beside a slot *)
(* that its lane may take.  SessionDispatcher implements this module where *)
(* SettledGap = FALSE.                                                     *)
(***************************************************************************)
EXTENDS Integers, FiniteSets

CONSTANTS Names, Starts, MaxSlots, Reserved

VARIABLES
  held,   \* the names that have a slot, or have been promised one
  queue   \* the starts that wait: name, lane, and the starts that came before

vars == <<held, queue>>

Lanes == {"interactive", "background"}
Requests == [name : Names, lane : Lanes, before : SUBSET Starts]

Share(lane) == IF lane = "background" THEN MaxSlots - Reserved ELSE MaxSlots
Free(taken, lane) == Cardinality(taken) < Share(lane)

Waiting == DOMAIN queue
NamesOf(S) == {queue[i].name : i \in S}
Behind(S) == [i \in Waiting \ S |-> [queue[i] EXCEPT !.before = @ \ S]]

\* The starts of S may be served together when the names of kept keep their
\* slots: no start overtakes one of its lane or an interactive one, a background
\* start finds the reserve free when its turn comes, there are slots for all, and
\* nobody whose lane has a slot is left out.
Turn(kept, S) ==
  /\ \A i \in S : \A k \in queue[i].before :
       queue[k].lane \in {"interactive", queue[i].lane} => k \in S
  /\ \A i \in S : queue[i].lane = "background" =>
       Free(kept \cup NamesOf(queue[i].before), "background")
  /\ Cardinality(kept \cup NamesOf(S)) <= MaxSlots
  /\ \A i \in Waiting \ S : ~Free(kept \cup NamesOf(S), queue[i].lane)

Init == held = {} /\ queue \in [{} -> Requests]

\* Names give back their slots, and those whose turn it is get them.
Serve(kept, S) ==
  /\ Turn(kept, S)
  /\ held' = kept \cup NamesOf(S)
  /\ queue' = Behind(S)

\* After that, one more start asks: it is given a slot, or waits as the last.
Grant(kept, S, n, lane) ==
  /\ Turn(kept, S)
  /\ Free(kept \cup NamesOf(S), lane)
  /\ held' = kept \cup NamesOf(S) \cup {n}
  /\ queue' = Behind(S)

Refuse(kept, S, j, n, lane) ==
  /\ Turn(kept, S)
  /\ ~Free(kept \cup NamesOf(S), lane)
  /\ held' = kept \cup NamesOf(S)
  /\ queue' = [i \in (Waiting \ S) \cup {j} |->
                 IF i = j THEN [name |-> n, lane |-> lane, before |-> Waiting \ S]
                 ELSE Behind(S)[i]]

\* The pool is shut down: nobody waits any more.
Clear(kept) == held' = kept /\ queue' \in [{} -> Requests]

Next ==
  \E kept \in SUBSET held :
    \/ \E S \in SUBSET Waiting :
         \/ Serve(kept, S)
         \/ \E n \in Names, lane \in Lanes :
              \/ Grant(kept, S, n, lane)
              \/ \E j \in Starts \ Waiting : Refuse(kept, S, j, n, lane)
    \/ Clear(kept)

Spec == Init /\ [][Next]_vars

==============================================================================
