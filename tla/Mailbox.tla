------------------------------- MODULE Mailbox -------------------------------
(***************************************************************************)
(* What a live session promises to those who send it prompts.  A prompt    *)
(* that was accepted waits until the session takes it into a turn; turns   *)
(* come one at a time, and a turn ends as a whole: its prompts are         *)
(* answered, or they wait on.  An answered prompt comes back only after    *)
(* somebody asked for its turn to be interrupted.  When the session closes *)
(* it leaves every waiting prompt to its successor, unless it was aborted. *)
(* DeliveryQueue implements this module.                                   *)
(***************************************************************************)
CONSTANTS Prompts

VARIABLES
  accepted,  \* prompts the session has taken responsibility for
  turn,      \* the prompts of the turn that runs
  answered,
  asked,     \* prompts whose turn somebody asked to interrupt, or that was cut
  killed,    \* the session was aborted
  open,
  left       \* what a closed session leaves to its successor

vars == <<accepted, turn, answered, asked, killed, open, left>>

Waiting == accepted \ answered

\* Prompts that may still be put to the provider, or be left
Owed == Waiting \cup (accepted \cap asked)

Init ==
  /\ accepted \in SUBSET Prompts
  /\ turn = {} /\ answered = {} /\ asked = {} /\ killed = FALSE
  /\ open = TRUE /\ left = {}

Accept(S) ==
  /\ open
  /\ accepted' = accepted \cup S
  /\ UNCHANGED <<turn, answered, killed, open, left>>

TakeTurn(S) ==
  /\ open /\ turn = {} /\ S # {} /\ S \subseteq Owed
  /\ turn' = S
  /\ UNCHANGED <<accepted, answered, asked, killed, open, left>>

\* The review of a turn may accept a prompt in the same step.
Answer(S) ==
  /\ open
  /\ answered' = answered \cup turn /\ turn' = {}
  /\ accepted' = accepted \cup S
  /\ killed' \in {killed, TRUE}
  /\ UNCHANGED <<asked, open, left>>

GiveUp ==
  /\ open
  /\ turn' = {}
  /\ UNCHANGED <<accepted, answered, killed, open, left>>

\* The interrupt may be asked for with a prompt that is accepted, or come as
\* the end of a turn that was cut.
AskInterrupt(S) ==
  /\ asked' = asked \cup turn
  /\ Accept(S) \/ GiveUp

Kill ==
  /\ killed' = TRUE
  /\ UNCHANGED <<accepted, turn, answered, asked, open, left>>

Close(S) ==
  /\ open /\ open' = FALSE
  /\ S \subseteq Owed
  /\ killed \/ Waiting \subseteq S
  /\ left' = S /\ turn' = {}
  /\ UNCHANGED <<accepted, answered, asked, killed>>

Next ==
  \/ \E S \in SUBSET Prompts : \/ Accept(S) /\ UNCHANGED asked
                               \/ TakeTurn(S)
                               \/ Answer(S)
                               \/ AskInterrupt(S)
                               \/ Close(S)
  \/ Kill

Spec == Init /\ [][Next]_vars

==============================================================================
