---------------------------- MODULE MCTriggerRunner ----------------------------
(* TriggerRunner for a few triggers and subscriptions, interchangeable.       *)
EXTENDS TriggerRunner, TLC

Symmetric == Permutations(Subs) \cup Permutations(Triggers) \cup Permutations(Topics)

===============================================================================
