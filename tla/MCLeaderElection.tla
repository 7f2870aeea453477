--------------------------- MODULE MCLeaderElection ---------------------------
(* LeaderElection for a few daemons, which are interchangeable.               *)
EXTENDS LeaderElection, TLC

Symmetry == Permutations(Daemons)

==============================================================================
