----------------------------- MODULE MCTaskLaunch -----------------------------
(* TaskLaunch for a few tasks and processes.                                 *)
EXTENDS TaskLaunch, TLC

CONSTANTS a, b, p1, p2

Circle == {<<a, b>>, <<b, a>>}

Symmetric == Permutations({p1, p2})

===============================================================================
