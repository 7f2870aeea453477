------------------------------ MODULE MCTaskWork ------------------------------
(* TaskWork for two processes and two sessions.                              *)
EXTENDS TaskWork, Naturals

Busy == {p \in Everyone : ~Runs(p, "idle")}

\* bound: at most two processes are in the middle of something, and only one goes on
\* from where the tables are torn
AtMostTwo == Cardinality(Busy) <= IF torn THEN 1 ELSE 2

===============================================================================
