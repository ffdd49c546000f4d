-------------------------- MODULE MCInspirationRun --------------------------
(* InspirationRun for TLC: two processes with one task each. *)
EXTENDS InspirationRun

CONSTANTS p1, p2, t1, t2, k1, k2, q1, q2

MCHome == [t \in Task |-> IF t = t1 THEN p1 ELSE p2]
=============================================================================
