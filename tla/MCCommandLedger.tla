-------------------------- MODULE MCCommandLedger ---------------------------
(* CommandLedger for TLC: two processes, the first with one call or two. *)
EXTENDS CommandLedger, TLC

CONSTANTS p1, p2, c1, c2, c3, k1, k2, q1, q2

MCHome == [c \in Call |-> IF c = c1 THEN p1 ELSE p2]

\* Calls c2 and c3 share a process; keys and requests are interchangeable.
Symmetry == Permutations(Key) \cup Permutations(Request) \cup Permutations(Call \ {c1})
=============================================================================
