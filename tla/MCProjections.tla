--------------------------- MODULE MCProjections ----------------------------
(* Projections for TLC: a release that raises one of two reducer versions. *)
EXTENDS Projections

CONSTANTS p1, p2, counter, index, made, edited

MCRegistry == <<counter, index>>

\* `counter` handles both event types, `index` only one of them.
MCHandles == [r \in Reducer |-> IF r = counter THEN {made, edited} ELSE {edited}]

\* The second release changes `counter`.
MCVersionOf == [n \in 1..Releases |->
                 [r \in Reducer |-> IF r = counter THEN n ELSE 1]]

\* Two processes that write; one of them also repairs, the other verifies.
MCRuns == [p \in Process |-> {"serving", IF p = p1 THEN "repairing" ELSE "verifying"}]
=============================================================================
