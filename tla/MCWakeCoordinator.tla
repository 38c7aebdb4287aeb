--------------------------- MODULE MCWakeCoordinator ---------------------------
(* Instances of WakeCoordinator for TLC. *)
EXTENDS WakeCoordinator, TLC

CONSTANTS r1, r2, r3, a

\* Every request on one route.
OneRoute == [r \in Requests |-> a]

\* The requests of one route are interchangeable (safety runs only).
Symmetry == Permutations(Requests)
================================================================================
