----------------------------- MODULE MCInclusion ----------------------------
(* Inclusion on small instances. *)
EXTENDS Inclusion, TLC

CONSTANTS e1, e2, k1, k2, x1

\* Endpoints, and the slots for write phases, are interchangeable.
Symmetry == Permutations(Endpoint) \cup Permutations(Phase)
=============================================================================
