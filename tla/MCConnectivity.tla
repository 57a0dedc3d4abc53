--------------------------- MODULE MCConnectivity ---------------------------
(* Connectivity on a small instance.                                       *)
EXTENDS Connectivity

CONSTANTS a1, a2
=============================================================================
