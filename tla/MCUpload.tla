------------------------------ MODULE MCUpload ------------------------------
(***************************************************************************)
(* A small instance of Upload for TLC.                                     *)
(***************************************************************************)
EXTENDS Upload, TLC

CONSTANTS u1, u2

Uploads == Permutations({u1, u2})
=============================================================================
