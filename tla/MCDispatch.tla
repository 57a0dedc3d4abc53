----------------------------- MODULE MCDispatch -----------------------------
(* Constants of Dispatch for TLC.                                          *)
EXTENDS Dispatch

CONSTANT o1
=============================================================================
