----------------------------- MODULE MCOutgoing -----------------------------
(* Outgoing on small instances.                                            *)
EXTENDS Outgoing, TLC

CONSTANTS t1, t2, c1

\* The slots for retransmit tasks and write phases are interchangeable.
Tasks == Permutations(Task)
=============================================================================
