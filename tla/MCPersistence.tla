--------------------------- MODULE MCPersistence ----------------------------
(* Persistence on small instances.                                         *)
EXTENDS Persistence, TLC

CONSTANTS e1, l1, l2, t1, t2

Tasks == Permutations(Task)

\* A server whose devices are included and have not yet registered.
IncludedSpec ==
    /\ state = EmptyMap
    /\ included = Endpoint
    /\ rx = Idle
    /\ task = [t \in Task |-> NoTask]
    /\ main = Running
    /\ path = [f \in File |-> IF f = "included" THEN Endpoint ELSE NoFile]
    /\ tmp = [f \in File |-> NoFile]
    /\ wakaama = {}
    /\ disturbed = {}
    /\ errors = 0
    /\ restarts = 0
    /\ [][Next]_vars
=============================================================================
