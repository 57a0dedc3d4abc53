----------------------------- MODULE RemoteCall -----------------------------
(***************************************************************************)
(* What the command socket promises about an operation on a device: the    *)
(* caller gets one answer, it gets one in any case, and it is told         *)
(* "success" only if the device carried the operation out.  A failure says *)
(* nothing: the device may have carried it out, or may do so later.        *)
(***************************************************************************)
CONSTANT Op

VARIABLES call,      \* the state of each call, seen by the IPC client
          executed   \* the operations some device has carried out

Init == /\ call = [op \in Op |-> "idle"]
        /\ executed = {}

Start(op) == /\ call[op] = "idle"
             /\ call' = [call EXCEPT ![op] = "pending"]
             /\ UNCHANGED executed

\* The device is not known: the call fails at once.
Refuse(op) == /\ call[op] = "idle"
              /\ call' = [call EXCEPT ![op] = "failure"]
              /\ UNCHANGED executed

Execute(op) == /\ call[op] # "idle"
               /\ executed' = executed \cup {op}
               /\ UNCHANGED call

Succeed(op) == /\ call[op] = "pending"
               /\ op \in executed
               /\ call' = [call EXCEPT ![op] = "success"]
               /\ UNCHANGED executed

Fail(op) == /\ call[op] = "pending"
            /\ call' = [call EXCEPT ![op] = "failure"]
            /\ UNCHANGED executed

Return(op) == Succeed(op) \/ Fail(op)

Next == \E op \in Op : Start(op) \/ Refuse(op) \/ Execute(op) \/ Return(op)

vars == <<call, executed>>

Safety == Init /\ [][Next]_vars

Spec == Safety /\ \A op \in Op : WF_vars(Return(op))
=============================================================================
