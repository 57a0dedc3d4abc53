-------------------------- MODULE MCDeviceRegistry --------------------------
(***************************************************************************)
(* Small instances of DeviceRegistry for TLC.                              *)
(***************************************************************************)
EXTENDS DeviceRegistry, TLC

CONSTANTS e1, e2, ip1, ip2, o1, o2, o3, t1, t2

\* Two addresses without a scope id.
PlainSource == {<<ip1, 0>>, <<ip2, 0>>}

\* o1 and o2 collide on a token, as a ping and a factory reset can.
CollidingTokens == [op \in Op |-> IF op = o3 THEN t2 ELSE t1]
NoTokens == [op \in {} |-> t1]

\* Ids are given out once: MaxId bounds the number of new registrations.
BeforeWrap == ~wrapped

\* What is stated of lifetimes ends with the first wrap or shared address, and
\* neither is undone: behaviours need not be followed any further.
StillStated == ~wrapped /\ ~shared

\* What the operations depend on: no action reads more of the history than which
\* devices have registered, and OpAccounted and OutcomeFinal read none of it.
WithoutHistory ==
    <<by_id, by_endpoint, by_addr, next_id, rx, wakaama, status, DOMAIN client, restarts>>

Devices == Permutations({e1, e2}) \cup Permutations({ip1, ip2})

DevicesAndOps == Devices \cup Permutations({o1, o2})
=============================================================================
