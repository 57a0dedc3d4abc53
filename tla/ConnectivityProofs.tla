------------------------- MODULE ConnectivityProofs -------------------------
(***************************************************************************)
(* That the pings keep the status of a device true within the intervals    *)
(* that housekeeping is configured with, for every length of these and any *)
(* number of operations under way.                                         *)
(***************************************************************************)
EXTENDS Connectivity, TLAPS

\* Most leaves are first-order reasoning; the others name SMT.
USE Zenon

-----------------------------------------------------------------------------
(* Ages and calls.                                                         *)

\* Older is an age again, a tick more unless the horizon is reached.
LEMMA OlderFacts ==
    ASSUME NEW age \in Age
    PROVE  /\ Older(age) \in Age
           /\ age < Horizon => Older(age) = age + 1
           /\ age = Horizon => Older(age) = Horizon
BY SMT, ConnectivityAssumption DEF Older, Age

\* A new call is awaited if the device has that address, and is never late.
LEMMA NewCallFacts ==
    ASSUME TypeOK, NEW a \in Addr, NEW b \in BOOLEAN
    PROVE  /\ NewCall(a, b) \in Call
           /\ NewCall(a, b).addr = a
           /\ At(a) => NewCall(a, b).awaited
           /\ ~NewCall(a, b).late
           /\ NewCall(a, b).missed <=> ~(up /\ home = a)
<1>1. At(a) \in BOOLEAN
  BY DEF At, TypeOK, Device
<1> QED
  BY <1>1 DEF NewCall, Call, TypeOK

\* A tick makes a call late, and the world may make it miss an answer.
LEMMA CallFacts ==
    ASSUME NEW c \in Call, NEW m \in BOOLEAN
    PROVE  /\ [c EXCEPT !.late = TRUE] \in Call
           /\ [c EXCEPT !.late = TRUE].late
           /\ [c EXCEPT !.late = TRUE].addr = c.addr
           /\ [c EXCEPT !.late = TRUE].missed = c.missed
           /\ [c EXCEPT !.late = TRUE].awaited = c.awaited
           /\ [c EXCEPT !.missed = m] \in Call
           /\ [c EXCEPT !.missed = m].addr = c.addr
           /\ [c EXCEPT !.missed = m].late = c.late
           /\ [c EXCEPT !.missed = m].awaited = c.awaited
           /\ [c EXCEPT !.awaited = m] \in Call
BY DEF Call

-----------------------------------------------------------------------------
(* Types.                                                                  *)

\* What TypeOK says of the registry's entry.
Entry(d) == d \in Device /\ (d.online => d.since = 0)

\* A device that is not registered, no calls, a tick due.
LEMMA InitTypes == Init => TypeOK
<1> SUFFICES ASSUME Init PROVE TypeOK
  OBVIOUS
<1>1. 0 \in Age /\ Never \in Age
  BY SMT, ConnectivityAssumption DEF Age, Never
<1>2. PICK a \in Addr : dev = Unregistered(NewDevice(a)) /\ home = a
  BY DEF Init
<1>3. dev \in Device /\ ~dev.online
  BY <1>1, <1>2 DEF Device, Unregistered, NewDevice
<1>4. restarts \in 0 .. MaxRestart
  BY SMT, ConnectivityAssumption DEF Init
<1> QED
  BY <1>1, <1>2, <1>3, <1>4 DEF Init, TypeOK

\* The history of contact stays in its range.
LEMMA ReachType == TypeOK /\ Reach => reach' \in Age
BY SMT, ConnectivityAssumption, OlderFacts DEF TypeOK, Reach, Age

\* Every step keeps the types.
LEMMA NextTypes == TypeOK /\ [Next]_vars => TypeOK'
<1> SUFFICES ASSUME TypeOK, [Next]_vars PROVE TypeOK'
  OBVIOUS
<1> USE ConnectivityAssumption
<1>a. Entry(dev) /\ dev \in Device /\ 0 \in Age /\ Never \in Age
  BY SMT DEF TypeOK, Age, Never, Entry
<1>b. \A a \in Addr : Entry(touch(a)) /\ Entry(set_device_offline(a))
  BY <1>a DEF touch, set_device_offline, Device, Entry
<1>c. Entry(Unregistered(dev)) /\ \A a \in Addr : Entry(NewDevice(a))
  BY <1>a DEF Unregistered, NewDevice, Device, Entry
<1>d. dev.addr \in Addr /\ \A c \in call : c \in Call /\ c.addr \in Addr
  BY DEF TypeOK, Device, Call
<1>1. CASE Command
  BY <1>1, <1>d, ReachType DEF Command, TypeOK, world
<1>2. ASSUME NEW a \in Addr, dispatch_op(a) PROVE TypeOK'
  <2>1. chan' \subseteq Addr
    BY <1>2 DEF dispatch_op, TypeOK
  <2> QED
    BY <1>2, <2>1, NewCallFacts, ReachType DEF dispatch_op, TypeOK, world
<1>3. ASSUME NEW c \in call, Ends(c) PROVE TypeOK'
  <2>1. chan' \subseteq Addr /\ call' \subseteq Call
    BY <1>3, <1>d, NewCallFacts
       DEF Ends, Answered, Unanswered, SendFails, Abandoned, Ended, NextBlock, TypeOK
  <2>2. Entry(dev')
    BY <1>3, <1>a, <1>b, <1>d
       DEF Ends, Answered, Unanswered, SendFails, Abandoned, TypeOK
  <2>3. pings' \in {0, pings} /\ UNCHANGED <<due, home, up, restarts>> /\ Reach
    BY <1>3 DEF Ends, Answered, Unanswered, SendFails, Abandoned, world
  <2>4. pings' \in Nat
    BY SMT, <2>3 DEF TypeOK
  <2> QED
    BY <2>1, <2>2, <2>3, <2>4, ReachType DEF TypeOK, Entry
<1>6. CASE Contact
  BY <1>6, <1>b, ReachType DEF Contact, TypeOK, world, Entry
<1>7. CASE handle_registration
  <2>0. home \in Addr /\ Entry(touch(home)) /\ Entry(NewDevice(home))
    BY <1>b, <1>c DEF TypeOK
  <2>1. Entry(dev')
    BY <1>7, <1>a, <2>0 DEF handle_registration, register, Device, Entry
  <2> QED
    BY <1>7, <2>1, ReachType DEF handle_registration, TypeOK, world, Entry
<1>8. CASE handle_delete \/ expire_stale
  <2>1. /\ dev' = Unregistered(dev) /\ pings' = 0
        /\ UNCHANGED <<chan, due, home, up, restarts>> /\ Reach
        /\ \E blocks \in SUBSET call : call' = Dropped(blocks)
    BY <1>8 DEF handle_delete, expire_stale, world
  <2>2. call' \subseteq Call
    <3>1. PICK blocks : call' = Dropped(blocks)
      BY <2>1
    <3>2. \A c \in call : [c EXCEPT !.awaited = c.awaited /\ c \in blocks] \in Call
      BY <1>d, CallFacts DEF Call
    <3> QED
      BY <3>1, <3>2 DEF Dropped
  <2> QED
    BY <1>c, <2>1, <2>2, ReachType DEF TypeOK, Entry
<1>10. CASE take_ping_candidates
  <2>1. Entry(dev')
    BY <1>10, <1>a DEF take_ping_candidates, Device, Entry
  <2>2. chan' \subseteq Addr
    BY <1>10, <1>d DEF take_ping_candidates, TypeOK
  <2>3. pings' \in Nat
    BY SMT, <1>10 DEF take_ping_candidates, TypeOK
  <2>4. due' \in BOOLEAN /\ UNCHANGED <<call, home, up, restarts>> /\ Reach
    BY <1>10 DEF take_ping_candidates, world
  <2> QED
    BY <2>1, <2>2, <2>3, <2>4, ReachType DEF TypeOK, Entry
<1>11. CASE Tick
  <2>1. Entry(dev')
    BY <1>11, <1>a, OlderFacts DEF Tick, Device, Entry
  <2>2. call' \subseteq Call
    BY <1>11, <1>d, CallFacts DEF Tick
  <2> QED
    BY <1>11, <2>1, <2>2, ReachType DEF Tick, TypeOK, world, Entry
<1>12. ASSUME NEW a \in Addr, NEW u \in BOOLEAN, World(a, u) PROVE TypeOK'
  <2>1. call' \subseteq Call
    <3>1. \A c \in call : [c EXCEPT !.missed = c.missed \/ ~(u /\ a = c.addr)] \in Call
      BY <1>d, CallFacts DEF Call
    <3> QED
      BY <1>12, <3>1 DEF World
  <2> QED
    BY <1>12, <2>1, ReachType DEF World, TypeOK
<1>13. ASSUME NEW a \in Addr, restore(a) PROVE TypeOK'
  <2>1. dev' \in Device /\ ~dev'.online
    BY <1>13, <1>a DEF restore, Device
  <2> QED
    BY SMT, <1>13, <2>1, ReachType DEF restore, TypeOK, world
<1>14. CASE UNCHANGED vars
  BY <1>14 DEF vars, TypeOK
<1> QED
  BY <1>1, <1>2, <1>3, <1>6, <1>7, <1>8, <1>10, <1>11, <1>12, <1>13, <1>14 DEF Next

-----------------------------------------------------------------------------
(* The online device.                                                      *)

\* touch, take_ping_candidates and mark_device_offline: an online device is
\* recent, or a call is under way that ends in time.
LEMMA NextOnline == TypeOK /\ TypeOK' /\ OnlineInv /\ [Next]_vars => OnlineInv'
<1> SUFFICES ASSUME TypeOK, TypeOK', OnlineInv, [Next]_vars PROVE OnlineInv'
  OBVIOUS
<1>a. dev \in Device /\ dev.addr \in Addr /\ dev.ping \in Age /\ dev.contact \in Age
  BY DEF TypeOK, Device
<1>h. dev'.contact = 0 => OnlineInv'
  BY SMT, ConnectivityAssumption DEF TypeOK, Device, Age, OnlineInv
<1>k. ASSUME UNCHANGED <<dev, due>>,
             dev.registered /\ dev.online /\ Probed => Probed',
             dev.registered /\ dev.online =>
               \A c \in call : Probe(c) /\ c.late => c \in call'
      PROVE  OnlineInv'
  BY <1>k DEF OnlineInv, Probe
<1>1. CASE Command
  BY <1>1, <1>k DEF Command, Probed, Probe
<1>2. ASSUME NEW a \in Addr, dispatch_op(a) PROVE OnlineInv'
  <2>a. PICK b \in BOOLEAN : call' = call \cup {NewCall(a, b)}
    BY <1>2 DEF dispatch_op
  <2>0. UNCHANGED <<dev, due>> /\ chan \ {a} \subseteq chan'
    BY <1>2 DEF dispatch_op
  <2>1. ASSUME dev.registered, dev.addr = a PROVE Probed'
    <3>1. NewCall(a, b).addr = a /\ NewCall(a, b).awaited
      BY <2>1, NewCallFacts DEF At
    <3> QED
      BY <2>0, <2>a, <2>1, <3>1 DEF Probed, Probe
  <2>2. ASSUME dev.addr # a, Probed PROVE Probed'
    BY <2>0, <2>a, <2>2 DEF Probed, Probe
  <2> QED
    BY <1>k, <2>0, <2>a, <2>1, <2>2
<1>3. ASSUME NEW c \in call, Answered(c) PROVE OnlineInv'
  <2>1. CASE At(home)
    <3>1. dev'.contact = 0
      BY <1>3, <1>a, <2>1 DEF Answered, touch, Device
    <3> QED
      BY <3>1, <1>h
  <2>2. CASE ~At(home)
    <3>1. dev' = dev /\ due' = due /\ chan' = chan /\ call \ {c} \subseteq call'
      BY <1>3, <2>2 DEF Answered, touch, Ended, NextBlock
    <3>2. dev.registered => ~Probe(c)
      BY <1>3, <2>2 DEF Answered, At, Probe
    <3>3. dev.registered /\ Probed => Probed'
      BY <3>1, <3>2 DEF Probed, Probe
    <3> QED
      BY <1>k, <3>1, <3>2, <3>3
  <2> QED
    BY <2>1, <2>2
<1>4. ASSUME NEW c \in call, Unanswered(c) \/ SendFails(c) PROVE OnlineInv'
  <2>0. dev' = set_device_offline(c.addr) /\ due' = due /\ chan' = chan /\ call \ {c} \subseteq call'
    BY <1>4 DEF Unanswered, SendFails, Ended
  <2>1. CASE At(c.addr) /\ dev.online
    BY <1>a, <2>0, <2>1 DEF set_device_offline, Device, OnlineInv
  <2>2. CASE ~(At(c.addr) /\ dev.online)
    <3>1. dev' = dev
      BY <2>0, <2>2 DEF set_device_offline
    <3>2. dev.registered /\ dev.online => ~Probe(c)
      BY <2>2 DEF At, Probe
    <3>3. dev.registered /\ dev.online /\ Probed => Probed'
      BY <2>0, <3>1, <3>2 DEF Probed, Probe
    <3> QED
      BY <1>k, <2>0, <3>1, <3>2, <3>3
  <2> QED
    BY <2>1, <2>2
<1>5. ASSUME NEW c \in call, Abandoned(c) PROVE OnlineInv'
  <2>1. dev' = dev /\ due' = due /\ chan' = chan /\ call \ {c} \subseteq call' /\ ~Probe(c)
    BY <1>5 DEF Abandoned, Ended, Probe
  <2>2. Probed => Probed'
    BY <2>1 DEF Probed, Probe
  <2> QED
    BY <1>k, <2>1, <2>2
<1>6. CASE Contact
  <2>1. CASE At(home)
    BY <1>6, <1>a, <1>h, <2>1 DEF Contact, touch, Device
  <2>2. CASE ~At(home)
    BY <1>6, <1>k, <2>2 DEF Contact, touch, Probed, Probe
  <2> QED
    BY <2>1, <2>2
<1>7. CASE handle_registration
  <2>1. dev'.contact = 0
    BY <1>7, <1>a DEF handle_registration, register, touch, NewDevice, Device
  <2> QED
    BY <2>1, <1>h
<1>8. CASE handle_delete \/ expire_stale
  <2>1. ~dev'.registered
    BY <1>8, <1>a DEF handle_delete, expire_stale, Unregistered, Device
  <2> QED
    BY <2>1 DEF OnlineInv
<1>10. CASE take_ping_candidates
  <2>0. call' = call /\ ~due'
    BY <1>10 DEF take_ping_candidates
  <2>1. CASE dev.registered /\ needs_ping(dev)
    <3>1. dev' = [dev EXCEPT !.ping = 0] /\ dev.addr \in chan'
      BY <1>10, <2>1 DEF take_ping_candidates
    <3>2. /\ dev'.addr = dev.addr /\ dev'.contact = dev.contact
          /\ dev'.registered = dev.registered /\ dev'.online = dev.online
      BY <1>a, <3>1 DEF Device
    <3>3. Probed'
      BY <3>1, <3>2 DEF Probed
    <3>4. \A c \in call : Probe(c) => Probe(c)'
      BY <3>2 DEF Probe
    <3> QED
      BY <2>0, <3>2, <3>3, <3>4 DEF OnlineInv
  <2>2. CASE ~(dev.registered /\ needs_ping(dev))
    <3>1. UNCHANGED <<dev, chan>>
      BY <1>10, <2>2 DEF take_ping_candidates
    <3>2. dev.registered /\ dev.online /\ dev.contact = OnlineInterval => Probed
      BY SMT, <1>a, <2>2, ConnectivityAssumption DEF needs_ping, OnlineInv, Age
    <3>3. Probed <=> Probed'
      BY <2>0, <3>1 DEF Probed, Probe
    <3> QED
      BY <2>0, <3>1, <3>2, <3>3 DEF OnlineInv, Probe
  <2> QED
    BY <2>1, <2>2
<1>11. CASE Tick
  <2> SUFFICES ASSUME dev.registered, dev.online PROVE OnlineInv'
    BY <1>11, <1>a DEF Tick, OnlineInv, Device
  <2>1. /\ dev'.addr = dev.addr
        /\ dev'.contact = Older(dev.contact)
        /\ dev'.ping = Older(dev.ping)
    BY <1>11, <1>a DEF Tick, Device
  <2>2. Probed => \E c \in call' : Probe(c)' /\ c.late
    <3> SUFFICES ASSUME Probed PROVE \E c \in call' : Probe(c)' /\ c.late
      OBVIOUS
    <3>1. chan = {} /\ call' = {[c EXCEPT !.late = TRUE] : c \in call}
      BY <1>11 DEF Tick
    <3>2. PICK c \in call : Probe(c)
      BY <3>1 DEF Probed
    <3>3. c \in Call
      BY DEF TypeOK
    <3>4. PICK x \in call' : x = [c EXCEPT !.late = TRUE]
      BY <3>1
    <3> WITNESS x \in call'
    <3> QED
      BY <2>1, <3>2, <3>3, <3>4, CallFacts DEF Probe
  <2>3. \A c \in call : ~c.late
    BY <1>11 DEF Tick
  <2>4. dev.contact <= OnlineInterval
    BY SMT, <1>a, <2>3, ConnectivityAssumption DEF OnlineInv, Age
  <2>5. dev'.contact = dev.contact + 1
    BY SMT, <1>a, <2>1, <2>4, OlderFacts, ConnectivityAssumption DEF Age
  <2>6. dev'.ping < dev'.contact => dev.ping < dev.contact
    <3>1. dev.ping \in Int /\ dev.contact \in Int /\ dev.ping <= Horizon /\ Horizon \in Int
      BY SMT, <1>a, ConnectivityAssumption DEF Age
    <3>2. dev.ping < Horizon => dev'.ping = dev.ping + 1
      BY <1>a, <2>1, OlderFacts
    <3>3. dev.ping = Horizon => dev'.ping = Horizon
      BY <1>a, <2>1, OlderFacts
    <3> QED
      BY SMT, <2>4, <2>5, <3>1, <3>2, <3>3, ConnectivityAssumption
  <2>7. dev'.contact = OnlineInterval + 1 => Probed
    BY SMT, <1>11, <1>a, <2>5, ConnectivityAssumption DEF Tick, OnlineInv, Age
  <2>8. dev.ping < dev.contact => Probed
    BY DEF OnlineInv
  <2>9. dev'.contact <= OnlineInterval + 1
    BY SMT, <1>a, <2>4, <2>5, ConnectivityAssumption DEF Age
  <2>10. due'
    BY <1>11 DEF Tick
  <2> QED
    BY <2>2, <2>6, <2>7, <2>8, <2>9, <2>10 DEF OnlineInv, Probed
<1>12. ASSUME NEW a \in Addr, NEW u \in BOOLEAN, World(a, u) PROVE OnlineInv'
  <2>0. UNCHANGED <<dev, chan, due>>
        /\ call' = {[c EXCEPT !.missed = @ \/ ~(u /\ a = c.addr)] : c \in call}
    BY <1>12 DEF World
  <2>1. ASSUME NEW c \in call, Probe(c)
        PROVE  \E x \in call' : Probe(x)' /\ (c.late => x.late)
    <3>1. c \in Call /\ (c.missed \/ ~(u /\ a = c.addr)) \in BOOLEAN
      BY DEF TypeOK, Call
    <3>2. [c EXCEPT !.missed = c.missed \/ ~(u /\ a = c.addr)] \in call'
      BY <2>0
    <3> WITNESS [c EXCEPT !.missed = c.missed \/ ~(u /\ a = c.addr)] \in call'
    <3> QED
      BY <2>0, <2>1, <3>1, CallFacts DEF Probe
  <2>2. Probed => Probed'
    BY <2>0, <2>1 DEF Probed
  <2>3. (\E c \in call : Probe(c) /\ c.late) => \E x \in call' : Probe(x)' /\ x.late
    BY <2>1
  <2> QED
    BY <2>0, <2>2, <2>3 DEF OnlineInv
<1>13. ASSUME NEW a \in Addr, restore(a) PROVE OnlineInv'
  BY <1>13 DEF restore, OnlineInv
<1>14. CASE UNCHANGED vars
  BY <1>14, <1>k DEF vars, Probed, Probe
<1> QED
  BY <1>1, <1>2, <1>3, <1>4, <1>5, <1>6, <1>7, <1>8, <1>10, <1>11, <1>12, <1>13, <1>14
     DEF Next, Ends

-----------------------------------------------------------------------------
(* The device that can be reached.                                         *)

\* Unless the count starts again, the device could be reached before the step
\* and after it, and only a tick counts.
LEMMA ReachFacts ==
    ASSUME TypeOK, Reach, reach' # 0
    PROVE  /\ Reachable(dev, home, up)
           /\ Reachable(dev, home, up)'
           /\ restarts' = restarts
           /\ reach' = IF ~due /\ due' THEN Older(reach) ELSE reach
BY DEF Reach, Reachable

\* An offline device has not been reached since its status was set.
LEMMA NextReach ==
    TypeOK /\ TypeOK' /\ StaleInv /\ OfflineInv /\ [Next]_vars => StaleInv' /\ OfflineInv'
<1> SUFFICES ASSUME TypeOK, TypeOK', StaleInv, OfflineInv, [Next]_vars
             PROVE  StaleInv' /\ OfflineInv'
  OBVIOUS
<1>s. CASE UNCHANGED vars
  BY <1>s DEF vars, StaleInv, OfflineInv, Reachable, Probe
<1>0. CASE Next
  <2>a. dev \in Device /\ dev.addr \in Addr /\ dev.ping \in Age /\ dev.since \in Age /\ reach \in Age
    BY DEF TypeOK, Device
  <2>r. Reach
    BY <1>0 DEF Next, Ends, Command, dispatch_op, Answered, Unanswered, SendFails, Abandoned, Contact,
       handle_registration, handle_delete, expire_stale, take_ping_candidates, Tick, World, restore
  <2>z. CASE reach' = 0
    BY SMT, <2>z DEF StaleInv, OfflineInv
  <2>n. CASE reach' # 0
    <3>r. /\ dev.registered /\ dev.addr = home /\ up
          /\ dev'.registered /\ dev'.addr = home' /\ up'
          /\ restarts' = restarts
      BY <2>r, <2>n, ReachFacts DEF Reachable
    <3>e. ~(~due /\ due') => reach' = reach
      BY <2>r, <2>n, ReachFacts
    <3>f. ~Reachable(dev, home, up)' => reach' = 0
      BY <2>r DEF Reach
    <3>k. ASSUME dev'.addr = dev.addr, reach' = reach,
                 \A c \in call' : c \in call \/ ~c.missed
          PROVE  StaleInv'
      BY <3>f, <3>k, <3>r DEF StaleInv, Probe, Reachable
    <3>1. CASE Command
      <4>1. UNCHANGED <<dev, due, call>> /\ chan \subseteq chan' /\ reach' = reach
        BY <3>1, <3>e DEF Command
      <4>2. StaleInv'
        BY <3>k, <4>1
      <4>3. OfflineInv'
        BY <4>1 DEF OfflineInv, Probe
      <4> QED
        BY <4>2, <4>3
    <3>d. ASSUME NEW a \in Addr, dispatch_op(a) PROVE StaleInv' /\ OfflineInv'
      <4>0. PICK b \in BOOLEAN : call' = call \cup {NewCall(a, b)}
        BY <3>d DEF dispatch_op
      <4>1. UNCHANGED <<dev, due>> /\ chan \ {a} \subseteq chan' /\ reach' = reach
        BY <3>d, <3>e DEF dispatch_op
      <4>2. StaleInv'
        <5>1. Probe(NewCall(a, b)) => ~NewCall(a, b).missed
          BY <3>r, NewCallFacts DEF Probe
        <5> QED
          BY <3>f, <3>r, <4>0, <4>1, <5>1 DEF StaleInv, Probe, Reachable
      <4>3. ASSUME dev.addr = a, reach <= OfflineInterval + 1
            PROVE  \E c \in call' : Probe(c)' /\ ~c.missed /\ ~c.late /\ reach' <= OfflineInterval + 1
        <5>1. NewCall(a, b) \in call'
          BY <4>0
        <5>2. LET c == NewCall(a, b) IN c.addr = dev.addr /\ c.awaited /\ ~c.missed /\ ~c.late
          BY <3>r, <4>3, NewCallFacts DEF At
        <5> QED
          BY <4>1, <4>3, <5>1, <5>2 DEF Probe
      <4>4. dev.addr \in chan => dev.addr = a \/ dev.addr \in chan'
        BY <4>1
      <4>5. OfflineInv'
        BY <4>0, <4>1, <4>3, <4>4 DEF OfflineInv, Probe
      <4> QED
        BY <4>2, <4>5
    <3>2. ASSUME NEW c \in call, Answered(c) PROVE StaleInv' /\ OfflineInv'
      <4>1. dev'.online /\ dev'.addr = dev.addr /\ reach' = reach
        BY <2>a, <3>2, <3>e, <3>r DEF Answered, touch, At, Device
      <4>2. call' \subseteq call \cup {NewCall(c.addr, TRUE)}
        BY <3>2 DEF Answered, Ended, NextBlock
      <4>3. ~NewCall(c.addr, TRUE).missed
        <5>1. c.addr \in Addr /\ up /\ home = c.addr
          BY <3>2 DEF Answered, TypeOK, Call
        <5> QED
          BY <5>1, NewCallFacts
      <4>4. StaleInv'
        BY <3>k, <4>1, <4>2, <4>3
      <4> QED
        BY <4>1, <4>4 DEF OfflineInv
    <3>3. ASSUME NEW c \in call, Unanswered(c) PROVE StaleInv' /\ OfflineInv'
      <4>1. dev'.addr = dev.addr /\ UNCHANGED <<due, chan>> /\ reach' = reach
        BY <2>a, <3>3, <3>e DEF Unanswered, set_device_offline, Device, Ended
      <4>2. call \ {c} \subseteq call' /\ call' \subseteq call
        BY <3>3 DEF Unanswered, Ended
      <4>3. StaleInv'
        BY <3>k, <4>1, <4>2
      <4>4. CASE c.addr = dev.addr
        <5>1. reach <= 1
          BY SMT, <2>a, <3>3, <3>r, <4>4 DEF Unanswered, StaleInv, Probe, Reachable
        <5> QED
          BY SMT, <2>a, <4>1, <4>3, <5>1, ConnectivityAssumption DEF OfflineInv, Age
      <4>5. CASE c.addr # dev.addr
        <5>1. dev' = dev
          BY <3>3, <4>5 DEF Unanswered, set_device_offline, At
        <5>2. ~Probe(c)
          BY <4>5 DEF Probe
        <5>3. OfflineInv'
          BY <4>1, <4>2, <5>1, <5>2 DEF OfflineInv, Probe
        <5> QED
          BY <4>3, <5>3
      <4> QED
        BY <4>4, <4>5
    <3>4. ASSUME NEW c \in call, SendFails(c) PROVE FALSE
      BY <3>4, <3>r DEF SendFails
    <3>5. ASSUME NEW c \in call, Abandoned(c) PROVE StaleInv' /\ OfflineInv'
      <4>1. UNCHANGED <<dev, due, chan>> /\ reach' = reach /\ ~Probe(c)
        BY <3>5, <3>e DEF Abandoned, Ended, Probe
      <4>2. call \ {c} \subseteq call' /\ call' \subseteq call
        BY <3>5 DEF Abandoned, Ended
      <4>3. StaleInv'
        BY <3>k, <4>1, <4>2
      <4>4. OfflineInv'
        BY <4>1, <4>2 DEF OfflineInv, Probe
      <4> QED
        BY <4>3, <4>4
    <3>6. CASE Contact \/ handle_registration
      <4>1. call' = call /\ due' = due /\ reach' = reach
        BY SMT, <3>6, <3>e DEF Contact, handle_registration
      <4>2. dev'.online /\ dev'.addr = dev.addr
        BY <2>a, <3>6, <3>r DEF Contact, handle_registration, register, touch, At, Device
      <4>3. StaleInv'
        BY <3>k, <4>1, <4>2
      <4> QED
        BY <4>2, <4>3 DEF OfflineInv
    <3>7. CASE handle_delete \/ expire_stale
      BY <2>a, <3>7, <3>r DEF handle_delete, expire_stale, Unregistered, Device
    <3>8. CASE take_ping_candidates
      <4>0. reach' = reach /\ due /\ ~due' /\ call' = call
        BY <3>8, <3>e DEF take_ping_candidates
      <4>1. CASE needs_ping(dev)
        <5>1. dev' = [dev EXCEPT !.ping = 0] /\ dev.addr \in chan'
          BY <3>8, <3>r, <4>1 DEF take_ping_candidates
        <5>2. dev'.online = dev.online /\ dev'.since = dev.since /\ dev'.addr = dev.addr
          BY <2>a, <5>1 DEF Device
        <5>3. StaleInv'
          BY <3>k, <4>0, <5>2
        <5>4. ASSUME ~dev.online, dev.since < Window, reach > 1 PROVE OfflineInv'
          <6>1. CASE reach <= OfflineInterval + 1
            BY <4>0, <5>1, <5>2, <6>1 DEF OfflineInv
          <6>2. CASE reach > OfflineInterval + 1
            <7>0. reach \in Nat /\ dev.ping \in Nat
              BY SMT, <2>a, ConnectivityAssumption DEF Age
            <7>1. ~(dev.ping >= reach - 1 /\ (reach > 2 \/ ~due => dev.ping <= OfflineInterval))
              BY SMT, <6>2, <7>0, ConnectivityAssumption
            <7>2. ~(reach <= OfflineInterval + 1)
              BY SMT, <6>2, <7>0, ConnectivityAssumption
            <7>3. PICK c \in call : Probe(c) /\ ~c.missed /\ c.late /\ reach <= OfflineInterval + 2
              BY <3>r, <5>4, <7>1, <7>2 DEF OfflineInv
            <7> QED
              BY <4>0, <5>2, <7>3 DEF OfflineInv, Probe
          <6> QED
            BY SMT, <2>a, <6>1, <6>2, ConnectivityAssumption DEF Age
        <5>5. OfflineInv'
          BY <4>0, <5>2, <5>4 DEF OfflineInv
        <5> QED
          BY <5>3, <5>5
      <4>2. CASE ~needs_ping(dev)
        <5>1. UNCHANGED <<dev, chan>>
          BY <3>8, <4>2 DEF take_ping_candidates
        <5>2. StaleInv'
          BY <3>k, <4>0, <5>1
        <5>3. ~dev.online /\ dev.since < Window => dev.ping < OfflineInterval
          BY SMT, <2>a, <4>2, ConnectivityAssumption DEF needs_ping, Age
        <5>4. dev.ping < OfflineInterval => dev.ping <= OfflineInterval
          BY SMT, <2>a, ConnectivityAssumption DEF Age
        <5>5. OfflineInv'
          BY <4>0, <5>1, <5>3, <5>4 DEF OfflineInv, Probe
        <5> QED
          BY <5>2, <5>5
      <4> QED
        BY <4>1, <4>2
    <3>9. CASE Tick
      <4>0. reach' = Older(reach) /\ ~due /\ due'
        BY <2>r, <2>n, <3>9, ReachFacts DEF Tick
      <4>1. /\ dev'.addr = dev.addr
            /\ dev'.online = dev.online
            /\ dev'.ping = Older(dev.ping)
            /\ ~dev.online => dev'.since = Older(dev.since)
        BY <2>a, <3>9, <3>r DEF Tick, Device
      <4>2. chan = {} /\ \A c \in call : ~c.late
        BY <3>9 DEF Tick
      <4>3. call' = {[c EXCEPT !.late = TRUE] : c \in call}
        BY <3>9 DEF Tick
      <4>4. \A c \in call : LET x == [c EXCEPT !.late = TRUE] IN
               x.addr = c.addr /\ x.awaited = c.awaited /\ x.missed = c.missed /\ x.late
        BY CallFacts DEF TypeOK
      <4>5. StaleInv'
        <5>1. reach = 0 => reach' = 1
          BY SMT, <2>a, <4>0, OlderFacts, ConnectivityAssumption
        <5>2. ASSUME NEW x \in call', Probe(x)', x.missed PROVE reach' = 1 /\ x.late
          <6>1. PICK c \in call : x = [c EXCEPT !.late = TRUE]
            BY <4>3
          <6>2. Probe(c) /\ c.missed /\ x.late
            BY <4>1, <4>4, <5>2, <6>1 DEF Probe
          <6> QED
            BY <3>r, <4>2, <5>1, <6>2 DEF StaleInv, Reachable
        <5> QED
          BY <3>f, <5>2 DEF StaleInv
      <4>6. ASSUME ~dev.online, dev'.since < Window, reach' > 1 PROVE OfflineInv'
        <5>0. /\ reach \in Nat /\ dev.ping \in Nat /\ dev.since \in Nat
              /\ reach <= Horizon /\ dev.ping <= Horizon /\ dev.since <= Horizon
          BY SMT, <2>a, ConnectivityAssumption DEF Age
        <5>1. dev.since < Window
          BY SMT, <4>1, <4>6, <5>0, ConnectivityAssumption DEF Older
        <5>2. /\ reach' <= reach + 1 /\ reach' \in Nat
              /\ reach < Horizon => reach' = reach + 1
          BY SMT, <4>0, <5>0, ConnectivityAssumption DEF Older
        <5>3. /\ dev'.ping \in Nat
              /\ dev.ping < Horizon => dev'.ping = dev.ping + 1
              /\ dev.ping = Horizon => dev'.ping = Horizon
          BY SMT, <4>1, <5>0, ConnectivityAssumption DEF Older
        <5>4. CASE reach <= 1
          <6>1. dev'.ping >= reach' - 1 /\ reach' <= 2
            BY SMT, <5>0, <5>2, <5>3, <5>4, ConnectivityAssumption
          <6> QED
            BY SMT, <4>0, <5>2, <6>1 DEF OfflineInv
        <5>5. CASE reach > 1
          <6>1. CASE dev.ping >= reach - 1 /\ dev.ping < OfflineInterval
            <7>1. dev'.ping >= reach' - 1 /\ dev'.ping <= OfflineInterval
              BY SMT, <5>0, <5>2, <5>3, <6>1, ConnectivityAssumption
            <7> QED
              BY <4>0, <7>1 DEF OfflineInv
          <6>2. CASE \E c \in call : Probe(c) /\ ~c.missed /\ reach <= OfflineInterval + 1
            <7>1. PICK c \in call : Probe(c) /\ ~c.missed /\ reach <= OfflineInterval + 1
              BY <6>2
            <7>2. PICK x \in call' : x = [c EXCEPT !.late = TRUE]
              BY <4>3
            <7>3. Probe(x)' /\ ~x.missed /\ x.late
              BY <4>1, <4>4, <7>1, <7>2 DEF Probe
            <7>4. reach' <= OfflineInterval + 2
              BY SMT, <5>0, <5>2, <7>1, ConnectivityAssumption
            <7> QED
              BY <7>3, <7>4 DEF OfflineInv
          <6> QED
            BY <3>r, <4>0, <4>2, <4>6, <5>1, <5>5, <6>1, <6>2 DEF OfflineInv
        <5> QED
          BY SMT, <5>0, <5>4, <5>5
      <4>7. OfflineInv'
        BY <4>1, <4>6 DEF OfflineInv
      <4> QED
        BY <4>5, <4>7
    <3>10. ASSUME NEW a \in Addr, NEW u \in BOOLEAN, World(a, u) PROVE FALSE
      BY <3>10, <3>r DEF World, TypeOK
    <3>11. ASSUME NEW a \in Addr, restore(a) PROVE FALSE
      BY SMT, <3>11, <3>r, ConnectivityAssumption DEF restore, TypeOK
    <3> QED
      BY <1>0, <3>1, <3>d, <3>2, <3>3, <3>4, <3>5, <3>6, <3>7, <3>8, <3>9, <3>10, <3>11 DEF Next, Ends
  <2> QED
    BY <2>z, <2>n
<1> QED
  BY <1>s, <1>0

-----------------------------------------------------------------------------
(* The number of pings.                                                    *)

\* A device that has just been heard from, or is not registered, has had none.
LEMMA NoPings == pings = 0 => PingInv
BY SMT, ConnectivityAssumption DEF PingInv, PingBudget

\* take_ping_candidates: each further ping comes an interval after the last.
LEMMA NextPings ==
    TypeOK /\ TypeOK' /\ OnlineInv /\ PingInv /\ [Next]_vars => PingInv'
<1> SUFFICES ASSUME TypeOK, TypeOK', OnlineInv, PingInv, [Next]_vars PROVE PingInv'
  OBVIOUS
<1>a. dev \in Device /\ dev.contact \in Age /\ dev.ping \in Age /\ dev.since \in Age /\ pings \in Nat
  BY DEF TypeOK, Device
<1>b. /\ dev.contact \in Nat /\ dev.ping \in Nat /\ dev.since \in Nat
      /\ dev.contact <= Horizon /\ dev.ping <= Horizon /\ dev.since <= Horizon
  BY SMT, <1>a, ConnectivityAssumption DEF Age
<1>z. pings' = 0 => PingInv'
  BY SMT, ConnectivityAssumption DEF PingInv, PingBudget
<1>e. dev' = dev /\ pings' = pings => PingInv'
  BY DEF PingInv, PingBudget
<1>1. CASE Command \/ \E a \in Addr : dispatch_op(a)
  BY <1>1, <1>e DEF Command, dispatch_op
<1>k. ASSUME NEW c \in call, Abandoned(c) PROVE PingInv'
  BY <1>k, <1>e DEF Abandoned
<1>2. ASSUME NEW c \in call, Answered(c) PROVE PingInv'
  BY <1>2, <1>e, <1>z DEF Answered, touch
<1>3. ASSUME NEW c \in call, Unanswered(c) \/ SendFails(c) PROVE PingInv'
  <2>0. dev' = set_device_offline(c.addr) /\ pings' = pings
    BY <1>3 DEF Unanswered, SendFails
  <2>1. CASE dev' = dev
    BY <1>e, <2>0, <2>1
  <2>2. CASE dev' # dev
    <3>1. dev.registered /\ dev.online
      BY <2>0, <2>2 DEF set_device_offline, At
    <3>2. dev'.registered /\ ~dev'.online /\ dev'.since = 0 /\ dev'.ping = dev.ping
      BY <1>a, <2>0, <2>2, <3>1 DEF set_device_offline, Device
    <3>3. pings > 0 => pings = 1 /\ dev.ping <= 1
      BY SMT, <1>b, <3>1, ConnectivityAssumption DEF PingInv, OnlineInv
    <3>4. CASE pings = 0
      BY <1>z, <2>0, <3>4
    <3>5. CASE pings = 1
      <4>1. (pings' - 1) * OfflineInterval = 0
        BY SMT, <2>0, <3>5, ConnectivityAssumption
      <4> QED
        BY SMT, <1>b, <2>0, <3>2, <3>3, <3>5, <4>1, ConnectivityAssumption DEF PingInv, PingBudget
    <3> QED
      BY SMT, <1>a, <3>3, <3>4, <3>5
  <2> QED
    BY <2>1, <2>2
<1>6. CASE Contact
  BY <1>6, <1>e, <1>z DEF Contact, touch
<1>7. CASE handle_registration \/ handle_delete \/ expire_stale
  BY <1>7, <1>z DEF handle_registration, handle_delete, expire_stale
<1>10. CASE take_ping_candidates
  <2>1. CASE dev.registered /\ needs_ping(dev)
    <3>1. dev' = [dev EXCEPT !.ping = 0] /\ pings' = pings + 1
      BY <1>10, <2>1 DEF take_ping_candidates
    <3>2. /\ dev'.registered = dev.registered /\ dev'.online = dev.online /\ dev'.since = dev.since
          /\ dev'.contact = dev.contact /\ dev'.ping = 0
      BY <1>a, <3>1 DEF Device
    <3>3. CASE dev.online
      <4>1. pings = 0
        BY SMT, <1>a, <1>b, <2>1, <3>3, ConnectivityAssumption DEF PingInv, OnlineInv, needs_ping
      <4> QED
        BY SMT, <1>b, <2>1, <3>1, <3>2, <3>3, <4>1, ConnectivityAssumption DEF PingInv, needs_ping
    <3>4. CASE ~dev.online
      <4>1. dev.since < Window /\ dev.ping >= OfflineInterval
        BY <2>1, <3>4 DEF needs_ping
      <4>2. pings * OfflineInterval <= dev.since + 1
        <5>1. CASE pings = 0
          BY SMT, <1>b, <5>1, ConnectivityAssumption
        <5>2. CASE pings > 0
          <6>1. (pings - 1) * OfflineInterval + dev.ping <= dev.since + 1
            BY <2>1, <3>4, <4>1, <5>2 DEF PingInv
          <6>2. pings * OfflineInterval = (pings - 1) * OfflineInterval + OfflineInterval
            BY SMT, <1>a, ConnectivityAssumption
          <6>3. (pings - 1) * OfflineInterval \in Int
            BY SMT, <1>a, ConnectivityAssumption
          <6> QED
            BY SMT, <1>b, <4>1, <6>1, <6>2, <6>3, ConnectivityAssumption
        <5> QED
          BY SMT, <1>a, <5>1, <5>2
      <4>3. (pings' - 1) * OfflineInterval = pings * OfflineInterval
        BY SMT, <1>a, <3>1
      <4>4. pings * OfflineInterval \in Int
        BY SMT, <1>a, ConnectivityAssumption
      <4> QED
        BY SMT, <1>b, <2>1, <3>2, <3>4, <4>1, <4>2, <4>3, <4>4, ConnectivityAssumption
           DEF PingInv, PingBudget
    <3> QED
      BY <3>3, <3>4
  <2>2. CASE ~(dev.registered /\ needs_ping(dev))
    BY <1>10, <1>e, <2>2 DEF take_ping_candidates
  <2> QED
    BY <2>1, <2>2
<1>11. CASE Tick
  <2>0. pings' = pings
    BY <1>11 DEF Tick
  <2>1. CASE ~dev.registered
    BY <1>11, <1>e, <2>0, <2>1 DEF Tick
  <2>2. CASE dev.registered
    <3>1. /\ dev'.registered /\ dev'.online = dev.online
          /\ dev'.contact = Older(dev.contact) /\ dev'.ping = Older(dev.ping)
          /\ ~dev.online => dev'.since = Older(dev.since)
      BY <1>11, <1>a, <2>2 DEF Tick, Device
    <3>2. dev'.ping \in Nat /\ dev'.ping <= dev.ping + 1
      BY SMT, <1>b, <3>1, ConnectivityAssumption DEF Older
    <3>3. CASE dev.online
      <4>1. dev'.contact = dev.contact + 1
        BY SMT, <1>b, <2>2, <3>1, <3>3, ConnectivityAssumption DEF OnlineInv, Older
      <4> QED
        BY SMT, <1>b, <2>0, <2>2, <3>1, <3>2, <3>3, <4>1, ConnectivityAssumption DEF PingInv
    <3>4. CASE ~dev.online
      <4>1. dev'.since < Window => dev.since < Window /\ dev'.since = dev.since + 1
        BY SMT, <1>b, <3>1, <3>4, ConnectivityAssumption DEF Older
      <4>2. (pings - 1) * OfflineInterval \in Int
        BY SMT, <1>a, ConnectivityAssumption
      <4>3. pings > 0 /\ dev'.since < Window
            => (pings - 1) * OfflineInterval + dev'.ping <= dev'.since + 1
        BY SMT, <1>b, <2>2, <3>2, <3>4, <4>1, <4>2 DEF PingInv
      <4> QED
        BY <2>0, <2>2, <3>1, <3>4, <4>3 DEF PingInv, PingBudget
    <3> QED
      BY <3>3, <3>4
  <2> QED
    BY <2>1, <2>2
<1>12. ASSUME NEW a \in Addr, NEW u \in BOOLEAN, World(a, u) PROVE PingInv'
  BY <1>12, <1>e DEF World
<1>13. ASSUME NEW a \in Addr, restore(a) PROVE PingInv'
  BY <1>13, <1>z DEF restore
<1>14. CASE UNCHANGED vars
  BY <1>14, <1>e DEF vars
<1> QED
  BY <1>1, <1>k, <1>2, <1>3, <1>6, <1>7, <1>10, <1>11, <1>12, <1>13, <1>14 DEF Next, Ends

-----------------------------------------------------------------------------
(* The theorems.                                                           *)

\* The invariant holds at the start and every step keeps it.
THEOREM ConnectivityInvariant == Spec => []ConnectivityInv
<1>1. Init => ConnectivityInv
  <2> SUFFICES ASSUME Init PROVE ConnectivityInv
    OBVIOUS
  <2>1. TypeOK
    BY InitTypes
  <2>2. ~dev.registered /\ reach = 0 /\ pings = 0
    BY DEF Init, Unregistered, NewDevice
  <2>3. OnlineInv /\ StaleInv /\ OfflineInv
    BY <2>2 DEF OnlineInv, StaleInv, OfflineInv
  <2> QED
    BY <2>1, <2>2, <2>3, NoPings DEF ConnectivityInv
<1>2. ConnectivityInv /\ [Next]_vars => ConnectivityInv'
  BY NextTypes, NextOnline, NextReach, NextPings DEF ConnectivityInv
<1> QED
  BY <1>1, <1>2, PTL DEF Spec

\* An online device has been heard from within ONLINE_PING_INTERVAL and the
\* tick its ping takes: take_ping_candidates pings it in time, and the ping
\* ends with contact or with mark_device_offline.
THEOREM OnlineIsRecent == Spec => []SilenceBounded
<1>1. ConnectivityInv => SilenceBounded
  BY DEF ConnectivityInv, OnlineInv, SilenceBounded
<1> QED
  BY <1>1, ConnectivityInvariant, PTL

\* A device that can be reached is shown as online again within
\* OFFLINE_PING_INTERVAL and two ticks, while take_ping_candidates still pings
\* it.
THEOREM OfflineIsCurrent == Spec => []ComesBackInTime
<1>1. ConnectivityInv => ComesBackInTime
  <2> SUFFICES ASSUME ConnectivityInv, dev.registered, ~dev.online, reach > OfflineInterval + 2,
                      dev.since < Window
               PROVE  FALSE
    BY SMT, ConnectivityAssumption DEF ComesBackInTime, ConnectivityInv, TypeOK, Device, Age
  <2>1. reach \in Nat /\ dev.ping \in Nat
    BY SMT, ConnectivityAssumption DEF ConnectivityInv, TypeOK, Device, Age
  <2>2. reach > 2 /\ reach > 1 /\ ~(reach <= OfflineInterval + 1) /\ ~(reach <= OfflineInterval + 2)
    BY SMT, <2>1, ConnectivityAssumption
  <2>3. dev.ping >= reach - 1 /\ dev.ping <= OfflineInterval
    BY <2>2 DEF ConnectivityInv, OfflineInv
  <2> QED
    BY SMT, <2>1, <2>3, ConnectivityAssumption
<1> QED
  BY <1>1, ConnectivityInvariant, PTL

\* take_ping_candidates pings a silent device at most once for each
\* OFFLINE_PING_INTERVAL of OFFLINE_PING_MAX_DURATION, and once before.
THEOREM PingsAreBounded == Spec => []PingBudget
<1>1. ConnectivityInv => PingBudget
  <2> SUFFICES ASSUME ConnectivityInv PROVE PingBudget
    OBVIOUS
  <2>1. pings \in Nat
    BY DEF ConnectivityInv, TypeOK
  <2>2. CASE pings = 0
    BY SMT, <2>2, ConnectivityAssumption DEF PingBudget
  <2>3. CASE pings = 1
    BY SMT, <2>3, ConnectivityAssumption DEF PingBudget
  <2>4. CASE pings > 1
    BY SMT, <2>1, <2>4 DEF ConnectivityInv, PingInv
  <2> QED
    BY SMT, <2>1, <2>2, <2>3, <2>4
<1> QED
  BY <1>1, ConnectivityInvariant, PTL

\* Every variable keeps its type.
THEOREM TypeCorrect == Spec => []TypeOK
<1>1. ConnectivityInv => TypeOK
  BY DEF ConnectivityInv
<1> QED
  BY <1>1, ConnectivityInvariant, PTL
=============================================================================
