------------------------ MODULE DeviceRegistryProofs ------------------------
(***************************************************************************)
(* Proofs about DeviceRegistry, for any number of devices, addresses,      *)
(* operations, lifetimes and restarts.                                     *)
(***************************************************************************)
EXTENDS DeviceRegistry, HashMapTheorems

\* Most leaves are first-order reasoning; the others name SMT.
USE Zenon

USE DEF DeviceId, Age

-----------------------------------------------------------------------------
(* Typing of the parts of a device.                                        *)

\* The in-flight table of a device is a map from tokens to operations.
LEMMA FlightIsMap ==
    ASSUME NEW f
    PROVE  f \in Flight <=> IsMap(f, Token, Op)
BY DEF Flight, IsMap

\* A new in-flight table, and a table an operation is added to or removed
\* from, is an in-flight table (place_in_flight, complete_in_flight).
LEMMA FlightType ==
    /\ EmptyMap \in Flight
    /\ \A f \in Flight, t \in Token, op \in Op : Insert(f, t, op) \in Flight
    /\ \A f \in Flight : \A S : RemoveAll(f, S) \in Flight
BY FlightIsMap, EmptyMapType, InsertType, RemoveAllType

\* Device::new and restore build devices.
LEMMA NewDeviceType ==
    ASSUME NEW e \in Endpoint, NEW a \in Addr, NEW lt \in Nat, NEW b \in BOOLEAN
    PROVE  [endpoint |-> e, addr |-> a, lifetime |-> lt, age |-> 0,
            online |-> b, in_flight |-> EmptyMap] \in Device
BY SMT, FlightType, RegistryAssumption DEF Device

\* Device fields after an assignment.
LEMMA DeviceUpdateType ==
    ASSUME NEW d \in Device
    PROVE  /\ \A a \in Addr, lt \in Nat :
                [d EXCEPT !.addr = a, !.lifetime = lt, !.age = 0] \in Device
           /\ \A lt \in Nat : [d EXCEPT !.age = 0, !.lifetime = lt] \in Device
           /\ \A a \in Addr : [d EXCEPT !.addr = a, !.online = TRUE] \in Device
           /\ [d EXCEPT !.online = FALSE] \in Device
           /\ \A f \in Flight : [d EXCEPT !.in_flight = f] \in Device
           /\ \A n \in Age : [d EXCEPT !.age = n] \in Device
<1>0. 0 \in Age
  BY SMT, RegistryAssumption
<1>1. \A a \in Addr, lt \in Nat :
        [d EXCEPT !.addr = a, !.lifetime = lt, !.age = 0] \in Device
  BY <1>0 DEF Device
<1>2. \A lt \in Nat : [d EXCEPT !.age = 0, !.lifetime = lt] \in Device
  BY <1>0 DEF Device
<1>3. \A a \in Addr : [d EXCEPT !.addr = a, !.online = TRUE] \in Device
  BY DEF Device
<1>4. [d EXCEPT !.online = FALSE] \in Device
  BY DEF Device
<1>5. \A f \in Flight : [d EXCEPT !.in_flight = f] \in Device
  BY DEF Device
<1>6. \A n \in Age : [d EXCEPT !.age = n] \in Device
  BY DEF Device
<1>7. QED
  BY <1>1, <1>2, <1>3, <1>4, <1>5, <1>6

\* The operations of a device, and settling operations, are well typed.
LEMMA SettleType ==
    ASSUME status \in [Op -> Status], NEW O, NEW outcome \in Status
    PROVE  Settle(O, outcome) \in [Op -> Status]
BY DEF Settle

\* The next id handed out is a u32 (wrapping_add(1).max(1)).
LEMMA NextIdType ==
    ASSUME NEW id \in DeviceId
    PROVE  NextId(id) \in DeviceId
BY SMT, RegistryAssumption DEF NextId

\* An age stays within its bound as time passes.
LEMMA OlderType ==
    ASSUME NEW n \in Age
    PROVE  Older(n) \in Age
BY SMT, RegistryAssumption DEF Older

\* The scope-free form of an address is an address (persistence::load_registry).
LEMMA UnscopedType ==
    ASSUME NEW a \in Addr
    PROVE  Unscoped(a) \in Addr
BY RegistryAssumption DEF Unscoped, Addr

\* Removing devices keeps the three indexes and the operation table well
\* typed (expire_stale, remove_by_addr).
LEMMA PurgeType ==
    ASSUME TypeOK, NEW I, NEW A, Purge(I, A)
    PROVE  /\ IsMap(by_id, DeviceId, Device)'
           /\ IsMap(by_endpoint, Endpoint, DeviceId)'
           /\ IsMap(by_addr, Addr, DeviceId)'
           /\ next_id' \in DeviceId
           /\ status' \in [Op -> Status]
BY RemoveAllType, SettleType DEF Purge, TypeOK, Status

\* Taking an operation out of a device's in-flight table keeps the devices
\* and the operation table well typed (complete_in_flight).
LEMMA CompleteType ==
    ASSUME TypeOK, NEW a, NEW t, NEW outcome \in Status,
           complete_in_flight(a, t, outcome)
    PROVE  IsMap(by_id, DeviceId, Device)' /\ status' \in [Op -> Status]
<1> DEFINE id == by_addr[a]
           f  == by_id[id].in_flight
<1>1. CASE Live(by_addr, a) /\ t \in DOMAIN f
  <2>1. id \in DOMAIN by_id /\ by_id[id] \in Device
    BY <1>1, ValueType DEF Live, TypeOK
  <2>2. f \in Flight /\ Remove(f, t) \in Flight
    BY <2>1, FlightType DEF Device, Remove
  <2>3. by_id' = [by_id EXCEPT ![id] = [by_id[id] EXCEPT !.in_flight = Remove(f, t)]]
    BY <1>1 DEF complete_in_flight
  <2>4. status' = [status EXCEPT ![f[t]] = outcome]
    BY <1>1 DEF complete_in_flight
  <2>5. QED BY <2>1, <2>2, <2>3, <2>4, UpdateType, DeviceUpdateType DEF TypeOK
<1>2. CASE ~(Live(by_addr, a) /\ t \in DOMAIN f)
  BY <1>2 DEF complete_in_flight, TypeOK
<1>3. QED BY <1>1, <1>2

-----------------------------------------------------------------------------
(* The type invariant.                                                     *)

\* Every step of every task keeps the registry, the file and the operation
\* table well typed.
LEMMA TypeStep ==
    ASSUME TypeOK, [Next]_vars
    PROVE  TypeOK'
<1> USE DEF TypeOK
<1>1. ASSUME NEW p \in Arriving, handle_packet(p)
      PROVE  TypeOK'
  <2>1. p \in Packet /\ p.addr \in Addr
    BY RegistryAssumption DEF Arriving, Packet, RdPacket, UpdatePacket, DeletePacket, AckPacket, OtherPacket
  <2>2. IsMap(by_id, DeviceId, Device)'
    <3>1. CASE p.addr \in DOMAIN by_addr
      BY <1>1, <2>1, <3>1, ValueType, UpdateType, DeviceUpdateType DEF handle_packet, touch, Live
    <3>2. CASE p.addr \notin DOMAIN by_addr
      BY <1>1, <3>2 DEF handle_packet, touch
    <3>3. QED BY <3>1, <3>2
  <2>3. QED BY <1>1, <2>1, <2>2 DEF handle_packet, history
<1>2. ASSUME handle_registration PROVE TypeOK'
  <2>1. rx \in RdPacket
    BY SMT, <1>2 DEF handle_registration, Packet, UpdatePacket, DeletePacket, AckPacket, OtherPacket, NoPacket
  <2>2. rx.ep \in Endpoint /\ rx.addr \in Addr /\ rx.addr \in Source /\ rx.lt \in Nat /\ rx.lt \in Lifetime
    BY <2>1, RegistryAssumption DEF RdPacket
  <2>3. IsMap(client, Endpoint, Client)'
    <3>1. [home |-> rx.addr, declared |-> rx.lt, quiet |-> 0] \in Client
      BY SMT, <2>2, RegistryAssumption DEF Client
    <3>2. QED BY <1>2, <2>2, <3>1, InsertType DEF handle_registration
  <2>4. /\ IsMap(by_id, DeviceId, Device)'
        /\ IsMap(by_endpoint, Endpoint, DeviceId)'
        /\ IsMap(by_addr, Addr, DeviceId)'
        /\ next_id' \in DeviceId
        /\ status' \in [Op -> Status]
        /\ wrapped' \in BOOLEAN
    <3>1. CASE rx.ep \in DOMAIN by_endpoint
      <4> DEFINE id == by_endpoint[rx.ep]
      <4>1. reregister(rx.ep, rx.addr, rx.lt) /\ id \in DOMAIN by_id
        BY <1>2, <3>1 DEF handle_registration, register, reregister, Live
      <4>2. id \in DeviceId /\ by_id[id] \in Device
        BY <4>1, ValueType
      <4>3. IsMap(by_id, DeviceId, Device)'
        BY <4>1, <4>2, <2>2, UpdateType, DeviceUpdateType DEF reregister
      <4>4. IsMap(by_addr, Addr, DeviceId)'
        BY <4>1, <4>2, <2>2, InsertType, RemoveAllType DEF reregister, Remove
      <4>5. QED BY <4>1, <4>3, <4>4 DEF reregister
    <3>2. CASE rx.ep \notin DOMAIN by_endpoint
      <4>1. register_new(rx.ep, rx.addr, rx.lt)
        BY <1>2, <3>2 DEF handle_registration, register
      <4>2. NewDevice(rx.ep, rx.addr, rx.lt) \in Device
        BY <2>2, NewDeviceType DEF NewDevice
      <4>3. /\ IsMap(by_id, DeviceId, Device)'
            /\ IsMap(by_endpoint, Endpoint, DeviceId)'
            /\ IsMap(by_addr, Addr, DeviceId)'
            /\ next_id' \in DeviceId
        BY <4>1, <4>2, <2>2, InsertType, NextIdType DEF register_new
      <4>4. status' \in [Op -> Status]
        BY <4>1, SettleType DEF register_new, Status
      <4>5. QED BY <4>1, <4>3, <4>4 DEF register_new
    <3>3. QED BY <3>1, <3>2
  <2>5. shared' \in BOOLEAN
    BY <1>2 DEF handle_registration, register
  <2>6. QED BY <1>2, <2>3, <2>4, <2>5 DEF handle_registration
<1>3. ASSUME handle_update PROVE TypeOK'
  <2>1. rx \in UpdatePacket
    BY SMT, <1>3 DEF handle_update, Packet, RdPacket, DeletePacket, AckPacket, OtherPacket, NoPacket
  <2>2. rx.ep \in Endpoint /\ (rx.lt = NoLt \/ (rx.lt \in Nat /\ rx.lt \in Lifetime))
    BY <2>1, RegistryAssumption DEF UpdatePacket
  <2>3. IsMap(client, Endpoint, Client)'
    <3>1. CASE rx.ep \in DOMAIN client
      <4> DEFINE lt == IF rx.lt = NoLt THEN client[rx.ep].declared ELSE rx.lt
                 c  == [client[rx.ep] EXCEPT !.quiet = 0, !.declared = lt]
      <4>1. client[rx.ep] \in Client
        BY <3>1, ValueType
      <4>2. c \in Client
        <5>1. lt \in Lifetime
          BY <4>1, <2>2 DEF Client
        <5>2. 0 \in Age
          BY SMT, RegistryAssumption
        <5> HIDE DEF lt
        <5>3. QED BY <4>1, <5>1, <5>2 DEF Client
      <4>3. client' = [client EXCEPT ![rx.ep] = c] \/ client' = client
        BY <1>3 DEF handle_update
      <4> HIDE DEF c
      <4>4. IsMap([client EXCEPT ![rx.ep] = c], Endpoint, Client)
        BY <3>1, <4>2, UpdateType
      <4>5. QED BY <4>3, <4>4
    <3>2. CASE rx.ep \notin DOMAIN client
      BY <1>3, <3>2 DEF handle_update, IsMap
    <3>3. QED BY <3>1, <3>2
  <2>4. IsMap(by_id, DeviceId, Device)'
    <3>1. CASE Live(by_addr, rx.addr)
      <4> DEFINE id == by_addr[rx.addr]
                 lt == IF rx.lt = NoLt THEN by_id[id].lifetime ELSE rx.lt
      <4>1. id \in DOMAIN by_id /\ by_id[id] \in Device
        BY SMT, <3>1, ValueType DEF Live
      <4>2. lt \in Nat
        BY <4>1, <2>2 DEF Device
      <4>3. by_id' = [by_id EXCEPT ![id] = [by_id[id] EXCEPT !.age = 0, !.lifetime = lt]]
        BY <1>3, <3>1 DEF handle_update, renew_registration
      <4>4. QED BY <4>1, <4>2, <4>3, UpdateType, DeviceUpdateType
    <3>2. CASE ~Live(by_addr, rx.addr)
      BY <1>3, <3>2 DEF handle_update, renew_registration
    <3>3. QED BY <3>1, <3>2
  <2>5. shared' \in BOOLEAN
    BY <1>3 DEF handle_update
  <2>6. QED BY <1>3, <2>3, <2>4, <2>5 DEF handle_update
<1>4. ASSUME handle_delete PROVE TypeOK'
  <2>1. rx \in Packet
    BY SMT, <1>4 DEF handle_delete, NoPacket
  <2>2. IsMap(client, Endpoint, Client)'
    BY <1>4, RemoveAllType DEF handle_delete, Remove
  <2>3. shared' \in BOOLEAN
    BY <1>4 DEF handle_delete
  <2>4. QED BY <1>4, <2>2, <2>3, PurgeType DEF handle_delete, remove_by_addr, Live
<1>5. ASSUME handle_ack PROVE TypeOK'
  BY <1>5, CompleteType DEF handle_ack, history, Status
<1>6. ASSUME reply_fails PROVE TypeOK'
  BY <1>6 DEF reply_fails, registry, history
<1>7. ASSUME NEW op \in Op, NEW a \in Source, place_in_flight(op, a)
      PROVE  TypeOK'
  <2>1. status' \in [Op -> Status]
    BY <1>7 DEF place_in_flight, Status
  <2>2. IsMap(by_id, DeviceId, Device)'
    <3>1. CASE Live(by_addr, a)
      <4> DEFINE id == by_addr[a]
                 f  == Insert(by_id[id].in_flight, TokenOf[op], op)
      <4>1. id \in DOMAIN by_id /\ by_id[id] \in Device /\ TokenOf[op] \in Token
        BY SMT, <3>1, ValueType, RegistryAssumption DEF Live
      <4>2. f \in Flight
        BY <4>1, FlightType DEF Device
      <4>3. by_id' = [by_id EXCEPT ![id] = [by_id[id] EXCEPT !.in_flight = f]]
        BY <1>7, <3>1 DEF place_in_flight
      <4>4. QED BY <4>1, <4>2, <4>3, UpdateType, DeviceUpdateType
    <3>2. CASE ~Live(by_addr, a)
      BY <1>7, <3>2 DEF place_in_flight
    <3>3. QED BY <3>1, <3>2
  <2>3. QED BY <1>7, <2>1, <2>2 DEF place_in_flight, history
<1>8. ASSUME NEW a \in Addr, NEW t \in Token, final_timeout(a, t)
      PROVE  TypeOK'
  BY <1>8, CompleteType DEF final_timeout, history, Status
<1>9. ASSUME NEW a \in Addr, set_device_offline(a) PROVE TypeOK'
  <2>1. by_addr[a] \in DOMAIN by_id /\ by_id[by_addr[a]] \in Device
    BY <1>9, ValueType DEF set_device_offline, Live
  <2>2. IsMap(by_id, DeviceId, Device)'
    BY <1>9, <2>1, UpdateType, DeviceUpdateType DEF set_device_offline
  <2>3. QED BY <1>9, <2>2 DEF set_device_offline, history
<1>10. ASSUME expire_stale PROVE TypeOK'
  BY <1>10, PurgeType DEF expire_stale, history, Expired
<1>11. ASSUME NEW O \in SUBSET Op, timeout_in_flight(O) PROVE TypeOK'
  <2>1. status' \in [Op -> Status]
    BY <1>11, SettleType DEF timeout_in_flight, Status
  <2>2. \A id \in DOMAIN by_id : id \in DeviceId /\ by_id'[id] \in Device
    <3> SUFFICES ASSUME NEW id \in DOMAIN by_id
                 PROVE  id \in DeviceId /\ by_id'[id] \in Device
      OBVIOUS
    <3> DEFINE f == by_id[id].in_flight
               g == RemoveAll(f, {t \in DOMAIN f : f[t] \in O})
    <3>1. id \in DeviceId /\ by_id[id] \in Device
      BY ValueType
    <3>2. g \in Flight
      BY <3>1, FlightType DEF Device
    <3>3. by_id'[id] = [by_id[id] EXCEPT !.in_flight = g]
      BY <1>11 DEF timeout_in_flight
    <3>4. QED BY <3>1, <3>2, <3>3, DeviceUpdateType
  <2>3. IsMap(by_id, DeviceId, Device)'
    BY <1>11, <2>2 DEF timeout_in_flight, IsMap
  <2>4. QED BY <1>11, <2>1, <2>3 DEF timeout_in_flight, history
<1>12. ASSUME NEW a \in Addr, remove_device(a) PROVE TypeOK'
  BY <1>12, PurgeType DEF remove_device, remove_by_addr, Live, history
<1>13. ASSUME save_registry PROVE TypeOK'
  <2>1. \A id \in DOMAIN by_id : id \in DeviceId /\ snapshot[id] \in Snapshot
    <3> SUFFICES ASSUME NEW id \in DOMAIN by_id
                 PROVE  id \in DeviceId /\ snapshot[id] \in Snapshot
      OBVIOUS
    <3>1. id \in DeviceId /\ by_id[id] \in Device
      BY ValueType
    <3>2. QED BY SMT, <3>1 DEF snapshot, Snapshot, Device
  <2>2. IsMap(snapshot, DeviceId, Snapshot)
    BY <2>1 DEF snapshot, IsMap
  <2>3. QED BY <1>13, <2>2 DEF save_registry, registry, history
<1>14. ASSUME NEW I \in SUBSET DOMAIN wakaama, restart(I) PROVE TypeOK'
  <2> DEFINE R == {id \in I : wakaama[id].left > 0}
  <2>1. \A id \in R : /\ id \in DeviceId
                      /\ wakaama[id] \in Snapshot
                      /\ Unscoped(wakaama[id].addr) \in Addr
    <3> SUFFICES ASSUME NEW id \in R
                 PROVE  /\ id \in DeviceId
                        /\ wakaama[id] \in Snapshot
                        /\ Unscoped(wakaama[id].addr) \in Addr
      OBVIOUS
    <3>1. id \in DeviceId /\ wakaama[id] \in Snapshot
      BY ValueType
    <3>2. wakaama[id].addr \in Addr
      BY <3>1 DEF Snapshot
    <3>3. QED BY <3>1, <3>2, UnscopedType
  <2>2. IsMap(by_id, DeviceId, Device)'
    <3>1. \A id \in R : by_id'[id] \in Device
      BY <1>14, <2>1, NewDeviceType DEF restart, restore, load_registry, Snapshot
    <3>2. QED BY <1>14, <2>1, <3>1 DEF restart, restore, load_registry, IsMap
  <2>3. IsMap(by_endpoint, Endpoint, DeviceId)'
    BY <1>14, <2>1 DEF restart, restore, load_registry, IsMap, Snapshot
  <2>4. IsMap(by_addr, Addr, DeviceId)'
    BY <1>14, <2>1 DEF restart, restore, load_registry, IsMap
  <2>5. next_id' \in DeviceId
    BY SMT, <1>14, <2>1, RegistryAssumption DEF restart, restore, load_registry, RestoredNextId
  <2>6. QED BY SMT, <1>14, <2>2, <2>3, <2>4, <2>5, RegistryAssumption DEF restart, restore, load_registry, Status
<1>15. ASSUME Tick PROVE TypeOK'
  <2>1. \A id \in DOMAIN by_id : id \in DeviceId /\ by_id'[id] \in Device
    <3> SUFFICES ASSUME NEW id \in DOMAIN by_id
                 PROVE  id \in DeviceId /\ by_id'[id] \in Device
      OBVIOUS
    <3>1. id \in DeviceId /\ by_id[id] \in Device
      BY ValueType
    <3>2. Older(by_id[id].age) \in Age
      BY <3>1, OlderType DEF Device
    <3>3. QED BY <1>15, <3>1, <3>2, DeviceUpdateType DEF Tick
  <2>2. \A e \in DOMAIN client : e \in Endpoint /\ client'[e] \in Client
    <3> SUFFICES ASSUME NEW e \in DOMAIN client
                 PROVE  e \in Endpoint /\ client'[e] \in Client
      OBVIOUS
    <3>1. e \in Endpoint /\ client[e] \in Client
      BY ValueType
    <3>2. Older(client[e].quiet) \in Age
      BY <3>1, OlderType DEF Client
    <3>3. QED BY <1>15, <3>1, <3>2 DEF Tick, Client
  <2>3. \A id \in DOMAIN wakaama : id \in DeviceId /\ wakaama'[id] \in Snapshot
    <3> SUFFICES ASSUME NEW id \in DOMAIN wakaama
                 PROVE  id \in DeviceId /\ wakaama'[id] \in Snapshot
      OBVIOUS
    <3>1. id \in DeviceId /\ wakaama[id] \in Snapshot
      BY ValueType
    <3>2. QED BY SMT, <1>15, <3>1 DEF Tick, Snapshot
  <2>4. /\ IsMap(by_id, DeviceId, Device)'
        /\ IsMap(client, Endpoint, Client)'
        /\ IsMap(wakaama, DeviceId, Snapshot)'
    BY <1>15, <2>1, <2>2, <2>3 DEF Tick, IsMap
  <2>5. QED BY <1>15, <2>4 DEF Tick
<1>16. CASE UNCHANGED vars
  BY <1>16 DEF vars
<1>17. QED
  BY <1>1, <1>2, <1>3, <1>4, <1>5, <1>6, <1>7, <1>8, <1>9, <1>10, <1>11,
     <1>12, <1>13, <1>14, <1>15, <1>16 DEF Next

\* TypeOK is an invariant: ids stay within u32, ages within their bound, and
\* no map gains a key or a value of the wrong kind.
THEOREM TypeCorrect == Spec => []TypeOK
<1>1. Init => TypeOK
  <2> SUFFICES ASSUME Init PROVE TypeOK
    OBVIOUS
  <2>1. 1 \in DeviceId /\ 0 \in 0 .. MaxRestart
    BY SMT, RegistryAssumption
  <2>2. QED BY <2>1, EmptyMapType DEF Init, TypeOK, Status
<1>2. TypeOK /\ [Next]_vars => TypeOK'
  BY TypeStep
<1>3. QED
  BY <1>1, <1>2, PTL DEF Spec

-----------------------------------------------------------------------------
(* The indexes agree.                                                      *)

\* A step that keeps every device's endpoint and address, and the two other
\* indexes, keeps the indexes consistent (touch, renew_registration,
\* complete_in_flight, timeouts, the passing of time).
LEMMA KeysKept ==
    ASSUME IndexInv, TypeOK',
           DOMAIN by_id' = DOMAIN by_id,
           \A id \in DOMAIN by_id : /\ by_id'[id].endpoint = by_id[id].endpoint
                                    /\ by_id'[id].addr = by_id[id].addr,
           UNCHANGED <<by_endpoint, by_addr, next_id, wrapped>>,
           SavedDistinct'
    PROVE  IndexInv'
BY DEF IndexInv, IndexConsistent, NextIdFresh

\* Removing devices together with every index entry that leads to them keeps
\* the indexes consistent (expire_stale, remove_by_addr).
LEMMA PurgeIndex ==
    ASSUME IndexInv, TypeOK', NEW I \in SUBSET DOMAIN by_id, NEW A, Purge(I, A),
           {by_id[id].addr : id \in I} \subseteq A,
           UNCHANGED <<wakaama, wrapped>>
    PROVE  IndexInv'
<1>1. SavedDistinct'
  BY DEF IndexInv, SavedDistinct
<1>2. NextIdFresh'
  BY RemoveAllValue DEF IndexInv, NextIdFresh, Purge
<1>3. IndexConsistent'
  <2> SUFFICES ASSUME ~wrapped PROVE IndexConsistent'
    BY DEF IndexConsistent
  <2>1. DOMAIN by_id' = DOMAIN by_id \ I /\ \A id \in DOMAIN by_id' : by_id'[id] = by_id[id]
    BY DEF Purge, RemoveAll
  <2>2. /\ DOMAIN by_addr' = DOMAIN by_addr \ A
        /\ \A a \in DOMAIN by_addr' : by_addr'[a] = by_addr[a]
    BY DEF Purge, RemoveAll
  <2>3. /\ DOMAIN by_endpoint' = DOMAIN by_endpoint \ {by_id[id].endpoint : id \in I}
        /\ \A e \in DOMAIN by_endpoint' : by_endpoint'[e] = by_endpoint[e]
    BY DEF Purge, RemoveAll
  <2>4. QED BY SMT, <2>1, <2>2, <2>3 DEF IndexInv, IndexConsistent
<1>4. QED BY <1>1, <1>2, <1>3 DEF IndexInv

\* Removing the device at an address keeps the indexes consistent
\* (handle_delete, exclusion, the factory-reset timer).
LEMMA RemoveIndex ==
    ASSUME IndexInv, TypeOK', NEW a, remove_by_addr(a), UNCHANGED <<wakaama, wrapped>>
    PROVE  IndexInv'
<1>1. CASE Live(by_addr, a)
  <2>1. Purge({by_addr[a]}, {a}) /\ by_addr[a] \in DOMAIN by_id
    BY <1>1 DEF remove_by_addr, Live
  <2>2. CASE wrapped
    BY <2>2 DEF IndexInv, IndexConsistent, NextIdFresh, SavedDistinct
  <2>3. CASE ~wrapped
    <3>1. by_id[by_addr[a]].addr = a
      BY <1>1, <2>3 DEF IndexInv, IndexConsistent, Live
    <3>2. QED BY <2>1, <3>1, PurgeIndex
  <2>4. QED BY <2>2, <2>3
<1>2. CASE ~Live(by_addr, a)
  BY SMT, <1>2 DEF remove_by_addr, IndexInv, IndexConsistent, NextIdFresh, SavedDistinct
<1>3. QED BY <1>1, <1>2

\* complete_in_flight changes nothing but one in-flight table.
LEMMA CompleteKeys ==
    ASSUME TypeOK, NEW a, NEW t, NEW outcome, complete_in_flight(a, t, outcome)
    PROVE  /\ DOMAIN by_id' = DOMAIN by_id
           /\ \A id \in DOMAIN by_id : /\ by_id'[id].endpoint = by_id[id].endpoint
                                       /\ by_id'[id].addr = by_id[id].addr
<1>1. \A id \in DOMAIN by_id : by_id[id] \in Device
  BY ValueType DEF TypeOK
<1>2. QED BY SMT, <1>1 DEF complete_in_flight, Device, TypeOK, IsMap

\* Every step of every task keeps IndexInv.
LEMMA IndexStep ==
    ASSUME IndexInv, [Next]_vars
    PROVE  IndexInv'
<1>0. TypeOK /\ TypeOK'
  BY TypeStep DEF IndexInv
<1>0a. \A id \in DOMAIN by_id : id \in DeviceId /\ by_id[id] \in Device
  BY <1>0, ValueType DEF TypeOK
<1>0b. ASSUME UNCHANGED <<wakaama, wrapped>> PROVE SavedDistinct'
  BY <1>0b DEF IndexInv, SavedDistinct
<1>1. ASSUME NEW p \in Arriving, handle_packet(p)
      PROVE  IndexInv'
  <2>1. SavedDistinct'
    BY <1>0b, <1>1 DEF handle_packet, history
  <2>2. CASE wrapped
    BY <1>0, <1>1, <2>1, <2>2 DEF handle_packet, history, IndexInv, IndexConsistent, NextIdFresh
  <2>3. CASE ~wrapped
    <3>1. DOMAIN by_id' = DOMAIN by_id
      BY <1>1 DEF handle_packet, touch
    <3>2. \A id \in DOMAIN by_id : /\ by_id'[id].endpoint = by_id[id].endpoint
                                   /\ by_id'[id].addr = by_id[id].addr
      <4>1. CASE p.addr \in DOMAIN by_addr
        <5>1. by_id[by_addr[p.addr]].addr = p.addr
          BY <2>3, <4>1 DEF IndexInv, IndexConsistent
        <5>2. QED BY <1>0a, <1>1, <4>1, <5>1 DEF handle_packet, touch, Device
      <4>2. CASE p.addr \notin DOMAIN by_addr
        BY <1>1, <4>2 DEF handle_packet, touch
      <4>3. QED BY <4>1, <4>2
    <3>3. QED BY <1>0, <1>1, <2>1, <3>1, <3>2, KeysKept DEF handle_packet, history
  <2>4. QED BY <2>2, <2>3
<1>2. ASSUME handle_registration PROVE IndexInv'
  <2> DEFINE e  == rx.ep
             a  == rx.addr
             lt == rx.lt
  <2>1. SavedDistinct'
    <3>1. wrapped' = FALSE => wrapped = FALSE
      BY <1>0, <1>2 DEF handle_registration, register, reregister, register_new, TypeOK
    <3>2. QED BY <1>0, <1>2, <3>1 DEF handle_registration, IndexInv, SavedDistinct, TypeOK
  <2>2. CASE e \in DOMAIN by_endpoint
    <3> DEFINE id  == by_endpoint[e]
               old == by_id[id].addr
    <3>1. reregister(e, a, lt) /\ id \in DOMAIN by_id /\ wrapped' = wrapped
      BY <1>2, <2>2 DEF handle_registration, register, reregister, Live
    <3>2. /\ DOMAIN by_id' = DOMAIN by_id
          /\ by_id'[id].addr = a /\ by_id'[id].endpoint = by_id[id].endpoint
          /\ \A i \in DOMAIN by_id \ {id} : by_id'[i] = by_id[i]
      BY <3>1, <1>0a DEF reregister, Device
    <3>3. NextIdFresh'
      BY SMT, <3>1, <3>2 DEF IndexInv, NextIdFresh, reregister
    <3>4. IndexConsistent'
      <4> SUFFICES ASSUME ~wrapped PROVE IndexConsistent'
        BY <3>1 DEF IndexConsistent
      <4>1. CASE old = a
        BY SMT, <3>1, <3>2, <4>1 DEF IndexInv, IndexConsistent, reregister
      <4>2. CASE old # a
        <5>1. by_addr' = Insert(Remove(by_addr, old), a, id) /\ by_endpoint' = by_endpoint
          BY <3>1, <4>2 DEF reregister
        <5>2. /\ DOMAIN by_addr' = (DOMAIN by_addr \ {old}) \cup {a}
              /\ by_addr'[a] = id
              /\ \A x \in DOMAIN by_addr' \ {a} : by_addr'[x] = by_addr[x]
          BY <5>1 DEF Insert, Remove, RemoveAll
        <5>3. \A x \in DOMAIN by_addr' : by_addr'[x] \in DOMAIN by_id'
                                         /\ by_id'[by_addr'[x]].addr = x
          <6>1. by_addr'[a] \in DOMAIN by_id' /\ by_id'[by_addr'[a]].addr = a
            BY <3>1, <3>2, <5>2
          <6>2. ASSUME NEW x \in DOMAIN by_addr' \ {a}
                PROVE  by_addr'[x] \in DOMAIN by_id' /\ by_id'[by_addr'[x]].addr = x
            <7>1. x \in DOMAIN by_addr /\ x # old /\ by_addr'[x] = by_addr[x]
              BY <5>2, <6>2
            <7>2. by_addr[x] \in DOMAIN by_id /\ by_id[by_addr[x]].addr = x
              BY <7>1 DEF IndexInv, IndexConsistent
            <7>3. QED BY <3>2, <7>1, <7>2
          <6>3. QED BY <6>1, <6>2
        <5>4. /\ \A f \in DOMAIN by_endpoint' :
                   by_endpoint'[f] \in DOMAIN by_id' /\ by_id'[by_endpoint'[f]].endpoint = f
              /\ \A i \in DOMAIN by_id' : by_id'[i].endpoint \in DOMAIN by_endpoint'
                                          /\ by_endpoint'[by_id'[i].endpoint] = i
          BY SMT, <3>1, <3>2, <5>1 DEF IndexInv, IndexConsistent
        <5>5. QED BY <5>3, <5>4 DEF IndexConsistent
      <4>3. QED BY <4>1, <4>2
    <3>5. QED BY <1>0, <2>1, <3>3, <3>4 DEF IndexInv
  <2>3. CASE e \notin DOMAIN by_endpoint
    <3>1. register_new(e, a, lt)
      BY <1>2, <2>3 DEF handle_registration, register
    <3>2. CASE wrapped'
      BY <1>0, <2>1, <3>2 DEF IndexInv, IndexConsistent, NextIdFresh
    <3>3. CASE ~wrapped'
      <4>1. ~wrapped /\ next_id # MaxId /\ next_id' = next_id + 1
        BY <3>1, <3>3 DEF register_new, NextId
      <4>2. next_id \notin DOMAIN by_id /\ next_id \in DeviceId
        BY SMT, <4>1, <1>0 DEF IndexInv, NextIdFresh, TypeOK
      <4>3. /\ DOMAIN by_id' = DOMAIN by_id \cup {next_id}
            /\ by_id'[next_id].endpoint = e /\ by_id'[next_id].addr = a
            /\ \A i \in DOMAIN by_id : by_id'[i] = by_id[i]
        BY <3>1, <4>2 DEF register_new, Insert, NewDevice
      <4>4. /\ DOMAIN by_endpoint' = DOMAIN by_endpoint \cup {e}
            /\ by_endpoint'[e] = next_id
            /\ \A f \in DOMAIN by_endpoint : by_endpoint'[f] = by_endpoint[f]
        BY <3>1, <2>3 DEF register_new, Insert
      <4>5. /\ DOMAIN by_addr' = DOMAIN by_addr \cup {a}
            /\ by_addr'[a] = next_id
            /\ \A x \in DOMAIN by_addr \ {a} : by_addr'[x] = by_addr[x]
        BY <3>1 DEF register_new, Insert
      <4>6. NextIdFresh'
        <5> SUFFICES ASSUME NEW i \in DOMAIN by_id' PROVE i < next_id'
          BY DEF NextIdFresh
        <5>1. i \in DeviceId /\ (i = next_id \/ i < next_id)
          BY <4>1, <4>2, <4>3, <1>0a DEF IndexInv, NextIdFresh
        <5>2. QED BY SMT, <4>1, <4>2, <5>1, RegistryAssumption
      <4>7. IndexConsistent'
        <5>1. \A x \in DOMAIN by_addr' :
                by_addr'[x] \in DOMAIN by_id' /\ by_id'[by_addr'[x]].addr = x
          BY SMT, <4>1, <4>3, <4>5 DEF IndexInv, IndexConsistent
        <5>2. \A f \in DOMAIN by_endpoint' :
                by_endpoint'[f] \in DOMAIN by_id' /\ by_id'[by_endpoint'[f]].endpoint = f
          BY SMT, <4>1, <4>3, <4>4 DEF IndexInv, IndexConsistent
        <5>3. \A i \in DOMAIN by_id' :
                /\ by_id'[i].endpoint \in DOMAIN by_endpoint'
                /\ by_endpoint'[by_id'[i].endpoint] = i
          BY SMT, <4>1, <4>3, <4>4 DEF IndexInv, IndexConsistent
        <5>4. QED BY <5>1, <5>2, <5>3 DEF IndexConsistent
      <4>8. QED BY <1>0, <2>1, <4>6, <4>7 DEF IndexInv
    <3>4. QED BY <3>2, <3>3
  <2>4. QED BY <2>2, <2>3
<1>3. ASSUME handle_update PROVE IndexInv'
  <2>1. DOMAIN by_id' = DOMAIN by_id
    BY <1>3 DEF handle_update, renew_registration
  <2>2. \A id \in DOMAIN by_id : /\ by_id'[id].endpoint = by_id[id].endpoint
                                 /\ by_id'[id].addr = by_id[id].addr
    BY <1>0a, <1>3 DEF handle_update, renew_registration, Device
  <2>3. QED BY <1>0, <1>0b, <1>3, <2>1, <2>2, KeysKept DEF handle_update
<1>4. ASSUME handle_delete PROVE IndexInv'
  BY <1>4, RemoveIndex, <1>0 DEF handle_delete
<1>5. ASSUME handle_ack PROVE IndexInv'
  BY <1>0, <1>0b, <1>5, CompleteKeys, KeysKept DEF handle_ack, history
<1>6. ASSUME reply_fails PROVE IndexInv'
  BY <1>0, <1>0b, <1>6, KeysKept DEF reply_fails, registry, history
<1>7. ASSUME NEW op \in Op, NEW a \in Source, place_in_flight(op, a)
      PROVE  IndexInv'
  <2>1. DOMAIN by_id' = DOMAIN by_id
    BY <1>7 DEF place_in_flight
  <2>2. \A id \in DOMAIN by_id : /\ by_id'[id].endpoint = by_id[id].endpoint
                                 /\ by_id'[id].addr = by_id[id].addr
    BY SMT, <1>0a, <1>7 DEF place_in_flight, Device
  <2>3. QED BY <1>0, <1>0b, <1>7, <2>1, <2>2, KeysKept DEF place_in_flight, history
<1>8. ASSUME NEW a \in Addr, NEW t \in Token, final_timeout(a, t)
      PROVE  IndexInv'
  BY <1>0, <1>0b, <1>8, CompleteKeys, KeysKept DEF final_timeout, history
<1>9. ASSUME NEW a \in Addr, set_device_offline(a) PROVE IndexInv'
  <2>1. DOMAIN by_id' = DOMAIN by_id
    BY <1>9 DEF set_device_offline
  <2>2. \A id \in DOMAIN by_id : /\ by_id'[id].endpoint = by_id[id].endpoint
                                 /\ by_id'[id].addr = by_id[id].addr
    BY <1>0a, <1>9 DEF set_device_offline, Device
  <2>3. QED BY <1>0, <1>0b, <1>9, <2>1, <2>2, KeysKept DEF set_device_offline, history
<1>10. ASSUME expire_stale PROVE IndexInv'
  BY <1>0, <1>10, PurgeIndex DEF expire_stale, Expired, history
<1>11. ASSUME NEW O \in SUBSET Op, timeout_in_flight(O) PROVE IndexInv'
  <2>1. DOMAIN by_id' = DOMAIN by_id
    BY <1>11 DEF timeout_in_flight
  <2>2. \A id \in DOMAIN by_id : /\ by_id'[id].endpoint = by_id[id].endpoint
                                 /\ by_id'[id].addr = by_id[id].addr
    BY <1>0a, <1>11 DEF timeout_in_flight, Device
  <2>3. QED BY <1>0, <1>0b, <1>11, <2>1, <2>2, KeysKept DEF timeout_in_flight, history
<1>12. ASSUME NEW a \in Addr, remove_device(a) PROVE IndexInv'
  BY <1>12, RemoveIndex, <1>0 DEF remove_device, history
<1>13. ASSUME save_registry PROVE IndexInv'
  <2>1. SavedDistinct'
    BY SMT, <1>0a, <1>13 DEF save_registry, registry, history, snapshot, IndexInv, IndexConsistent, SavedDistinct
  <2>2. QED BY <1>0, <1>13, <2>1, KeysKept DEF save_registry, registry, history
<1>14. ASSUME NEW I \in SUBSET DOMAIN wakaama, restart(I) PROVE IndexInv'
  <2> DEFINE R == {id \in I : wakaama[id].left > 0}
  <2>1. CASE wrapped'
    BY <1>0, <2>1 DEF IndexInv, IndexConsistent, NextIdFresh, SavedDistinct
  <2>2. CASE ~wrapped'
    <3>1. ~wrapped /\ MaxId \notin R
      BY <1>14, <2>2 DEF restart, restore, load_registry
    <3>2. SavedDistinct'
      BY <1>14, <3>1 DEF restart, restore, load_registry, IndexInv, SavedDistinct
    <3>3. /\ DOMAIN by_id' = R
          /\ \A id \in R : /\ by_id'[id].endpoint = wakaama[id].endpoint
                           /\ by_id'[id].addr = Unscoped(wakaama[id].addr)
      BY <1>14 DEF restart, restore, load_registry
    <3>4. NextIdFresh'
      BY <1>14, <3>1, <3>3 DEF restart, restore, load_registry, RestoredNextId, NextIdFresh
    <3>5. \A x \in DOMAIN by_addr' :
            by_addr'[x] \in R /\ Unscoped(wakaama[by_addr'[x]].addr) = x
      BY <1>14 DEF restart, restore, load_registry
    <3>6. /\ DOMAIN by_endpoint' = {wakaama[id].endpoint : id \in R}
          /\ \A e \in DOMAIN by_endpoint' :
               by_endpoint'[e] \in R /\ wakaama[by_endpoint'[e]].endpoint = e
      BY <1>14 DEF restart, restore, load_registry
    <3>7. \A i, j \in R : wakaama[i].endpoint = wakaama[j].endpoint => i = j
      BY <3>1 DEF IndexInv, SavedDistinct
    <3>8. IndexConsistent'
      BY SMT, <3>3, <3>5, <3>6, <3>7 DEF IndexConsistent
    <3>9. QED BY <1>0, <3>2, <3>4, <3>8 DEF IndexInv
  <2>3. QED BY <2>1, <2>2
<1>15. ASSUME Tick PROVE IndexInv'
  <2>1. DOMAIN by_id' = DOMAIN by_id
    BY <1>15 DEF Tick
  <2>2. \A id \in DOMAIN by_id : /\ by_id'[id].endpoint = by_id[id].endpoint
                                 /\ by_id'[id].addr = by_id[id].addr
    BY <1>0a, <1>15 DEF Tick, Device
  <2>3. SavedDistinct'
    <3>1. \A id \in DOMAIN wakaama : wakaama[id] \in Snapshot
      BY <1>0, ValueType DEF TypeOK
    <3>2. QED BY SMT, <1>15, <3>1 DEF Tick, Snapshot, IndexInv, SavedDistinct
  <2>4. QED BY <1>0, <1>15, <2>1, <2>2, <2>3, KeysKept DEF Tick
<1>16. CASE UNCHANGED vars
  BY <1>0, <1>16 DEF vars, IndexInv, IndexConsistent, NextIdFresh, SavedDistinct
<1>17. QED
  BY <1>1, <1>2, <1>3, <1>4, <1>5, <1>6, <1>7, <1>8, <1>9, <1>10, <1>11,
     <1>12, <1>13, <1>14, <1>15, <1>16 DEF Next

\* IndexInv is an invariant.
THEOREM IndexInvariant == Spec => []IndexInv
<1>1. Init => IndexInv
  <2> SUFFICES ASSUME Init PROVE IndexInv
    OBVIOUS
  <2>1. TypeOK
    <3>1. 1 \in DeviceId /\ 0 \in 0 .. MaxRestart
      BY SMT, RegistryAssumption
    <3>2. QED BY <3>1, EmptyMapType DEF Init, TypeOK, Status
  <2>2. QED
    BY <2>1 DEF Init, IndexInv, IndexConsistent, NextIdFresh, SavedDistinct, EmptyMap
<1>2. IndexInv /\ [Next]_vars => IndexInv'
  BY IndexStep
<1>3. QED
  BY <1>1, <1>2, PTL DEF Spec

\* The three indexes of the registry agree in every reachable state until the
\* id counter wraps: no unwrap or index expression of registry.rs panics and
\* no lookup returns another device's record.
THEOREM IndexSafe == Spec => []IndexConsistent
<1>1. IndexInv => IndexConsistent
  BY DEF IndexInv
<1>2. QED
  BY <1>1, IndexInvariant, PTL

\* register never hands out an id that is in use until the counter wraps.
THEOREM IdsFresh == Spec => []NextIdFresh
<1>1. IndexInv => NextIdFresh
  BY DEF IndexInv
<1>2. QED
  BY <1>1, IndexInvariant, PTL

-----------------------------------------------------------------------------
(* Every device is found under its address, if addresses are not shared.   *)

\* A step that keeps every device's address, and the address index, keeps
\* the address index complete.
LEMMA AddrKept ==
    ASSUME AddrIndexComplete,
           DOMAIN by_id' = DOMAIN by_id,
           \A id \in DOMAIN by_id : by_id'[id].addr = by_id[id].addr,
           UNCHANGED <<by_addr, wrapped>>, shared => shared'
    PROVE  AddrIndexComplete'
BY DEF AddrIndexComplete

\* Removing devices and exactly their addresses keeps the index complete.
LEMMA PurgeAddr ==
    ASSUME IndexInv, AddrIndexComplete, NEW I \in SUBSET DOMAIN by_id, NEW A,
           Purge(I, A), A = {by_id[id].addr : id \in I},
           wrapped' = wrapped, shared => shared'
    PROVE  AddrIndexComplete'
<1> SUFFICES ASSUME ~wrapped, ~shared PROVE AddrIndexComplete'
  BY DEF AddrIndexComplete
<1>1. DOMAIN by_id' = DOMAIN by_id \ I /\ \A id \in DOMAIN by_id' : by_id'[id] = by_id[id]
  BY DEF Purge, RemoveAll
<1>2. /\ DOMAIN by_addr' = DOMAIN by_addr \ A
      /\ \A a \in DOMAIN by_addr' : by_addr'[a] = by_addr[a]
  BY DEF Purge, RemoveAll
<1>3. QED BY SMT, <1>1, <1>2 DEF AddrIndexComplete

\* Removing the device at an address keeps the index complete.
LEMMA RemoveAddr ==
    ASSUME IndexInv, AddrIndexComplete, NEW a, remove_by_addr(a),
           wrapped' = wrapped, shared => shared'
    PROVE  AddrIndexComplete'
<1>1. CASE Live(by_addr, a) /\ ~wrapped
  <2>1. Purge({by_addr[a]}, {a}) /\ by_addr[a] \in DOMAIN by_id
    BY <1>1 DEF remove_by_addr, Live
  <2>2. {a} = {by_id[id].addr : id \in {by_addr[a]}}
    BY <1>1 DEF IndexInv, IndexConsistent, Live
  <2>3. QED BY <2>1, <2>2, PurgeAddr
<1>2. CASE ~Live(by_addr, a) \/ wrapped
  BY <1>2 DEF remove_by_addr, AddrIndexComplete
<1>3. QED BY <1>1, <1>2

\* Every step of every task keeps the address index complete.
LEMMA AddrStep ==
    ASSUME IndexInv, AddrIndexComplete, [Next]_vars
    PROVE  AddrIndexComplete'
<1>0. TypeOK /\ TypeOK'
  BY TypeStep DEF IndexInv
<1>0a. \A id \in DOMAIN by_id : id \in DeviceId /\ by_id[id] \in Device
  BY <1>0, ValueType DEF TypeOK
<1>1. ASSUME NEW p \in Arriving, handle_packet(p)
      PROVE  AddrIndexComplete'
  <2>1. CASE wrapped
    BY <1>1, <2>1 DEF handle_packet, history, AddrIndexComplete
  <2>2. CASE ~wrapped
    <3>1. DOMAIN by_id' = DOMAIN by_id
      BY <1>1 DEF handle_packet, touch
    <3>2. \A id \in DOMAIN by_id : by_id'[id].addr = by_id[id].addr
      <4>1. CASE p.addr \in DOMAIN by_addr
        <5>1. by_id[by_addr[p.addr]].addr = p.addr
          BY <2>2, <4>1 DEF IndexInv, IndexConsistent
        <5>2. QED BY <1>0a, <1>1, <4>1, <5>1 DEF handle_packet, touch, Device
      <4>2. CASE p.addr \notin DOMAIN by_addr
        BY <1>1, <4>2 DEF handle_packet, touch
      <4>3. QED BY <4>1, <4>2
    <3>3. QED BY <1>1, <3>1, <3>2, AddrKept DEF handle_packet, history
  <2>3. QED BY <2>1, <2>2
<1>2. ASSUME handle_registration PROVE AddrIndexComplete'
  <2> DEFINE e == rx.ep
             a == rx.addr
  <2>0. register(e, a, rx.lt)
    BY <1>2 DEF handle_registration
  <2> SUFFICES ASSUME ~wrapped', ~shared' PROVE AddrIndexComplete'
    BY DEF AddrIndexComplete
  <2>1. ~wrapped /\ ~shared /\ ~Taken(a, e)
    BY <2>0 DEF register, reregister, register_new
  <2>2. \A i \in DOMAIN by_id : by_id[i].endpoint # e => by_id[i].addr # a
    BY <2>1 DEF Taken
  <2>3. \A i \in DOMAIN by_id : /\ by_id[i].addr \in DOMAIN by_addr
                                /\ by_addr[by_id[i].addr] = i
    BY <2>1 DEF AddrIndexComplete
  <2>4. CASE e \in DOMAIN by_endpoint
    <3> DEFINE id  == by_endpoint[e]
               old == by_id[id].addr
    <3>1. reregister(e, a, rx.lt) /\ id \in DOMAIN by_id
      BY <2>0, <2>4 DEF register, reregister, Live
    <3>2. \A i \in DOMAIN by_id \ {id} : by_id[i].endpoint # e
      BY <2>1 DEF IndexInv, IndexConsistent
    <3>3. /\ DOMAIN by_id' = DOMAIN by_id
          /\ by_id'[id].addr = a
          /\ \A i \in DOMAIN by_id \ {id} : by_id'[i] = by_id[i]
      BY <3>1, <1>0a DEF reregister, Device
    <3>4. CASE old = a
      BY SMT, <2>3, <3>1, <3>3, <3>4 DEF reregister, AddrIndexComplete
    <3>5. CASE old # a
      <4>1. /\ DOMAIN by_addr' = (DOMAIN by_addr \ {old}) \cup {a}
            /\ by_addr'[a] = id
            /\ \A x \in DOMAIN by_addr' \ {a} : by_addr'[x] = by_addr[x]
        BY <3>1, <3>5 DEF reregister, Insert, Remove, RemoveAll
      <4>2. ASSUME NEW i \in DOMAIN by_id, i # id
            PROVE  by_id[i].addr \in DOMAIN by_addr' /\ by_addr'[by_id[i].addr] = i
        <5>1. by_id[i].addr # a  BY <2>2, <3>2, <4>2
        <5>2. by_id[i].addr # old  BY <2>3, <3>1, <4>2
        <5>3. QED BY <2>3, <4>1, <4>2, <5>1, <5>2
      <4>3. QED BY <3>1, <3>3, <4>1, <4>2 DEF AddrIndexComplete
    <3>6. QED BY <3>4, <3>5
  <2>5. CASE e \notin DOMAIN by_endpoint
    <3>1. register_new(e, a, rx.lt)
      BY <2>0, <2>5 DEF register
    <3>2. next_id \notin DOMAIN by_id
      BY SMT, <2>1, <1>0 DEF IndexInv, NextIdFresh, TypeOK
    <3>3. \A i \in DOMAIN by_id : by_id[i].endpoint # e
      BY <2>1, <2>5 DEF IndexInv, IndexConsistent
    <3>4. /\ DOMAIN by_id' = DOMAIN by_id \cup {next_id}
          /\ by_id'[next_id].addr = a
          /\ \A i \in DOMAIN by_id : by_id'[i] = by_id[i]
      BY <3>1, <3>2 DEF register_new, Insert, NewDevice
    <3>5. /\ DOMAIN by_addr' = DOMAIN by_addr \cup {a}
          /\ by_addr'[a] = next_id
          /\ \A x \in DOMAIN by_addr \ {a} : by_addr'[x] = by_addr[x]
      BY <3>1 DEF register_new, Insert
    <3>6. ASSUME NEW i \in DOMAIN by_id
          PROVE  by_id[i].addr \in DOMAIN by_addr' /\ by_addr'[by_id[i].addr] = i
      BY <2>2, <2>3, <3>3, <3>5, <3>6
    <3>7. QED BY <3>4, <3>5, <3>6 DEF AddrIndexComplete
  <2>6. QED BY <2>4, <2>5
<1>3. ASSUME handle_update PROVE AddrIndexComplete'
  BY <1>0a, <1>3, AddrKept DEF handle_update, renew_registration, Device
<1>4. ASSUME handle_delete PROVE AddrIndexComplete'
  BY <1>4, RemoveAddr DEF handle_delete
<1>5. ASSUME handle_ack PROVE AddrIndexComplete'
  BY <1>0, <1>5, CompleteKeys, AddrKept DEF handle_ack, history
<1>6. ASSUME reply_fails PROVE AddrIndexComplete'
  BY <1>6, AddrKept DEF reply_fails, registry, history
<1>7. ASSUME NEW op \in Op, NEW a \in Source, place_in_flight(op, a)
      PROVE  AddrIndexComplete'
  <2>1. DOMAIN by_id' = DOMAIN by_id
    BY <1>7 DEF place_in_flight
  <2>2. \A id \in DOMAIN by_id : by_id'[id].addr = by_id[id].addr
    BY SMT, <1>0a, <1>7 DEF place_in_flight, Device
  <2>3. QED BY <1>7, <2>1, <2>2, AddrKept DEF place_in_flight, history
<1>8. ASSUME NEW a \in Addr, NEW t \in Token, final_timeout(a, t)
      PROVE  AddrIndexComplete'
  BY <1>0, <1>8, CompleteKeys, AddrKept DEF final_timeout, history
<1>9. ASSUME NEW a \in Addr, set_device_offline(a) PROVE AddrIndexComplete'
  <2>1. \A id \in DOMAIN by_id : by_id'[id].addr = by_id[id].addr
    BY <1>0a, <1>9 DEF set_device_offline, Device
  <2>2. QED BY <1>9, <2>1, AddrKept DEF set_device_offline, history
<1>10. ASSUME expire_stale PROVE AddrIndexComplete'
  BY <1>10, PurgeAddr DEF expire_stale, Expired, history
<1>11. ASSUME NEW O \in SUBSET Op, timeout_in_flight(O) PROVE AddrIndexComplete'
  <2>1. DOMAIN by_id' = DOMAIN by_id
    BY <1>11 DEF timeout_in_flight
  <2>2. \A id \in DOMAIN by_id : by_id'[id].addr = by_id[id].addr
    BY <1>0a, <1>11 DEF timeout_in_flight, Device
  <2>3. QED BY <1>11, <2>1, <2>2, AddrKept DEF timeout_in_flight, history
<1>12. ASSUME NEW a \in Addr, remove_device(a) PROVE AddrIndexComplete'
  BY <1>12, RemoveAddr DEF remove_device, history
<1>13. ASSUME save_registry PROVE AddrIndexComplete'
  BY <1>13, AddrKept DEF save_registry, registry, history
<1>14. ASSUME NEW I \in SUBSET DOMAIN wakaama, restart(I) PROVE AddrIndexComplete'
  <2> DEFINE R == {id \in I : wakaama[id].left > 0}
             AddrOf(id) == Unscoped(wakaama[id].addr)
  <2> SUFFICES ASSUME ~wrapped', ~shared' PROVE AddrIndexComplete'
    BY DEF AddrIndexComplete
  <2>1. DOMAIN by_id' = R /\ \A id \in R : by_id'[id].addr = AddrOf(id)
    BY <1>14 DEF restart, restore, load_registry
  <2>2. \A i, j \in R : AddrOf(i) = AddrOf(j) => i = j
    BY <1>14 DEF restart, restore, load_registry
  <2>3. /\ DOMAIN by_addr' = {AddrOf(id) : id \in R}
        /\ \A x \in DOMAIN by_addr' : by_addr'[x] \in R /\ AddrOf(by_addr'[x]) = x
    BY <1>14 DEF restart, restore, load_registry
  <2> HIDE DEF AddrOf, R
  <2>4. QED BY SMT, <2>1, <2>2, <2>3 DEF AddrIndexComplete
<1>15. ASSUME Tick PROVE AddrIndexComplete'
  <2>1. DOMAIN by_id' = DOMAIN by_id /\ \A id \in DOMAIN by_id : by_id'[id].addr = by_id[id].addr
    BY <1>0a, <1>15 DEF Tick, Device
  <2>2. QED BY <1>15, <2>1, AddrKept DEF Tick
<1>16. CASE UNCHANGED vars
  BY <1>16 DEF vars, AddrIndexComplete
<1>17. QED
  BY <1>1, <1>2, <1>3, <1>4, <1>5, <1>6, <1>7, <1>8, <1>9, <1>10, <1>11,
     <1>12, <1>13, <1>14, <1>15, <1>16 DEF Next

\* As long as no two devices used one address, every registered device is
\* found under the address it last registered from, so its updates reach it.
THEOREM AddrComplete == Spec => []AddrIndexComplete
<1>1. Init => AddrIndexComplete
  BY DEF Init, AddrIndexComplete, EmptyMap
<1>2. IndexInv /\ AddrIndexComplete /\ [Next]_vars => AddrIndexComplete'
  BY AddrStep
<1>3. QED
  BY <1>1, <1>2, IndexInvariant, PTL DEF Spec

-----------------------------------------------------------------------------
(* Operations in flight.                                                   *)

\* Device id of the registry m has operation op in flight under token t.
Carries(m, id, t, op) ==
    /\ id \in DOMAIN m
    /\ t \in DOMAIN m[id].in_flight
    /\ m[id].in_flight[t] = op

\* OpAccounted, of a registry m and the fates s of the operations.
Accounts(m, s) ==
    /\ \A id \in DeviceId, t \in Token, op \in Op :
         Carries(m, id, t, op) => s[op] = "in_flight" /\ TokenOf[op] = t
    /\ \A op \in Op : s[op] = "in_flight" =>
         \E id \in DeviceId, t \in Token : Carries(m, id, t, op)
    /\ \A i, j \in DeviceId, t, u \in Token, op \in Op :
         Carries(m, i, t, op) /\ Carries(m, j, u, op) => i = j

Settled == {"answered", "timeout", "dropped"}

\* The fate of an operation that is settled stays as it is.
FatesKept(s, r) == \A op \in Op : s[op] \in Settled => r[op] = s[op]

\* What is carried in a typed registry is a token and an operation.
LEMMA CarriesType ==
    ASSUME NEW m, IsMap(m, DeviceId, Device)
    PROVE  /\ \A id \in DOMAIN m : /\ id \in DeviceId
                                    /\ IsMap(m[id].in_flight, Token, Op)
                                    /\ m[id].in_flight \in Flight
           /\ \A id \in DOMAIN m : \A t \in DOMAIN m[id].in_flight :
                t \in Token /\ m[id].in_flight[t] \in Op
<1>1. \A id \in DOMAIN m : id \in DeviceId /\ m[id].in_flight \in Flight
  <2>1. \A id \in DOMAIN m : id \in DeviceId /\ m[id] \in Device
    BY ValueType
  <2>2. \A d \in Device : d.in_flight \in Flight
    BY DEF Device
  <2>3. QED BY <2>1, <2>2
<1>2. \A id \in DOMAIN m : IsMap(m[id].in_flight, Token, Op)
  BY <1>1, FlightIsMap
<1>3. QED BY <1>1, <1>2, ValueType

\* OpAccounted in terms of what is carried.
LEMMA AccountsNow ==
    ASSUME TypeOK
    PROVE  OpAccounted <=> Accounts(by_id, status)
<1>1. IsMap(by_id, DeviceId, Device)
  BY DEF TypeOK
<1>2. /\ \A id \in DOMAIN by_id : id \in DeviceId
      /\ \A id \in DOMAIN by_id : \A t \in DOMAIN by_id[id].in_flight :
           t \in Token /\ by_id[id].in_flight[t] \in Op
  BY <1>1, CarriesType
<1>3. (\A id \in DOMAIN by_id : \A t \in DOMAIN by_id[id].in_flight :
         status[by_id[id].in_flight[t]] = "in_flight" /\ TokenOf[by_id[id].in_flight[t]] = t)
      <=> (\A id \in DeviceId, t \in Token, op \in Op :
             Carries(by_id, id, t, op) => status[op] = "in_flight" /\ TokenOf[op] = t)
  BY SMT, <1>2 DEF Carries
<1>4. \A id \in DOMAIN by_id : \A op :
        op \in OpsOf(by_id[id]) <=> \E t \in Token : Carries(by_id, id, t, op)
  BY <1>2 DEF Carries, OpsOf
<1>5. \A op \in Op : (\E id \in DOMAIN by_id : op \in OpsOf(by_id[id]))
                     <=> \E id \in DeviceId, t \in Token : Carries(by_id, id, t, op)
  BY <1>2, <1>4 DEF Carries
<1>6. (\A i, j \in DOMAIN by_id : OpsOf(by_id[i]) \cap OpsOf(by_id[j]) # {} => i = j)
      <=> (\A i, j \in DeviceId, t, u \in Token, op \in Op :
             Carries(by_id, i, t, op) /\ Carries(by_id, j, u, op) => i = j)
  <2>1. \A i, j \in DOMAIN by_id :
          OpsOf(by_id[i]) \cap OpsOf(by_id[j]) # {}
          <=> \E t, u \in Token, op \in Op : Carries(by_id, i, t, op) /\ Carries(by_id, j, u, op)
    BY SMT, <1>2, <1>4 DEF Carries
  <2>2. \A i, t, op : Carries(by_id, i, t, op) => i \in DOMAIN by_id
    BY DEF Carries
  <2>3. QED BY <1>2, <2>1, <2>2
<1>7. QED BY <1>3, <1>5, <1>6 DEF OpAccounted, Accounts

\* The same, after a step.
LEMMA AccountsNext ==
    ASSUME TypeOK'
    PROVE  OpAccounted' <=> Accounts(by_id', status')
<1>1. IsMap(by_id', DeviceId, Device)
  BY DEF TypeOK
<1>2. /\ \A id \in DOMAIN by_id' : id \in DeviceId
      /\ \A id \in DOMAIN by_id' : \A t \in DOMAIN by_id'[id].in_flight :
           t \in Token /\ by_id'[id].in_flight[t] \in Op
  BY <1>1, CarriesType
<1>3. (\A id \in DOMAIN by_id' : \A t \in DOMAIN by_id'[id].in_flight :
         status'[by_id'[id].in_flight[t]] = "in_flight" /\ TokenOf[by_id'[id].in_flight[t]] = t)
      <=> (\A id \in DeviceId, t \in Token, op \in Op :
             Carries(by_id', id, t, op) => status'[op] = "in_flight" /\ TokenOf[op] = t)
  BY SMT, <1>2 DEF Carries
<1>4. \A id \in DOMAIN by_id' : \A op :
        op \in OpsOf(by_id'[id]) <=> \E t \in Token : Carries(by_id', id, t, op)
  BY <1>2 DEF Carries, OpsOf
<1>5. \A op \in Op : (\E id \in DOMAIN by_id' : op \in OpsOf(by_id'[id]))
                     <=> \E id \in DeviceId, t \in Token : Carries(by_id', id, t, op)
  BY <1>2, <1>4 DEF Carries
<1>6. (\A i, j \in DOMAIN by_id' : OpsOf(by_id'[i]) \cap OpsOf(by_id'[j]) # {} => i = j)
      <=> (\A i, j \in DeviceId, t, u \in Token, op \in Op :
             Carries(by_id', i, t, op) /\ Carries(by_id', j, u, op) => i = j)
  <2>1. \A i, j \in DOMAIN by_id' :
          OpsOf(by_id'[i]) \cap OpsOf(by_id'[j]) # {}
          <=> \E t, u \in Token, op \in Op : Carries(by_id', i, t, op) /\ Carries(by_id', j, u, op)
    BY SMT, <1>2, <1>4 DEF Carries
  <2>2. \A i, t, op : Carries(by_id', i, t, op) => i \in DOMAIN by_id'
    BY DEF Carries
  <2>3. QED BY <1>2, <2>1, <2>2
<1>7. QED BY <1>3, <1>5, <1>6 DEF OpAccounted, Accounts

\* Operations X that are in flight leave the registry and get an outcome: the
\* others are accounted for as before (expire_stale, remove_by_addr,
\* complete_in_flight, timeout_in_flight, and a device that is overwritten).
LEMMA DropAccounts ==
    ASSUME NEW m, NEW s, NEW n, NEW r, NEW X, NEW outcome \in Settled,
           Accounts(m, s),
           \A op \in Op : op \in X => s[op] = "in_flight",
           \A id \in DeviceId, t \in Token, op \in Op :
              Carries(n, id, t, op) <=> Carries(m, id, t, op) /\ op \notin X,
           \A op \in Op : r[op] = IF op \in X THEN outcome ELSE s[op]
    PROVE  Accounts(n, r) /\ FatesKept(s, r)
<1>1. \A id \in DeviceId, t \in Token, op \in Op :
        Carries(n, id, t, op) => r[op] = "in_flight" /\ TokenOf[op] = t
  BY SMT DEF Accounts
<1>2. \A op \in Op : r[op] = "in_flight" =>
        \E id \in DeviceId, t \in Token : Carries(n, id, t, op)
  BY DEF Accounts, Settled
<1>3. \A i, j \in DeviceId, t, u \in Token, op \in Op :
        Carries(n, i, t, op) /\ Carries(n, j, u, op) => i = j
  BY SMT DEF Accounts
<1>4. FatesKept(s, r)
  BY DEF FatesKept, Settled
<1>5. QED BY <1>1, <1>2, <1>3, <1>4 DEF Accounts

\* Calls that leave every in-flight table alone (touch, renew_registration,
\* set_device_offline, a re-registration, the passing of time).
LEMMA FlightsKept ==
    ASSUME Accounts(by_id, status), DOMAIN by_id' = DOMAIN by_id, status' = status,
           \A id \in DOMAIN by_id : by_id'[id].in_flight = by_id[id].in_flight
    PROVE  Accounts(by_id', status') /\ FatesKept(status, status')
BY SMT DEF Accounts, Carries, FatesKept

\* Purging the devices I (expire_stale, remove_by_addr).
LEMMA PurgeAccounts ==
    ASSUME TypeOK, Accounts(by_id, status), NEW I \in SUBSET DOMAIN by_id, NEW A, Purge(I, A)
    PROVE  Accounts(by_id', status') /\ FatesKept(status, status')
<1> DEFINE X == UNION {OpsOf(by_id[id]) : id \in I}
<1>0. IsMap(by_id, DeviceId, Device)
  BY DEF TypeOK
<1>1. by_id' = RemoveAll(by_id, I) /\ status' = Settle(X, "timeout")
  BY DEF Purge
<1>2. \A op : op \in X <=> \E id \in I, t \in Token : Carries(by_id, id, t, op)
  <2>1. \A id \in DOMAIN by_id : \A t \in DOMAIN by_id[id].in_flight : t \in Token
    BY <1>0, CarriesType
  <2>2. \A id \in I : \A op :
          op \in OpsOf(by_id[id]) <=> \E t \in Token : Carries(by_id, id, t, op)
    BY <2>1 DEF OpsOf, Carries
  <2>3. QED BY <2>2
<1>3. \A op \in Op : op \in X => status[op] = "in_flight"
  BY <1>0, <1>2, CarriesType DEF Accounts
<1>4. \A id \in DeviceId, t \in Token, op \in Op :
        Carries(by_id', id, t, op) <=> Carries(by_id, id, t, op) /\ id \notin I
  <2>1. DOMAIN by_id' = DOMAIN by_id \ I /\ \A id \in DOMAIN by_id \ I : by_id'[id] = by_id[id]
    BY <1>1, RemoveAllValue
  <2>2. QED BY <2>1 DEF Carries
<1>5. \A id \in DeviceId, t \in Token, op \in Op :
        Carries(by_id, id, t, op) => (id \in I <=> op \in X)
  BY <1>0, <1>2, CarriesType DEF Accounts
<1>6. \A id \in DeviceId, t \in Token, op \in Op :
        Carries(by_id', id, t, op) <=> Carries(by_id, id, t, op) /\ op \notin X
  BY <1>4, <1>5
<1>7. \A op \in Op : status'[op] = IF op \in X THEN "timeout" ELSE status[op]
  BY <1>1 DEF Settle
<1>8. QED
  <2> HIDE DEF X
  <2> QED BY SMT, <1>3, <1>6, <1>7, DropAccounts DEF Settled

\* remove_by_addr
LEMMA RemoveAccounts ==
    ASSUME TypeOK, Accounts(by_id, status), NEW a, remove_by_addr(a)
    PROVE  Accounts(by_id', status') /\ FatesKept(status, status')
<1>1. CASE Live(by_addr, a)
  BY <1>1, PurgeAccounts DEF remove_by_addr, Live
<1>2. CASE ~Live(by_addr, a)
  BY <1>2, FlightsKept DEF remove_by_addr
<1>3. QED BY <1>1, <1>2

\* complete_in_flight
LEMMA CompleteAccounts ==
    ASSUME TypeOK, Accounts(by_id, status), NEW a, NEW t, NEW outcome \in Settled,
           complete_in_flight(a, t, outcome)
    PROVE  Accounts(by_id', status') /\ FatesKept(status, status')
<1> DEFINE id == by_addr[a]
           f  == by_id[id].in_flight
<1>0. IsMap(by_id, DeviceId, Device) /\ status \in [Op -> Status]
  BY DEF TypeOK
<1>1. CASE Live(by_addr, a) /\ t \in DOMAIN f
  <2>1. id \in DOMAIN by_id /\ id \in DeviceId /\ by_id[id] \in Device /\ t \in Token /\ f[t] \in Op
    BY <1>0, <1>1, CarriesType, ValueType DEF Live
  <2>2. by_id' = [by_id EXCEPT ![id] = [by_id[id] EXCEPT !.in_flight = Remove(f, t)]]
    BY <1>1 DEF complete_in_flight
  <2>3. status' = [status EXCEPT ![f[t]] = outcome]
    BY <1>1 DEF complete_in_flight
  <2>4. /\ DOMAIN by_id' = DOMAIN by_id
        /\ by_id'[id].in_flight = Remove(f, t)
        /\ \A i \in DOMAIN by_id \ {id} : by_id'[i] = by_id[i]
    <3>1. /\ DOMAIN by_id' = DOMAIN by_id
          /\ by_id'[id] = [by_id[id] EXCEPT !.in_flight = Remove(f, t)]
          /\ \A i \in DOMAIN by_id \ {id} : by_id'[i] = by_id[i]
      BY <1>0, <2>1, <2>2 DEF IsMap
    <3>2. [by_id[id] EXCEPT !.in_flight = Remove(f, t)].in_flight = Remove(f, t)
      BY <2>1 DEF Device
    <3>3. QED BY <3>1, <3>2
  <2>5. \A i \in DeviceId, u \in Token, op \in Op :
          Carries(by_id', i, u, op) <=> Carries(by_id, i, u, op) /\ ~(i = id /\ u = t)
    <3>1. DOMAIN Remove(f, t) = DOMAIN f \ {t} /\ \A u \in DOMAIN f \ {t} : Remove(f, t)[u] = f[u]
      BY RemoveAllValue DEF Remove
    <3> HIDE DEF id
    <3>2. QED BY <2>1, <2>4, <3>1 DEF Carries
  <2>6. Carries(by_id, id, t, f[t])
    BY <1>1, <2>1 DEF Carries
  <2>7. \A i \in DeviceId, u \in Token, op \in Op :
          Carries(by_id, i, u, op) => (i = id /\ u = t <=> op = f[t])
    <3> SUFFICES ASSUME NEW i \in DeviceId, NEW u \in Token, NEW op \in Op,
                        Carries(by_id, i, u, op)
                 PROVE  i = id /\ u = t <=> op = f[t]
      OBVIOUS
    <3>1. i = id /\ u = t => op = f[t]
      BY DEF Carries
    <3>2. op = f[t] => i = id /\ u = t
      BY SMT, <2>1, <2>6 DEF Accounts
    <3>3. QED BY <3>1, <3>2
  <2>8. status[f[t]] = "in_flight"
    BY SMT, <2>1, <2>6 DEF Accounts
  <2>9. \A op \in Op : status'[op] = IF op \in {f[t]} THEN outcome ELSE status[op]
    BY <1>0, <2>1, <2>3
  <2>10. \A i \in DeviceId, u \in Token, op \in Op :
           Carries(by_id', i, u, op) <=> Carries(by_id, i, u, op) /\ op \notin {f[t]}
    BY <2>5, <2>7
  <2>11. \A op \in Op : op \in {f[t]} => status[op] = "in_flight"
    BY <2>8
  <2>12. QED
    <3> DEFINE X == {f[t]}
    <3> HIDE DEF X
    <3>1. /\ \A op \in Op : op \in X => status[op] = "in_flight"
          /\ \A i \in DeviceId, u \in Token, op \in Op :
               Carries(by_id', i, u, op) <=> Carries(by_id, i, u, op) /\ op \notin X
          /\ \A op \in Op : status'[op] = IF op \in X THEN outcome ELSE status[op]
      BY <2>9, <2>10, <2>11 DEF X
    <3>2. QED BY SMT, <3>1, DropAccounts
<1>2. CASE ~(Live(by_addr, a) /\ t \in DOMAIN f)
  BY <1>2, FlightsKept DEF complete_in_flight
<1>3. QED BY <1>1, <1>2

\* register, new endpoint: a device with the same id, once the counter has
\* wrapped, is overwritten and its operations are dropped.
LEMMA NewAccounts ==
    ASSUME TypeOK, Accounts(by_id, status), NEW e, NEW a, NEW lt, register_new(e, a, lt)
    PROVE  Accounts(by_id', status') /\ FatesKept(status, status')
<1> DEFINE X == IF next_id \in DOMAIN by_id THEN OpsOf(by_id[next_id]) ELSE {}
<1>0. IsMap(by_id, DeviceId, Device) /\ status \in [Op -> Status] /\ next_id \in DeviceId
  BY DEF TypeOK
<1>1. /\ DOMAIN by_id' = DOMAIN by_id \cup {next_id}
      /\ by_id'[next_id] = NewDevice(e, a, lt)
      /\ \A id \in DOMAIN by_id \ {next_id} : by_id'[id] = by_id[id]
  BY SMT, InsertValue DEF register_new
<1>2. DOMAIN by_id'[next_id].in_flight = {}
  BY SMT, <1>1 DEF NewDevice, EmptyMap
<1>3. \A op : op \in X <=> \E t \in Token : Carries(by_id, next_id, t, op)
  <2>1. \A id \in DOMAIN by_id : \A t \in DOMAIN by_id[id].in_flight : t \in Token
    BY <1>0, CarriesType
  <2>2. QED BY <2>1 DEF OpsOf, Carries
<1>4. \A op \in Op : status'[op] = IF op \in X THEN "dropped" ELSE status[op]
  BY <1>0 DEF register_new, Settle
<1> HIDE DEF X
<1>5. \A op \in Op : op \in X => status[op] = "in_flight"
  BY <1>0, <1>3 DEF Accounts
<1>6. \A id \in DeviceId, t \in Token, op \in Op :
        Carries(by_id', id, t, op) <=> Carries(by_id, id, t, op) /\ id # next_id
  BY <1>1, <1>2 DEF Carries
<1>7. \A id \in DeviceId, t \in Token, op \in Op :
        Carries(by_id, id, t, op) => (id = next_id <=> op \in X)
  BY SMT, <1>0, <1>3 DEF Accounts
<1>8. \A id \in DeviceId, t \in Token, op \in Op :
        Carries(by_id', id, t, op) <=> Carries(by_id, id, t, op) /\ op \notin X
  BY <1>6, <1>7
<1>9. QED BY SMT, <1>4, <1>5, <1>8, DropAccounts DEF Settled

\* place_in_flight: the operation enters one table, where it may replace another
\* one of the same token.
LEMMA PlaceAccounts ==
    ASSUME TypeOK, Accounts(by_id, status), NEW op \in Op, NEW a, place_in_flight(op, a)
    PROVE  Accounts(by_id', status') /\ FatesKept(status, status')
<1> DEFINE id == by_addr[a]
           f  == by_id[id].in_flight
           t  == TokenOf[op]
<1>0. IsMap(by_id, DeviceId, Device) /\ status \in [Op -> Status] /\ status[op] = "idle"
  BY DEF TypeOK, place_in_flight
<1>1. CASE Live(by_addr, a)
  <2>1. id \in DOMAIN by_id /\ id \in DeviceId /\ by_id[id] \in Device /\ t \in Token
    BY SMT, <1>0, <1>1, ValueType, RegistryAssumption DEF Live
  <2>2. by_id' = [by_id EXCEPT ![id] = [by_id[id] EXCEPT !.in_flight = Insert(f, t, op)]]
    BY <1>1 DEF place_in_flight
  <2>3. \A o \in Op : status'[o] = IF o = op THEN "in_flight"
                                    ELSE IF t \in DOMAIN f /\ o = f[t] THEN "dropped"
                                    ELSE status[o]
    BY <1>1 DEF place_in_flight
  <2>4. /\ DOMAIN by_id' = DOMAIN by_id
        /\ by_id'[id].in_flight = Insert(f, t, op)
        /\ \A i \in DOMAIN by_id \ {id} : by_id'[i] = by_id[i]
    <3>1. /\ DOMAIN by_id' = DOMAIN by_id
          /\ by_id'[id] = [by_id[id] EXCEPT !.in_flight = Insert(f, t, op)]
          /\ \A i \in DOMAIN by_id \ {id} : by_id'[i] = by_id[i]
      BY <1>0, <2>1, <2>2 DEF IsMap
    <3>2. [by_id[id] EXCEPT !.in_flight = Insert(f, t, op)].in_flight = Insert(f, t, op)
      BY <2>1 DEF Device
    <3>3. QED BY <3>1, <3>2
  <2>5. /\ DOMAIN Insert(f, t, op) = DOMAIN f \cup {t}
        /\ Insert(f, t, op)[t] = op
        /\ \A u \in DOMAIN f \ {t} : Insert(f, t, op)[u] = f[u]
    BY DEF Insert
  <2>6. \A i \in DeviceId, u \in Token, o \in Op :
          Carries(by_id, i, u, o) => o # op
    BY <1>0 DEF Accounts
  <2>7. \A o \in Op : Carries(by_id, id, t, o) <=> t \in DOMAIN f /\ o = f[t]
    BY <2>1 DEF Carries
  <2> HIDE DEF id, f, t
  <2>8. \A i \in DeviceId, u \in Token, o \in Op :
          Carries(by_id', i, u, o) <=>
            IF i = id /\ u = t THEN o = op ELSE Carries(by_id, i, u, o)
    <3>1. f = by_id[id].in_flight
      BY DEF f
    <3>2. QED BY SMT, <2>1, <2>4, <2>5, <3>1 DEF Carries
  <2>9. \A o \in Op : status'[o] = IF o = op THEN "in_flight"
                                    ELSE IF Carries(by_id, id, t, o) THEN "dropped"
                                    ELSE status[o]
    BY <2>3, <2>7
  <2>10. \A i \in DeviceId, u \in Token, o \in Op :
           Carries(by_id', i, u, o) => status'[o] = "in_flight" /\ TokenOf[o] = u
    <3> SUFFICES ASSUME NEW i \in DeviceId, NEW u \in Token, NEW o \in Op, Carries(by_id', i, u, o)
                 PROVE  status'[o] = "in_flight" /\ TokenOf[o] = u
      OBVIOUS
    <3>1. CASE i = id /\ u = t
      BY <2>8, <2>9, <3>1 DEF t
    <3>2. CASE ~(i = id /\ u = t)
      <4>1. Carries(by_id, i, u, o) /\ TokenOf[o] = u /\ status[o] = "in_flight"
        BY <2>8, <3>2 DEF Accounts
      <4>2. ~Carries(by_id, id, t, o)
        BY <2>1, <3>2, <4>1 DEF Accounts
      <4>3. QED BY <2>6, <2>9, <4>1, <4>2
    <3>3. QED BY <3>1, <3>2
  <2>11. \A o \in Op : status'[o] = "in_flight" =>
           \E i \in DeviceId, u \in Token : Carries(by_id', i, u, o)
    <3> SUFFICES ASSUME NEW o \in Op, status'[o] = "in_flight"
                 PROVE  \E i \in DeviceId, u \in Token : Carries(by_id', i, u, o)
      OBVIOUS
    <3>1. CASE o = op
      BY <2>1, <2>8, <3>1
    <3>2. CASE o # op
      <4>1. status[o] = "in_flight" /\ ~Carries(by_id, id, t, o)
        BY <2>9, <3>2
      <4>2. PICK i \in DeviceId, u \in Token : Carries(by_id, i, u, o)
        BY <4>1 DEF Accounts
      <4>3. QED BY <2>8, <4>1, <4>2
    <3>3. QED BY <3>1, <3>2
  <2>12. \A i, j \in DeviceId, u, v \in Token, o \in Op :
           Carries(by_id', i, u, o) /\ Carries(by_id', j, v, o) => i = j
    BY SMT, <2>6, <2>8 DEF Accounts
  <2>13. FatesKept(status, status')
    <3>1. \A o \in Op : Carries(by_id, id, t, o) => status[o] = "in_flight"
      BY <2>1 DEF Accounts
    <3>2. QED BY <1>0, <2>9, <3>1 DEF FatesKept, Settled
  <2>14. QED BY <2>10, <2>11, <2>12, <2>13 DEF Accounts
<1>2. CASE ~Live(by_addr, a)
  <2>1. by_id' = by_id /\ status' = [status EXCEPT ![op] = "dropped"]
    BY <1>2 DEF place_in_flight
  <2>2. \A o \in Op : status'[o] = IF o = op THEN "dropped" ELSE status[o]
    BY <1>0, <2>1
  <2>3. QED BY SMT, <1>0, <2>1, <2>2 DEF Accounts, FatesKept, Settled
<1>3. QED BY <1>1, <1>2

\* timeout_in_flight
LEMMA SweepAccounts ==
    ASSUME TypeOK, Accounts(by_id, status), NEW O \in SUBSET Op, timeout_in_flight(O)
    PROVE  Accounts(by_id', status') /\ FatesKept(status, status')
<1> DEFINE F(id) == by_id[id].in_flight
           T(id) == {t \in DOMAIN F(id) : F(id)[t] \in O}
<1>0. IsMap(by_id, DeviceId, Device) /\ \A op \in O : status[op] = "in_flight"
  BY DEF TypeOK, timeout_in_flight
<1>1. /\ DOMAIN by_id' = DOMAIN by_id
      /\ \A id \in DOMAIN by_id : by_id'[id].in_flight = RemoveAll(F(id), T(id))
  <2>1. by_id' = [id \in DOMAIN by_id |-> [by_id[id] EXCEPT !.in_flight = RemoveAll(F(id), T(id))]]
    BY DEF timeout_in_flight
  <2>2. \A id \in DOMAIN by_id : by_id[id] \in Device
    BY <1>0, ValueType
  <2>3. \A d \in Device : \A g : [d EXCEPT !.in_flight = g].in_flight = g
    BY DEF Device
  <2>4. QED BY <2>1, <2>2, <2>3
<1>2. \A id \in DOMAIN by_id :
        /\ DOMAIN by_id'[id].in_flight = DOMAIN F(id) \ T(id)
        /\ \A t \in DOMAIN F(id) \ T(id) : by_id'[id].in_flight[t] = F(id)[t]
  <2> HIDE DEF F, T
  <2>1. ASSUME NEW id \in DOMAIN by_id
        PROVE  /\ DOMAIN RemoveAll(F(id), T(id)) = DOMAIN F(id) \ T(id)
               /\ \A t \in DOMAIN F(id) \ T(id) : RemoveAll(F(id), T(id))[t] = F(id)[t]
    BY RemoveAllValue
  <2>2. QED BY <1>1, <2>1
<1>3. \A id \in DeviceId, t \in Token, op \in Op :
        Carries(by_id', id, t, op) <=> Carries(by_id, id, t, op) /\ op \notin O
  BY SMT, <1>1, <1>2 DEF Carries
<1>4. \A op \in Op : status'[op] = IF op \in O THEN "timeout" ELSE status[op]
  BY DEF timeout_in_flight, Settle
<1>5. \A op \in Op : op \in O => status[op] = "in_flight"
  BY <1>0
<1>6. "timeout" \in Settled
  BY DEF Settled
<1>7. QED
  <2> HIDE DEF F, T
  <2> QED BY SMT, <1>3, <1>4, <1>5, <1>6, DropAccounts

\* Every step keeps operations accounted for, and settled ones as they are until
\* the process restarts.
LEMMA AccountsStep ==
    ASSUME TypeOK, Accounts(by_id, status), [Next]_vars
    PROVE  /\ Accounts(by_id', status')
           /\ restarts' = restarts => FatesKept(status, status')
<1> DEFINE Goal == /\ Accounts(by_id', status')
                   /\ restarts' = restarts => FatesKept(status, status')
<1>0. IsMap(by_id, DeviceId, Device) /\ \A id \in DOMAIN by_id : by_id[id] \in Device
  BY ValueType DEF TypeOK
<1>0a. \A d \in Device :
         /\ \A x, y, z : [d EXCEPT !.addr = x, !.lifetime = y, !.age = z].in_flight = d.in_flight
         /\ \A x, y : [d EXCEPT !.age = x, !.lifetime = y].in_flight = d.in_flight
         /\ \A x, y : [d EXCEPT !.addr = x, !.online = y].in_flight = d.in_flight
         /\ \A x : [d EXCEPT !.online = x].in_flight = d.in_flight
         /\ \A x : [d EXCEPT !.age = x].in_flight = d.in_flight
  BY DEF Device
<1>1. ASSUME NEW p \in Arriving, handle_packet(p) PROVE Goal
  <2>1. /\ DOMAIN by_id' = DOMAIN by_id /\ status' = status
        /\ \A id \in DOMAIN by_id : by_id'[id].in_flight = by_id[id].in_flight
    BY SMT, <1>0, <1>0a, <1>1 DEF handle_packet, touch
  <2>2. QED BY <2>1, FlightsKept
<1>2. ASSUME handle_registration PROVE Goal
  <2>1. CASE rx.ep \in DOMAIN by_endpoint
    <3>1. reregister(rx.ep, rx.addr, rx.lt)
      BY <1>2, <2>1 DEF handle_registration, register
    <3>2. /\ DOMAIN by_id' = DOMAIN by_id /\ status' = status
          /\ \A id \in DOMAIN by_id : by_id'[id].in_flight = by_id[id].in_flight
      BY SMT, <1>0, <1>0a, <3>1 DEF reregister, Live
    <3>3. QED BY <3>2, FlightsKept
  <2>2. CASE rx.ep \notin DOMAIN by_endpoint
    BY <1>2, <2>2, NewAccounts DEF handle_registration, register
  <2>3. QED BY <2>1, <2>2
<1>3. ASSUME handle_update PROVE Goal
  <2>1. /\ DOMAIN by_id' = DOMAIN by_id /\ status' = status
        /\ \A id \in DOMAIN by_id : by_id'[id].in_flight = by_id[id].in_flight
    BY SMT, <1>0, <1>0a, <1>3 DEF handle_update, renew_registration, Live
  <2>2. QED BY <2>1, FlightsKept
<1>4. ASSUME handle_delete PROVE Goal
  BY <1>4, RemoveAccounts DEF handle_delete
<1>5. ASSUME handle_ack PROVE Goal
  BY <1>5, CompleteAccounts DEF handle_ack, Settled
<1>6. ASSUME reply_fails PROVE Goal
  BY <1>6, FlightsKept DEF reply_fails, registry
<1>7. ASSUME NEW op \in Op, NEW a \in Source, place_in_flight(op, a) PROVE Goal
  BY <1>7, PlaceAccounts
<1>8. ASSUME NEW a \in Addr, NEW t \in Token, final_timeout(a, t) PROVE Goal
  BY <1>8, CompleteAccounts DEF final_timeout, Settled
<1>9. ASSUME NEW a \in Addr, set_device_offline(a) PROVE Goal
  <2>1. /\ DOMAIN by_id' = DOMAIN by_id /\ status' = status
        /\ \A id \in DOMAIN by_id : by_id'[id].in_flight = by_id[id].in_flight
    BY SMT, <1>0, <1>0a, <1>9 DEF set_device_offline, Live
  <2>2. QED BY <2>1, FlightsKept
<1>10. ASSUME expire_stale PROVE Goal
  BY <1>10, PurgeAccounts DEF expire_stale, Expired
<1>11. ASSUME NEW O \in SUBSET Op, timeout_in_flight(O) PROVE Goal
  BY <1>11, SweepAccounts
<1>12. ASSUME NEW a \in Addr, remove_device(a) PROVE Goal
  BY <1>12, RemoveAccounts DEF remove_device
<1>13. ASSUME save_registry PROVE Goal
  BY <1>13, FlightsKept DEF save_registry, registry
<1>14. ASSUME NEW I \in SUBSET DOMAIN wakaama, restart(I) PROVE Goal
  <2>1. restarts' # restarts
    BY SMT, <1>14 DEF restart, TypeOK
  <2>2. \A id \in DOMAIN by_id' : DOMAIN by_id'[id].in_flight = {}
    BY <1>14 DEF restart, restore, EmptyMap
  <2>3. \A id, t, op : ~Carries(by_id', id, t, op)
    BY <2>2 DEF Carries
  <2>4. \A op \in Op : status'[op] = "idle"
    BY <1>14 DEF restart
  <2>5. QED BY <2>1, <2>3, <2>4 DEF Accounts
<1>15. ASSUME Tick PROVE Goal
  <2>1. /\ DOMAIN by_id' = DOMAIN by_id /\ status' = status
        /\ \A id \in DOMAIN by_id : by_id'[id].in_flight = by_id[id].in_flight
    BY <1>0, <1>0a, <1>15 DEF Tick
  <2>2. QED BY <2>1, FlightsKept
<1>16. CASE UNCHANGED vars
  BY <1>16, FlightsKept DEF vars
<1>17. QED
  BY <1>1, <1>2, <1>3, <1>4, <1>5, <1>6, <1>7, <1>8, <1>9, <1>10, <1>11,
     <1>12, <1>13, <1>14, <1>15, <1>16 DEF Next

\* No operation in flight is forgotten, and none is in two tables: whoever waits
\* for it will be answered, for any number of operations, also of equal tokens.
THEOREM OpsAccounted == Spec => []OpAccounted
<1>1. Init => OpAccounted
  BY DEF Init, OpAccounted, EmptyMap
<1>2. TypeOK /\ OpAccounted /\ [Next]_vars => OpAccounted'
  BY TypeStep, AccountsNow, AccountsNext, AccountsStep
<1>3. QED
  BY <1>1, <1>2, TypeCorrect, PTL DEF Spec

\* An operation is resolved once: no later answer, timeout or removal changes
\* what its caller was told.
THEOREM OutcomesAreFinal == Spec => OutcomeFinal
<1>1. TypeOK /\ OpAccounted /\ [Next]_vars
      => [\A op \in Op :
            status[op] \in {"answered", "timeout", "dropped"} /\ restarts' = restarts
              => status'[op] = status[op]]_vars
  BY AccountsNow, AccountsStep DEF FatesKept, Settled
<1>2. QED
  BY <1>1, TypeCorrect, OpsAccounted, PTL DEF Spec, OutcomeFinal

-----------------------------------------------------------------------------
(* Registrations expire when they are due.                                 *)

\* Handlers leave no packet behind, and only a registered device sends updates.
LEMMA SenderStep ==
    ASSUME TypeOK, SenderInv, [Next]_vars
    PROVE  SenderInv'
<1>0. NoPacket.kind = "none"
  BY DEF NoPacket
<1>1. ASSUME NEW p \in Arriving, handle_packet(p) PROVE SenderInv'
  <2>1. /\ rx' = IF p.kind = "other" THEN NoPacket ELSE p
        /\ client' = client
    BY <1>1 DEF handle_packet, history
  <2>2. p.kind \in {"update", "delete"} => p.ep \in DOMAIN client
    BY DEF Arriving, RdPacket, AckPacket, OtherPacket
  <2>3. QED BY <1>0, <2>1, <2>2 DEF SenderInv
<1>2. ASSUME rx' = NoPacket PROVE SenderInv'
  BY <1>0, <1>2 DEF SenderInv
<1>3. ASSUME rx' = rx, client' = client PROVE SenderInv'
  BY <1>3 DEF SenderInv
<1>4. ASSUME Tick PROVE SenderInv'
  <2>1. DOMAIN client' = DOMAIN client /\ rx' = rx
    BY <1>4 DEF Tick
  <2>2. QED BY <2>1 DEF SenderInv
<1>5. QED
  BY <1>1, <1>2, <1>3, <1>4
  DEF Next, handle_registration, handle_update, handle_delete, handle_ack, reply_fails,
      place_in_flight, final_timeout, set_device_offline, expire_stale, timeout_in_flight,
      remove_device, save_registry, restart, history, vars

\* What LifeInv reads of a device.
LifeKept(id) ==
    /\ by_id'[id].endpoint = by_id[id].endpoint
    /\ by_id'[id].addr = by_id[id].addr
    /\ by_id'[id].lifetime = by_id[id].lifetime
    /\ by_id'[id].age = by_id[id].age

\* Devices may go, but those that stay keep their registration.
LEMMA LivesKept ==
    ASSUME LifeInv,
           \A id \in DOMAIN by_id' : id \in DOMAIN by_id /\ LifeKept(id),
           \A e \in DOMAIN client' : e \in DOMAIN client /\ client'[e] = client[e],
           UNCHANGED <<wrapped, restarts>>, shared => shared'
    PROVE  LifeInv'
<1>1. \A id \in DOMAIN by_id' : \A c, e : Matches(by_id[id], c, e) => Matches(by_id'[id], c, e)
  BY DEF Matches, LifeKept
<1>2. QED BY <1>1 DEF LifeInv

\* remove_by_addr and expire_stale.
LEMMA PurgeLife ==
    ASSUME NEW I, NEW A, Purge(I, A)
    PROVE  \A id \in DOMAIN by_id' : id \in DOMAIN by_id /\ LifeKept(id)
<1>1. \A id \in DOMAIN by_id' : id \in DOMAIN by_id /\ by_id'[id] = by_id[id]
  BY DEF Purge, RemoveAll
<1>2. QED BY <1>1 DEF LifeKept

\* remove_by_addr leaves the records it keeps as they are.
LEMMA RemoveLife ==
    ASSUME NEW a, remove_by_addr(a)
    PROVE  \A id \in DOMAIN by_id' : id \in DOMAIN by_id /\ LifeKept(id)
BY PurgeLife DEF remove_by_addr, LifeKept

\* complete_in_flight
LEMMA CompleteLife ==
    ASSUME TypeOK, NEW a, NEW t, NEW outcome, complete_in_flight(a, t, outcome)
    PROVE  \A id \in DOMAIN by_id' : id \in DOMAIN by_id /\ LifeKept(id)
<1>1. \A id \in DOMAIN by_id : by_id[id] \in Device
  BY ValueType DEF TypeOK
<1>2. QED BY SMT, <1>1 DEF complete_in_flight, Device, TypeOK, IsMap, LifeKept

\* The device e registers at address a, where no other device is.
LEMMA RegisterLife ==
    ASSUME IndexInv, LifeInv, handle_registration
    PROVE  LifeInv'
<1> DEFINE e == rx.ep
           a == rx.addr
<1> SUFFICES ASSUME restarts' = 0, ~wrapped', ~shared' PROVE LifeInv'
  BY DEF LifeInv
<1>0. /\ register(e, a, rx.lt)
      /\ client' = Insert(client, e, [home |-> a, declared |-> rx.lt, quiet |-> 0])
      /\ restarts' = restarts
  BY DEF handle_registration
<1>0a. \A id \in DOMAIN by_id : by_id[id] \in Device
  BY ValueType DEF IndexInv, TypeOK
<1>1. restarts = 0 /\ ~wrapped /\ ~shared /\ ~Taken(a, e)
  BY <1>0 DEF register, reregister, register_new
<1>2. /\ \A i \in DOMAIN by_id : by_id[i].endpoint # e => by_id[i].addr # a
      /\ \A f \in DOMAIN client \ {e} : client[f].home # a
  BY <1>1 DEF Taken
<1>3. \A i \in DOMAIN by_id : \A f \in DOMAIN client : Matches(by_id[i], client[f], f)
  BY <1>1 DEF LifeInv
<1>4. /\ DOMAIN client' = DOMAIN client \cup {e}
      /\ client'[e].home = a /\ client'[e].declared = rx.lt /\ client'[e].quiet = 0
      /\ \A f \in DOMAIN client \ {e} : client'[f] = client[f]
  <2> DEFINE c == [home |-> a, declared |-> rx.lt, quiet |-> 0]
  <2>1. c.home = a /\ c.declared = rx.lt /\ c.quiet = 0
    OBVIOUS
  <2> HIDE DEF c
  <2>2. client' = Insert(client, e, c)
    BY <1>0 DEF c
  <2>3. /\ DOMAIN client' = DOMAIN client \cup {e} /\ client'[e] = c
        /\ \A f \in DOMAIN client \ {e} : client'[f] = client[f]
    BY <2>2 DEF Insert
  <2>4. QED BY <2>1, <2>3
<1>5. ASSUME NEW id, by_id'[id].endpoint = e, by_id'[id].addr = a, by_id'[id].lifetime = rx.lt,
             by_id'[id].age = 0,
             \A i \in DOMAIN by_id' \ {id} : /\ i \in DOMAIN by_id /\ by_id'[i] = by_id[i]
                                             /\ by_id[i].endpoint # e
      PROVE  LifeInv'
  <2> SUFFICES ASSUME NEW i \in DOMAIN by_id', NEW f \in DOMAIN client'
               PROVE  Matches(by_id'[i], client'[f], f)
    BY DEF LifeInv
  <2>1. CASE i = id /\ f = e
    BY <1>4, <1>5, <2>1 DEF Matches
  <2>2. CASE i = id /\ f # e
    BY <1>2, <1>4, <1>5, <2>2 DEF Matches
  <2>3. CASE i # id /\ f = e
    BY <1>2, <1>4, <1>5, <2>3 DEF Matches
  <2>4. CASE i # id /\ f # e
    BY <1>3, <1>4, <1>5, <2>4
  <2>5. QED BY <2>1, <2>2, <2>3, <2>4
<1>6. CASE e \in DOMAIN by_endpoint
  <2> DEFINE id == by_endpoint[e]
  <2>1. reregister(e, a, rx.lt) /\ id \in DOMAIN by_id
    BY <1>0, <1>6 DEF register, reregister, Live
  <2>2. by_id[id].endpoint = e /\ \A i \in DOMAIN by_id \ {id} : by_id[i].endpoint # e
    BY <1>1, <1>6 DEF IndexInv, IndexConsistent
  <2>3. /\ DOMAIN by_id' = DOMAIN by_id
        /\ by_id'[id].endpoint = e /\ by_id'[id].addr = a
        /\ by_id'[id].lifetime = rx.lt /\ by_id'[id].age = 0
        /\ \A i \in DOMAIN by_id \ {id} : by_id'[i] = by_id[i]
    BY <1>0a, <2>1, <2>2 DEF reregister, Device
  <2> HIDE DEF id
  <2>4. QED BY <1>5, <2>2, <2>3
<1>7. CASE e \notin DOMAIN by_endpoint
  <2>1. register_new(e, a, rx.lt)
    BY <1>0, <1>7 DEF register
  <2>2. next_id \notin DOMAIN by_id
    BY SMT, <1>1 DEF IndexInv, NextIdFresh, TypeOK
  <2>3. \A i \in DOMAIN by_id : by_id[i].endpoint # e
    BY <1>1, <1>7 DEF IndexInv, IndexConsistent
  <2> DEFINE d == NewDevice(e, a, rx.lt)
  <2>4. d.endpoint = e /\ d.addr = a /\ d.lifetime = rx.lt /\ d.age = 0
    BY DEF NewDevice
  <2> HIDE DEF d
  <2>5. /\ DOMAIN by_id' = DOMAIN by_id \cup {next_id}
        /\ by_id'[next_id] = d
        /\ \A i \in DOMAIN by_id : by_id'[i] = by_id[i]
    BY <2>1, <2>2 DEF register_new, Insert, d
  <2>6. QED BY <1>5, <2>3, <2>4, <2>5
<1>8. QED BY <1>6, <1>7

\* An update from the address e registered from renews the record of e, and no
\* other.
LEMMA UpdateLife ==
    ASSUME IndexInv, AddrIndexComplete, SenderInv, LifeInv, handle_update, client[rx.ep].home = rx.addr
    PROVE  LifeInv'
<1> DEFINE e == rx.ep
           a == rx.addr
           c == client[e]
           lt == rx.lt
<1> SUFFICES ASSUME restarts = 0, ~wrapped, ~shared PROVE LifeInv'
  BY DEF LifeInv, handle_update
<1>0. /\ renew_registration(a, lt)
      /\ client' = [client EXCEPT ![e] =
                      [c EXCEPT !.quiet = 0, !.declared = IF lt = NoLt THEN c.declared ELSE lt]]
  BY DEF handle_update
<1>1. e \in DOMAIN client /\ c.home = a
  BY DEF handle_update, SenderInv
<1>2. (\A i \in DOMAIN by_id : by_id[i] \in Device) /\ c \in Client
  BY <1>1, ValueType DEF IndexInv, TypeOK
<1>3. \A i \in DOMAIN by_id : \A f \in DOMAIN client : Matches(by_id[i], client[f], f)
  BY DEF LifeInv
<1>4. /\ DOMAIN client' = DOMAIN client
      /\ client'[e].home = a /\ client'[e].quiet = 0
      /\ client'[e].declared = (IF lt = NoLt THEN c.declared ELSE lt)
      /\ \A f \in DOMAIN client \ {e} : client'[f] = client[f]
  BY <1>0, <1>1, <1>2 DEF Client
<1>5. DOMAIN by_id' = DOMAIN by_id
  BY <1>0 DEF renew_registration
<1>6. \A i \in DOMAIN by_id : by_id[i].endpoint # e => by_id'[i] = by_id[i]
  <2>1. Live(by_addr, a) => by_id[by_addr[a]].endpoint = e
    <3>1. Live(by_addr, a) => by_addr[a] \in DOMAIN by_id /\ by_id[by_addr[a]].addr = a
      BY DEF IndexInv, IndexConsistent, Live
    <3>2. QED BY ZenonT(60), <1>1, <1>3, <3>1 DEF Matches
  <2>2. QED BY <1>0, <2>1 DEF renew_registration
<1>7. ASSUME NEW i \in DOMAIN by_id, by_id[i].endpoint = e
      PROVE  /\ by_id'[i].endpoint = e /\ by_id'[i].addr = a /\ by_id'[i].age = 0
             /\ by_id'[i].lifetime = (IF lt = NoLt THEN c.declared ELSE lt)
  <2>1. by_id[i].addr = a /\ by_id[i].lifetime = c.declared
    BY <1>1, <1>3, <1>7 DEF Matches
  <2>2. Live(by_addr, a) /\ by_addr[a] = i
    BY <2>1 DEF AddrIndexComplete, Live
  <2>3. by_id'[i] = [by_id[i] EXCEPT !.age = 0,
                                     !.lifetime = IF lt = NoLt THEN by_id[i].lifetime ELSE lt]
    BY <1>0, <2>2 DEF renew_registration
  <2>4. QED BY <1>2, <1>7, <2>1, <2>3 DEF Device
<1>8. QED
  <2> SUFFICES ASSUME NEW i \in DOMAIN by_id, NEW f \in DOMAIN client
               PROVE  Matches(by_id'[i], client'[f], f)
    BY <1>4, <1>5 DEF LifeInv
  <2>1. Matches(by_id[i], client[f], f)
    BY <1>3
  <2>2. CASE by_id[i].endpoint = e /\ f = e
    BY <1>4, <1>7, <2>2 DEF Matches
  <2>3. CASE by_id[i].endpoint = e /\ f # e
    <3>1. client[f].home # a
      BY <1>1, <1>3, <2>1, <2>3 DEF Matches
    <3>2. QED BY <1>4, <1>7, <2>3, <3>1 DEF Matches
  <2>4. CASE by_id[i].endpoint # e /\ f = e
    BY <1>1, <1>4, <1>6, <2>1, <2>4 DEF Matches
  <2>5. CASE by_id[i].endpoint # e /\ f # e
    BY <1>4, <1>6, <2>1, <2>5
  <2>6. QED BY <2>2, <2>3, <2>4, <2>5

\* An update from another address finds no record, unless that is the address of
\* another device.
LEMMA StrayLife ==
    ASSUME IndexInv, SenderInv, LifeInv, handle_update, client[rx.ep].home # rx.addr
    PROVE  LifeInv'
<1> DEFINE e == rx.ep
           a == rx.addr
<1> SUFFICES ASSUME restarts = 0, ~wrapped, ~shared, ~Taken(a, e) PROVE LifeInv'
  BY DEF LifeInv, handle_update
<1>1. e \in DOMAIN client
  BY DEF handle_update, SenderInv
<1>2. ASSUME Live(by_addr, a) PROVE FALSE
  <2>1. by_addr[a] \in DOMAIN by_id /\ by_id[by_addr[a]].addr = a
    BY <1>2 DEF IndexInv, IndexConsistent, Live
  <2>2. by_id[by_addr[a]].endpoint = e
    BY <2>1 DEF Taken
  <2>3. by_id[by_addr[a]].addr = client[e].home
    BY <1>1, <2>1, <2>2 DEF LifeInv, Matches
  <2>4. QED BY <2>1, <2>3
<1>3. by_id' = by_id /\ client' = client
  BY <1>2 DEF handle_update, renew_registration
<1>4. QED BY <1>3 DEF LifeInv

\* Every step of every task keeps LifeInv.
LEMMA LifeStep ==
    ASSUME IndexInv, AddrIndexComplete, SenderInv, LifeInv, [Next]_vars
    PROVE  LifeInv'
<1>0. TypeOK /\ (\A id \in DOMAIN by_id : by_id[id] \in Device)
             /\ (\A e \in DOMAIN client : client[e] \in Client)
  BY ValueType DEF IndexInv, TypeOK
<1>1. ASSUME NEW p \in Arriving, handle_packet(p) PROVE LifeInv'
  <2>0. UNCHANGED <<client, wrapped, shared, restarts>> /\ touch(p.addr)
    BY <1>1 DEF handle_packet, history
  <2>1. CASE wrapped
    BY <2>0, <2>1 DEF LifeInv
  <2>2. CASE ~wrapped
    <3>1. \A id \in DOMAIN by_id' : id \in DOMAIN by_id /\ LifeKept(id)
      <4>1. CASE p.addr \in DOMAIN by_addr
        <5>1. by_id[by_addr[p.addr]].addr = p.addr
          BY <2>2, <4>1 DEF IndexInv, IndexConsistent
        <5>2. QED BY <1>0, <2>0, <4>1, <5>1 DEF touch, Device, LifeKept
      <4>2. CASE p.addr \notin DOMAIN by_addr
        BY <2>0, <4>2 DEF touch, LifeKept
      <4>3. QED BY <4>1, <4>2
    <3>2. QED BY <2>0, <3>1, LivesKept
  <2>3. QED BY <2>1, <2>2
<1>2. ASSUME handle_delete PROVE LifeInv'
  <2>1. \A e \in DOMAIN client' : e \in DOMAIN client /\ client'[e] = client[e]
    BY <1>2 DEF handle_delete, Remove, RemoveAll
  <2>2. QED BY <1>2, <2>1, RemoveLife, LivesKept DEF handle_delete
<1>3. ASSUME handle_ack PROVE LifeInv'
  BY <1>0, <1>3, CompleteLife, LivesKept DEF handle_ack, history
<1>4. ASSUME NEW op \in Op, NEW a \in Source, place_in_flight(op, a) PROVE LifeInv'
  <2>1. \A id \in DOMAIN by_id' : id \in DOMAIN by_id /\ LifeKept(id)
    BY SMT, <1>0, <1>4 DEF place_in_flight, Device, LifeKept
  <2>2. QED BY <1>4, <2>1, LivesKept DEF place_in_flight, history
<1>5. ASSUME NEW a \in Addr, NEW t \in Token, final_timeout(a, t) PROVE LifeInv'
  BY <1>0, <1>5, CompleteLife, LivesKept DEF final_timeout, history
<1>6. ASSUME NEW a \in Addr, set_device_offline(a) PROVE LifeInv'
  <2>1. \A id \in DOMAIN by_id' : id \in DOMAIN by_id /\ LifeKept(id)
    BY <1>0, <1>6 DEF set_device_offline, Device, LifeKept
  <2>2. QED BY <1>6, <2>1, LivesKept DEF set_device_offline, history
<1>7. ASSUME expire_stale PROVE LifeInv'
  BY <1>7, PurgeLife, LivesKept DEF expire_stale, history
<1>8. ASSUME NEW O \in SUBSET Op, timeout_in_flight(O) PROVE LifeInv'
  <2>1. \A id \in DOMAIN by_id' : id \in DOMAIN by_id /\ LifeKept(id)
    BY <1>0, <1>8 DEF timeout_in_flight, Device, LifeKept
  <2>2. QED BY <1>8, <2>1, LivesKept DEF timeout_in_flight, history
<1>9. ASSUME NEW a \in Addr, remove_device(a) PROVE LifeInv'
  BY <1>9, RemoveLife, LivesKept DEF remove_device, history
<1>10. ASSUME NEW I \in SUBSET DOMAIN wakaama, restart(I) PROVE LifeInv'
  <2>1. restarts' # 0
    BY SMT, <1>0, <1>10 DEF restart, TypeOK
  <2>2. QED BY <2>1 DEF LifeInv
<1>11. ASSUME Tick PROVE LifeInv'
  <2>1. /\ DOMAIN by_id' = DOMAIN by_id
        /\ \A id \in DOMAIN by_id : /\ by_id'[id].endpoint = by_id[id].endpoint
                                    /\ by_id'[id].addr = by_id[id].addr
                                    /\ by_id'[id].lifetime = by_id[id].lifetime
                                    /\ by_id'[id].age = Older(by_id[id].age)
    BY <1>0, <1>11 DEF Tick, Device
  <2>2. /\ DOMAIN client' = DOMAIN client
        /\ \A e \in DOMAIN client : /\ client'[e].home = client[e].home
                                    /\ client'[e].declared = client[e].declared
                                    /\ client'[e].quiet = Older(client[e].quiet)
    BY <1>0, <1>11 DEF Tick, Client
  <2>3. UNCHANGED <<wrapped, shared, restarts>>
    BY <1>11 DEF Tick
  <2>4. \A id \in DOMAIN by_id : \A e \in DOMAIN client :
          Matches(by_id[id], client[e], e) => Matches(by_id'[id], client'[e], e)
    BY <2>1, <2>2 DEF Matches
  <2>5. QED BY <2>1, <2>2, <2>3, <2>4 DEF LifeInv
<1>12. ASSUME UNCHANGED <<by_id, client, wrapped, shared, restarts>> PROVE LifeInv'
  BY <1>12 DEF LifeInv
<1>13. CASE reply_fails \/ save_registry \/ UNCHANGED vars
  BY <1>12, <1>13 DEF reply_fails, save_registry, registry, history, vars
<1>14. QED
  BY <1>1, <1>2, <1>3, <1>4, <1>5, <1>6, <1>7, <1>8, <1>9, <1>10, <1>11, <1>13,
     RegisterLife, UpdateLife, StrayLife DEF Next

\* The records of the registry follow what the devices declared and sent.
THEOREM LivesAreTrue == Spec => [](SenderInv /\ LifeInv)
<1>1. Init => SenderInv /\ LifeInv
  <2> SUFFICES ASSUME Init PROVE SenderInv /\ LifeInv
    OBVIOUS
  <2>1. rx.kind = "none"
    BY DEF Init, NoPacket
  <2>2. DOMAIN by_id = {}
    BY DEF Init, EmptyMap
  <2>3. QED BY <2>1, <2>2 DEF SenderInv, LifeInv
<1>2. /\ IndexInv /\ AddrIndexComplete /\ SenderInv /\ LifeInv /\ [Next]_vars
      => SenderInv' /\ LifeInv'
  BY SenderStep, LifeStep DEF IndexInv
<1>3. QED
  BY <1>1, <1>2, IndexInvariant, AddrComplete, PTL DEF Spec

\* Within one life of the process expire_stale purges a device only if, for longer
\* than its lifetime and the grace period, it has not updated from the address it
\* registered from.
THEOREM ExpiryOnlyWhenDue == Spec => ExpiryIsDue
<1>1. LifeInv /\ expire_stale /\ restarts = 0
      => \A e \in DOMAIN client :
           e \in DOMAIN by_endpoint \ DOMAIN by_endpoint' /\ ~wrapped /\ ~shared
           => client[e].quiet > client[e].declared + Grace
  <2> SUFFICES ASSUME LifeInv, expire_stale, restarts = 0, ~wrapped, ~shared,
                      NEW e \in DOMAIN client, e \in DOMAIN by_endpoint \ DOMAIN by_endpoint'
               PROVE  client[e].quiet > client[e].declared + Grace
    OBVIOUS
  <2>1. PICK id \in Expired : by_id[id].endpoint = e
    <3>1. DOMAIN by_endpoint' = DOMAIN by_endpoint \ {by_id[i].endpoint : i \in Expired}
      BY DEF expire_stale, Purge, RemoveAll
    <3>2. QED BY <3>1
  <2>2. id \in DOMAIN by_id /\ by_id[id].age > by_id[id].lifetime + Grace
    BY DEF Expired, is_expired
  <2>3. by_id[id].lifetime = client[e].declared /\ by_id[id].age = client[e].quiet
    BY <2>1, <2>2 DEF LifeInv, Matches
  <2>4. QED BY <2>2, <2>3
<1>2. LifeInv /\ [Next]_vars
      => [expire_stale /\ restarts = 0 =>
            \A e \in DOMAIN client :
              e \in DOMAIN by_endpoint \ DOMAIN by_endpoint' /\ ~wrapped /\ ~shared
              => client[e].quiet > client[e].declared + Grace]_vars
  BY <1>1
<1>3. QED
  BY <1>2, LivesAreTrue, PTL DEF Spec, ExpiryIsDue

=============================================================================
