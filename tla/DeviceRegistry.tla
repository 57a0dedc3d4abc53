--------------------------- MODULE DeviceRegistry ---------------------------
(***************************************************************************)
(* The device registry: three indexes behind one RwLock, and the tasks     *)
(* that call it.  A call holds the lock from its first line to its last,   *)
(* so a call is one action; what a task does between two calls is open to  *)
(* every other task.                                                       *)
(*                                                                         *)
(*   - the CoAP server task handles one packet at a time: first touch,     *)
(*     then the handler of the packet, which waits in rx in between;       *)
(*   - the dispatch task and its retransmit tasks place operations in      *)
(*     flight, time them out and mark devices offline;                     *)
(*   - housekeeping purges registrations and times out old operations;     *)
(*   - exclusion and the factory-reset timer remove devices by address;    *)
(*   - the process may stop at any moment and restart from wakaama.json.   *)
(*                                                                         *)
(* The devices themselves are the environment: client records what each    *)
(* device last told the server, and is read only by the properties.        *)
(***************************************************************************)
EXTENDS Integers, HashMap

CONSTANTS
    Endpoint,    \* endpoint names (SGTINs) of the devices
    Ip, Scope,   \* IPv6 addresses and scope ids; 0 is "no scope"
    Source,      \* the socket addresses packets arrive from
    Op,          \* the operations the other tasks send to devices
    Token,       \* the CoAP tokens
    TokenOf,     \* the token of each operation: its 32-bit op id
    Lifetime,    \* the lifetimes devices declare, in ticks
    Grace,       \* GRACE_SECS, in ticks
    Horizon,     \* ages are counted up to this bound
    MaxId,       \* u32::MAX
    MaxRestart   \* bound on the number of restarts

Addr == Ip \X Scope

NoLt == -1       \* an update without lt=

ASSUME RegistryAssumption ==
    /\ 0 \in Scope
    /\ Source \subseteq Addr
    /\ TokenOf \in [Op -> Token]
    /\ Grace \in Nat
    /\ Horizon \in Nat
    /\ Lifetime \subseteq Nat
    /\ \A lt \in Lifetime : lt + Grace < Horizon
    /\ MaxId \in Nat \ {0}
    /\ MaxRestart \in Nat

DeviceId == 0 .. MaxId

VARIABLES
    by_id,        \* DeviceId -> Device
    by_endpoint,  \* Endpoint -> DeviceId
    by_addr,      \* Addr -> DeviceId
    next_id,
    rx,           \* the packet being handled, once touch has returned
    wakaama,      \* the registrations in wakaama.json, keyed by reg_id
    status,       \* what has become of each operation's response channel
    client,       \* history: what each registered device told the server
    wrapped,      \* history: the id counter has passed u32::MAX
    shared,       \* history: a device used the address of another one
    restarts      \* how often the process has restarted

registry == <<by_id, by_endpoint, by_addr, next_id>>
history == <<client, wrapped, shared>>
vars == <<by_id, by_endpoint, by_addr, next_id, rx, wakaama, status,
          client, wrapped, shared, restarts>>

-----------------------------------------------------------------------------
(* Types.                                                                  *)

Age == 0 .. Horizon

\* Operations sent and not yet answered, by token.
Flight == UNION {[T -> Op] : T \in SUBSET Token}

\* A registered device.  age counts from last_registered_at; online is never
\* None after Device::new or restore; pending_ops is never filled.
Device == [endpoint : Endpoint, addr : Addr, lifetime : Nat, age : Age,
           online : BOOLEAN, in_flight : Flight]

\* A registration in wakaama.json; left counts down to end_of_life.
Snapshot == [endpoint : Endpoint, addr : Addr, left : Nat]

\* A device's registration, as the device made it: the address it registered
\* from, the lifetime it declared there, the time since it last registered, or
\* updated from there.
Client == [home : Source, declared : Lifetime, quiet : Age]

\* Packets whose handler changes the registry.  The ep of an update or a
\* delete is not on the wire: it records which device sent the packet.
RdPacket     == [kind : {"rd"}, addr : Source, ep : Endpoint, lt : Lifetime]
UpdatePacket == [kind : {"update"}, addr : Source, ep : Endpoint,
                 lt : Lifetime \cup {NoLt}]
DeletePacket == [kind : {"delete"}, addr : Source, ep : Endpoint]
AckPacket    == [kind : {"ack"}, addr : Source, token : Token]
OtherPacket  == [kind : {"other"}, addr : Source]
NoPacket     == [kind |-> "none"]

Packet == RdPacket \cup UpdatePacket \cup DeletePacket \cup AckPacket
          \cup OtherPacket

Status == {"idle", "in_flight", "answered", "timeout", "dropped"}

TypeOK ==
    /\ IsMap(by_id, DeviceId, Device)
    /\ IsMap(by_endpoint, Endpoint, DeviceId)
    /\ IsMap(by_addr, Addr, DeviceId)
    /\ next_id \in DeviceId
    /\ rx \in Packet \cup {NoPacket}
    /\ IsMap(wakaama, DeviceId, Snapshot)
    /\ status \in [Op -> Status]
    /\ IsMap(client, Endpoint, Client)
    /\ wrapped \in BOOLEAN
    /\ shared \in BOOLEAN
    /\ restarts \in 0 .. MaxRestart

-----------------------------------------------------------------------------
(* Helpers.                                                                *)

OpsOf(d) == {d.in_flight[t] : t \in DOMAIN d.in_flight}

\* Firing or dropping the response channels of the operations in O.
Settle(O, outcome) == [op \in Op |-> IF op \in O THEN outcome ELSE status[op]]

\* Device::is_expired
is_expired(d) == d.age > d.lifetime + Grace

Older(age) == IF age < Horizon THEN age + 1 ELSE age

\* Mutant of NextId: the counter runs past u32::MAX.
NextId_unbounded(id) == id + 1

\* wrapping_add(1).max(1)
NextId(id) == IF id = MaxId THEN 1 ELSE id + 1

\* by_id holds the device that the index entry names.  Where it does not,
\* touch (unwrap) and register (indexing) panic, which ends the process:
\* such a call has no successor state here.
Live(m, k) == k \in DOMAIN m /\ m[k] \in DOMAIN by_id

\* A restored session keeps the address and the port, not the scope id.
Unscoped(a) == <<a[1], 0>>

\* Another device than e is registered at address a, or sends from it.
Taken(a, e) ==
    \/ \E id \in DOMAIN by_id : by_id[id].addr = a /\ by_id[id].endpoint # e
    \/ \E f \in DOMAIN client \ {e} : client[f].home = a

-----------------------------------------------------------------------------
(* Registry calls, as operators on the state.                              *)

NewDevice(e, a, lt) ==
    [endpoint |-> e, addr |-> a, lifetime |-> lt, age |-> 0,
     online |-> TRUE, in_flight |-> EmptyMap]

\* Mutants of reregister: the new address is not entered; the device is built
\* anew and loses its operations.
reregister_no_entry(e, a, lt) ==
    LET old == by_id[by_endpoint[e]].addr
    IN  /\ by_addr' = IF old # a THEN Remove(by_addr, old) ELSE by_addr
        /\ by_id' = [by_id EXCEPT ![by_endpoint[e]] =
                        [@ EXCEPT !.addr = a, !.lifetime = lt, !.age = 0]]
        /\ UNCHANGED <<by_endpoint, next_id, status, wrapped>>

reregister_afresh(e, a, lt) ==
    LET old == by_id[by_endpoint[e]].addr
    IN  /\ by_addr' = IF old # a THEN Insert(Remove(by_addr, old), a, by_endpoint[e])
                                 ELSE by_addr
        /\ by_id' = [by_id EXCEPT ![by_endpoint[e]] = NewDevice(e, a, lt)]
        /\ UNCHANGED <<by_endpoint, next_id, status, wrapped>>

\* register, endpoint already known: same id, same operations in flight, same
\* connection status; the address index moves only if the address changed.
reregister(e, a, lt) ==
    LET id  == by_endpoint[e]
        old == by_id[id].addr
    IN  /\ Live(by_endpoint, e)
        /\ by_addr' = IF old # a THEN Insert(Remove(by_addr, old), a, id)
                                 ELSE by_addr
        /\ by_id' = [by_id EXCEPT ![id] = [@ EXCEPT !.addr = a,
                                                    !.lifetime = lt,
                                                    !.age = 0]]
        /\ UNCHANGED <<by_endpoint, next_id, status, wrapped>>

\* register, new endpoint.
register_new(e, a, lt) ==
    /\ by_id' = Insert(by_id, next_id, NewDevice(e, a, lt))
    /\ by_endpoint' = Insert(by_endpoint, e, next_id)
    /\ by_addr' = Insert(by_addr, a, next_id)
    /\ next_id' = NextId(next_id)
    /\ wrapped' = (wrapped \/ next_id = MaxId)
    /\ status' = IF next_id \in DOMAIN by_id
                 THEN Settle(OpsOf(by_id[next_id]), "dropped") ELSE status

register(e, a, lt) ==
    /\ IF e \in DOMAIN by_endpoint THEN reregister(e, a, lt)
                                   ELSE register_new(e, a, lt)
    /\ shared' = (shared \/ Taken(a, e))

\* Mutant of renew_registration: the timer is reset only with a new lifetime.
renew_with_lt_only(a, lt) ==
    by_id' = IF Live(by_addr, a) /\ lt # NoLt
             THEN [by_id EXCEPT ![by_addr[a]] =
                      [@ EXCEPT !.age = 0, !.lifetime = lt]]
             ELSE by_id

renew_registration(a, lt) ==
    by_id' = IF Live(by_addr, a)
             THEN LET d == by_id[by_addr[a]]
                  IN  [by_id EXCEPT ![by_addr[a]] =
                         [d EXCEPT !.age = 0,
                                   !.lifetime = IF lt = NoLt THEN d.lifetime ELSE lt]]
             ELSE by_id

\* Mutant of touch: any packet counts as a registration update.
touch_renews(a) ==
    by_id' = IF Live(by_addr, a)
             THEN [by_id EXCEPT ![by_addr[a]] =
                      [@ EXCEPT !.addr = a, !.online = TRUE, !.age = 0]]
             ELSE by_id

touch(a) ==
    /\ a \in DOMAIN by_addr => Live(by_addr, a)
    /\ by_id' = IF a \in DOMAIN by_addr
                THEN [by_id EXCEPT ![by_addr[a]] =
                         [@ EXCEPT !.addr = a, !.online = TRUE]]
                ELSE by_id

\* Removes the devices I; their operations are answered Timeout.
Purge(I, addrs) ==
    /\ by_id' = RemoveAll(by_id, I)
    /\ by_endpoint' = RemoveAll(by_endpoint, {by_id[id].endpoint : id \in I})
    /\ by_addr' = RemoveAll(by_addr, addrs)
    /\ status' = Settle(UNION {OpsOf(by_id[id]) : id \in I}, "timeout")
    /\ UNCHANGED next_id

remove_by_addr(a) ==
    IF Live(by_addr, a)
    THEN Purge({by_addr[a]}, {a})
    ELSE UNCHANGED <<by_id, by_endpoint, by_addr, next_id, status>>

\* Mutant of complete_in_flight: the operation is looked up, not removed.
peek_in_flight(a, t, outcome) ==
    IF Live(by_addr, a) /\ t \in DOMAIN by_id[by_addr[a]].in_flight
    THEN /\ status' = [status EXCEPT ![by_id[by_addr[a]].in_flight[t]] = outcome]
         /\ UNCHANGED by_id
    ELSE UNCHANGED <<by_id, status>>

\* complete_in_flight, and the caller's use of the channel it returns.
complete_in_flight(a, t, outcome) ==
    IF /\ Live(by_addr, a)
       /\ t \in DOMAIN by_id[by_addr[a]].in_flight
    THEN /\ by_id' = [by_id EXCEPT ![by_addr[a]].in_flight = Remove(@, t)]
         /\ status' = [status EXCEPT ![by_id[by_addr[a]].in_flight[t]] = outcome]
    ELSE UNCHANGED <<by_id, status>>

-----------------------------------------------------------------------------
(* The CoAP server task.                                                   *)

\* The packets that can arrive, each from any address: a device that updates or
\* deregisters need not have the address it registered from any more.
Arriving ==
    RdPacket
    \cup {p \in UpdatePacket \cup DeletePacket : p.ep \in DOMAIN client}
    \cup AckPacket \cup OtherPacket

\* handle_packet, up to the match on the message type.
handle_packet(p) ==
    /\ rx = NoPacket
    /\ touch(p.addr)
    /\ rx' = IF p.kind = "other" THEN NoPacket ELSE p
    /\ UNCHANGED <<by_endpoint, by_addr, next_id, wakaama, status, history, restarts>>

handle_registration ==
    /\ rx.kind = "rd"
    /\ register(rx.ep, rx.addr, rx.lt)
    /\ client' = Insert(client, rx.ep,
                        [home |-> rx.addr, declared |-> rx.lt, quiet |-> 0])
    /\ rx' = NoPacket
    /\ UNCHANGED <<wakaama, restarts>>

\* The id in the path is ignored: the update renews the registration at the
\* address it comes from, whoever's that is, or none.  It is answered 2.04.
handle_update ==
    /\ rx.kind = "update"
    /\ renew_registration(rx.addr, rx.lt)
    /\ client' = LET c == client[rx.ep]
                 IN  IF c.home = rx.addr
                     THEN [client EXCEPT ![rx.ep] =
                             [c EXCEPT !.quiet = 0,
                                       !.declared = IF rx.lt = NoLt THEN c.declared ELSE rx.lt]]
                     ELSE client
    /\ shared' = (shared \/ Taken(rx.addr, rx.ep))
    /\ rx' = NoPacket
    /\ UNCHANGED <<by_endpoint, by_addr, next_id, wakaama, status, wrapped, restarts>>

\* The same for a deregistration, answered 2.02.
handle_delete ==
    /\ rx.kind = "delete"
    /\ remove_by_addr(rx.addr)
    /\ client' = Remove(client, rx.ep)
    /\ shared' = (shared \/ Taken(rx.addr, rx.ep))
    /\ rx' = NoPacket
    /\ UNCHANGED <<wakaama, wrapped, restarts>>

\* The last step of handle_ack, and of handle_packet for a reset.
handle_ack ==
    /\ rx.kind = "ack"
    /\ complete_in_flight(rx.addr, rx.token, "answered")
    /\ rx' = NoPacket
    /\ UNCHANGED <<by_endpoint, by_addr, next_id, wakaama, history, restarts>>

\* Sending the reply fails: handle_update and handle_delete return before
\* they touch the registry.
reply_fails ==
    /\ rx.kind \in {"update", "delete"}
    /\ rx' = NoPacket
    /\ UNCHANGED <<registry, wakaama, status, history, restarts>>

-----------------------------------------------------------------------------
(* The dispatch task, its retransmit tasks and housekeeping.               *)

\* dispatch_op: an unknown address drops the operation, and with it the
\* sender; an operation in flight under the same token is dropped too.
place_in_flight(op, a) ==
    /\ status[op] = "idle"
    /\ IF Live(by_addr, a)
       THEN LET flight == by_id[by_addr[a]].in_flight
                t      == TokenOf[op]
            IN  /\ by_id' = [by_id EXCEPT ![by_addr[a]].in_flight = Insert(@, t, op)]
                /\ status' = [o \in Op |->
                                IF o = op THEN "in_flight"
                                ELSE IF t \in DOMAIN flight /\ o = flight[t]
                                     THEN "dropped" ELSE status[o]]
       ELSE status' = [status EXCEPT ![op] = "dropped"] /\ UNCHANGED by_id
    /\ UNCHANGED <<by_endpoint, by_addr, next_id, rx, wakaama, history, restarts>>

\* A retransmit task gives up: the operation is answered Timeout.
final_timeout(a, t) ==
    /\ Live(by_addr, a)
    /\ t \in DOMAIN by_id[by_addr[a]].in_flight
    /\ complete_in_flight(a, t, "timeout")
    /\ UNCHANGED <<by_endpoint, by_addr, next_id, rx, wakaama, history, restarts>>

set_device_offline(a) ==
    /\ Live(by_addr, a)
    /\ by_id' = [by_id EXCEPT ![by_addr[a]].online = FALSE]
    /\ UNCHANGED <<by_endpoint, by_addr, next_id, rx, wakaama, status, history, restarts>>

Expired == {id \in DOMAIN by_id : is_expired(by_id[id])}

expire_stale ==
    /\ Expired # {}
    /\ Purge(Expired, {by_id[id].addr : id \in Expired})
    /\ UNCHANGED <<rx, wakaama, history, restarts>>

\* Operation ages are not kept: any set O of operations may be too old.
timeout_in_flight(O) ==
    /\ O # {}
    /\ \A op \in O : status[op] = "in_flight"
    /\ by_id' = [id \in DOMAIN by_id |->
                   LET f == by_id[id].in_flight
                   IN  [by_id[id] EXCEPT !.in_flight =
                          RemoveAll(f, {t \in DOMAIN f : f[t] \in O})]]
    /\ status' = Settle(O, "timeout")
    /\ UNCHANGED <<by_endpoint, by_addr, next_id, rx, wakaama, history, restarts>>

\* remove_by_addr from the factory-reset timer or from exclusion, at an
\* address that either read earlier.
remove_device(a) ==
    /\ Live(by_addr, a)
    /\ remove_by_addr(a)
    /\ UNCHANGED <<rx, wakaama, history, restarts>>

-----------------------------------------------------------------------------
(* Persistence and restart.                                                *)

\* DeviceRegistry::snapshot: what is left of the lifetime, not the lifetime.
snapshot ==
    [id \in DOMAIN by_id |->
       LET d == by_id[id]
       IN  [endpoint |-> d.endpoint, addr |-> d.addr,
            left |-> IF d.age < d.lifetime THEN d.lifetime - d.age ELSE 0]]

\* A save task writes a snapshot.  Registrations, deregistrations, the factory-
\* reset timer and every exclusion (of an unknown device too) spawn one, so a
\* snapshot may be taken in any state; it may be written late, be overtaken or
\* fail.  wakaama is what the next restart will find: a snapshot written late
\* is here one written when it was taken, with nothing written since.  A file
\* that no restart within the bound will read is not written.
save_registry ==
    /\ restarts < MaxRestart
    /\ wakaama' = snapshot
    /\ wakaama' # wakaama
    /\ UNCHANGED <<registry, rx, status, history, restarts>>

\* Mutant of RestoredNextId: the counter starts at 1 again.
RestoredNextId_reset(I) == {1}

\* next_id starts at 1 and becomes s.id + 1 whenever s.id >= next_id, in file
\* order: one more than the largest id, unless s.id + 1 wraps to 0, after which
\* only the ids that come later in the file count.
RestoredNextId(I) ==
    IF MaxId \in I
    THEN {0} \cup {id + 1 : id \in I \ {MaxId}}
    ELSE {n \in 1 .. MaxId : (\A id \in I : id < n) /\ (n = 1 \/ n - 1 \in I)}

\* load_registry: what has reached its end of life is skipped.
load_registry(I) == {id \in I : wakaama[id].left > 0}

\* restore inserts in file order: of two devices with one address either may
\* end up in by_addr.
restore(Restored) ==
    LET AddrOf(id) == Unscoped(wakaama[id].addr)
        Owners == {AddrOf(id) : id \in Restored}
    IN  /\ by_id' = [id \in Restored |->
                       [endpoint |-> wakaama[id].endpoint, addr |-> AddrOf(id),
                        lifetime |-> wakaama[id].left, age |-> 0,
                        online |-> FALSE, in_flight |-> EmptyMap]]
        /\ by_endpoint' \in {f \in [{wakaama[id].endpoint : id \in Restored} -> Restored] :
                               \A e \in DOMAIN f : wakaama[f[e]].endpoint = e}
        /\ by_addr' \in {f \in [Owners -> Restored] :
                           \A a \in Owners : AddrOf(f[a]) = a}
        /\ next_id' \in RestoredNextId(Restored)
        /\ wrapped' = (wrapped \/ MaxId \in Restored)
        /\ shared' = (shared \/ \E i, j \in Restored : i # j /\ AddrOf(i) = AddrOf(j))

\* The process stops and starts again.  main keeps the devices that are in the
\* included list: any set I, here.
restart(I) ==
    /\ restarts < MaxRestart
    /\ restarts' = restarts + 1
    /\ restore(load_registry(I))
    /\ status' = [op \in Op |-> "idle"]
    /\ rx' = NoPacket
    /\ UNCHANGED <<wakaama, client>>

Tick ==
    /\ by_id' = [id \in DOMAIN by_id |-> [by_id[id] EXCEPT !.age = Older(@)]]
    /\ client' = [e \in DOMAIN client |-> [client[e] EXCEPT !.quiet = Older(@)]]
    /\ wakaama' = [id \in DOMAIN wakaama |->
                     [wakaama[id] EXCEPT !.left = IF @ > 0 THEN @ - 1 ELSE 0]]
    /\ UNCHANGED <<by_endpoint, by_addr, next_id, rx, status, wrapped, shared, restarts>>

-----------------------------------------------------------------------------

Init ==
    /\ by_id = EmptyMap
    /\ by_endpoint = EmptyMap
    /\ by_addr = EmptyMap
    /\ next_id = 1
    /\ rx = NoPacket
    /\ wakaama = EmptyMap
    /\ status = [op \in Op |-> "idle"]
    /\ client = EmptyMap
    /\ wrapped = FALSE
    /\ shared = FALSE
    /\ restarts = 0

Next ==
    \/ \E p \in Arriving : handle_packet(p)
    \/ handle_registration
    \/ handle_update
    \/ handle_delete
    \/ handle_ack
    \/ reply_fails
    \/ \E op \in Op, a \in Source : place_in_flight(op, a)
    \/ \E a \in Addr, t \in Token : final_timeout(a, t)
    \/ \E a \in Addr : set_device_offline(a)
    \/ expire_stale
    \/ \E O \in SUBSET Op : timeout_in_flight(O)
    \/ \E a \in Addr : remove_device(a)
    \/ save_registry
    \/ \E I \in SUBSET DOMAIN wakaama : restart(I)
    \/ Tick

\* Time passes, and the housekeeping loop purges what has expired.
Fairness == WF_vars(Tick) /\ WF_vars(expire_stale)

Spec == Init /\ [][Next]_vars

FairSpec == Spec /\ Fairness

-----------------------------------------------------------------------------
(* Properties.                                                             *)

\* Every index entry leads to a device that carries the same key, and every
\* device is found under its endpoint, whatever addresses the devices use and
\* whenever the process restarts: so the unwrap() in touch, drain_pending and
\* merge_device_state_by_addr and the by_id[..] in register and the lookups
\* never panic, and no lookup returns another device's record.  Once the id
\* counter has wrapped a live id can be given out again and this is lost.
IndexConsistent ==
    ~wrapped =>
      /\ \A a \in DOMAIN by_addr :
            /\ by_addr[a] \in DOMAIN by_id
            /\ by_id[by_addr[a]].addr = a
      /\ \A e \in DOMAIN by_endpoint :
            /\ by_endpoint[e] \in DOMAIN by_id
            /\ by_id[by_endpoint[e]].endpoint = e
      /\ \A id \in DOMAIN by_id :
            /\ by_id[id].endpoint \in DOMAIN by_endpoint
            /\ by_endpoint[by_id[id].endpoint] = id

\* Until the counter wraps, the id that register hands out next is above every
\* id in use, after a restart from an old or partly expired file too.
NextIdFresh == ~wrapped => \A id \in DOMAIN by_id : id < next_id

\* Until then wakaama.json names no endpoint twice.
SavedDistinct ==
    ~wrapped => \A i, j \in DOMAIN wakaama :
                  wakaama[i].endpoint = wakaama[j].endpoint => i = j

\* The inductive invariant behind IndexConsistent.
IndexInv == TypeOK /\ IndexConsistent /\ NextIdFresh /\ SavedDistinct

\* The converse for addresses: as long as no two devices ever used the same
\* address, a registered device is found under the address it last used.  A
\* device that is not found is purged although it sends updates.
AddrIndexComplete ==
    ~wrapped /\ ~shared =>
      \A id \in DOMAIN by_id :
        /\ by_id[id].addr \in DOMAIN by_addr
        /\ by_addr[by_id[id].addr] = id

\* An operation that was placed in flight and not yet answered is in the map
\* of exactly one device, under its own token, and the maps hold nothing else:
\* no response channel is fired twice, and none is forgotten by a purge, a
\* deregistration, a re-registration or a timeout sweep.
OpAccounted ==
    /\ \A id \in DOMAIN by_id : \A t \in DOMAIN by_id[id].in_flight :
         LET op == by_id[id].in_flight[t]
         IN  status[op] = "in_flight" /\ TokenOf[op] = t
    /\ \A op \in Op : status[op] = "in_flight" =>
         \E id \in DOMAIN by_id : op \in OpsOf(by_id[id])
    /\ \A i, j \in DOMAIN by_id :
         OpsOf(by_id[i]) \cap OpsOf(by_id[j]) # {} => i = j

\* An operation's fate is final: once answered, timed out or dropped it stays
\* so until the process restarts (a oneshot channel fires once).
OutcomeFinal ==
    [][\A op \in Op :
         status[op] \in {"answered", "timeout", "dropped"} /\ restarts' = restarts
           => status'[op] = status[op]]_vars

\* Within one life of the process housekeeping purges a device only if, for
\* longer than the lifetime it declared plus the grace period, it has neither
\* registered nor updated from the address it registered from.  (SPECIFICATION.md:121,
\* an update "resets the expiry timer", has no such restriction: an update from
\* any other address is answered 2.04 and the device is purged all the same.)
ExpiryIsDue ==
    [][expire_stale /\ restarts = 0 =>
         \A e \in DOMAIN client :
           e \in DOMAIN by_endpoint \ DOMAIN by_endpoint' /\ ~wrapped /\ ~shared
           => client[e].quiet > client[e].declared + Grace]_vars

\* The inductive invariant behind ExpiryIsDue: it is a registered device that
\* sends the update or the deregistration in rx.
SenderInv == rx.kind \in {"update", "delete"} => rx.ep \in DOMAIN client

\* Record d, and what device e told: d is at e's address only if it is e's, and
\* then it has the lifetime e declared and the time since e last registered or
\* updated from there.
Matches(d, c, e) ==
    /\ d.addr = c.home <=> d.endpoint = e
    /\ d.endpoint = e => d.lifetime = c.declared /\ d.age = c.quiet

\* This holds within one life of the process, and as long as no two devices used
\* one address.
LifeInv ==
    restarts = 0 /\ ~wrapped /\ ~shared =>
      \A id \in DOMAIN by_id : \A e \in DOMAIN client : Matches(by_id[id], client[e], e)

\* A registered device that stays silent, or updates only from addresses it did
\* not register from, does not stay registered, whatever other packets arrive
\* (unless it uses the address of another device, or another one its).
SilentDevicePurged ==
    \A e \in Endpoint :
      (e \in DOMAIN by_endpoint /\ (e \in DOMAIN client => client[e].quiet > 0))
        ~> (\/ e \notin DOMAIN by_endpoint
            \/ e \in DOMAIN client /\ client[e].quiet = 0
            \/ wrapped \/ shared)

=============================================================================
