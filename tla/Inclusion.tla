----------------------------- MODULE Inclusion ------------------------------
(***************************************************************************)
(* Inclusion of devices: BootstrapRegistry, the handler of POST /bs, the   *)
(* write phase that hands a device its server and security objects, the    *)
(* approval and exclusion commands, and the included list on disk.         *)
(*                                                                         *)
(* The server task handles one packet at a time, and waits inside          *)
(* handle_bootstrap.  A write phase and an exclusion are tasks of their    *)
(* own, and so is every save of the included list.  A call on the registry *)
(* is atomic; what lies between two calls is not.  A timeout may strike    *)
(* whenever its task waits.                                                *)
(***************************************************************************)
EXTENDS Integers, FiniteSets, HashMap

CONSTANTS
    Endpoint,
    Phase,         \* bound: the write phases that can be started, one task each
    Exclusion,     \* bound: the exclusions that can be requested, one task each
    LastStep,      \* steps of the write phase; the last is the finish signal
    CertStep,      \* the step that needs the device's certificate
    MaxRetransmit, \* MAX_RETRANSMIT of the write phase
    MaxToken,      \* bound: sessions started
    MaxId,         \* bound: includable ids given out
    MaxApproval,   \* bound: approvals, for each endpoint
    MaxRestart     \* bound: crashes and restarts

ASSUME InclusionAssumption ==
    /\ LastStep \in Nat \ {0}
    /\ CertStep \in 1 .. LastStep
    /\ MaxRetransmit \in Nat
    /\ MaxToken \in Nat
    /\ MaxId \in Nat
    /\ MaxApproval \in Nat
    /\ Phase \cap Exclusion = {}
    /\ MaxRestart \in Nat

VARIABLES
    by_token,         \* sessions: token -> endpoint
    by_endpoint,      \* sessions: endpoint -> token
    cert_cache,       \* endpoint -> payload of its GET /0/0 response
    approved,
    includable_ids,   \* endpoint -> id
    includable_by_id, \* id -> endpoint
    next_includable_id,
    included,
    next_token,
    rx,               \* where the server task is in handling a packet
    write,            \* the write phases
    exclusion,        \* the exclusions
    saves,            \* saves under way, each with its snapshot of the list
    tmp,              \* included_devices.json.tmp
    saved,            \* included_devices.json
    announced,        \* endpoints whose completion was announced to the clients
    got,              \* GET /0/0 requests sent: token -> endpoint
    device,           \* the devices: bootstrapped or not
    resets,           \* factory resets on their way to a device
    approvals,        \* how often the client approved each endpoint
    phases,           \* how many write phases each endpoint got
    restarts

registry == <<by_token, by_endpoint, cert_cache, approved, includable_ids,
              includable_by_id, next_includable_id, next_token>>
disk     == <<saves, tmp, saved>>
outside  == <<got, device, resets>>
history  == <<approvals, phases, restarts>>
vars     == <<by_token, by_endpoint, cert_cache, approved, includable_ids,
              includable_by_id, next_includable_id, next_token, included, rx, write,
              exclusion, saves, tmp, saved, announced, got, device, resets,
              approvals, phases, restarts>>

Token   == 1 .. MaxToken
Id      == 1 .. MaxId
Payload == {"valid", "invalid"}

NoRx     == [pc |-> "idle"]
NoWrite  == [pc |-> "none"]
NoTmp    == {"absent"}
NoExclusion == [pc |-> "none"]
Saver    == Phase \cup Exclusion
Reply    == {"ok", "error", "reset"}

\* The server task in handle_bootstrap, before and after the delay, and in
\* handle_ack.
Requested  == [pc : {"check", "consume", "start", "cert", "begin"}, ep : Endpoint]
Delayed    == [pc : {"get"}, ep : Endpoint, token : Token]
Validating == [pc : {"validate"}, ep : Endpoint, payload : Payload]

\* "pending": the oneshot of the current step is in write_acks; "ack": what it
\* delivered; "replies": the device's answer to each step.
WritePc   == {"send", "wait", "cancel", "failed", "announce", "forget", "mark", "list", "done"}
Replies   == [1 .. LastStep -> Reply \cup {"none"}]
WriteTask == [pc : WritePc, ep : Endpoint, step : 1 .. LastStep, attempts : 0 .. MaxRetransmit,
              pending : BOOLEAN, ack : {"none", "true", "false"}, replies : Replies]

ExclusionTask == [pc : {"unmark", "list", "done"}, ep : Endpoint]

Save == [by : Saver, list : SUBSET Endpoint, pc : {"write", "rename"}]

RegistryType ==
    /\ IsMap(by_token, Token, Endpoint)
    /\ IsMap(by_endpoint, Endpoint, Token)
    /\ IsMap(cert_cache, Endpoint, Payload)
    /\ approved \subseteq Endpoint
    /\ IsMap(includable_ids, Endpoint, Id)
    /\ IsMap(includable_by_id, Id, Endpoint)
    /\ next_includable_id \in 1 .. MaxId + 1
    /\ next_token \in 1 .. MaxToken + 1

TaskType ==
    /\ rx \in {NoRx} \cup Requested \cup Delayed \cup Validating
    /\ write \in [Phase -> {NoWrite} \cup WriteTask]
    /\ exclusion \in [Exclusion -> {NoExclusion} \cup ExclusionTask]

ListType ==
    /\ included \subseteq Endpoint
    /\ saves \subseteq Save
    /\ tmp \in {NoTmp} \cup SUBSET Endpoint
    /\ saved \subseteq Endpoint
    /\ announced \subseteq Endpoint

OutsideType ==
    /\ IsMap(got, Token, Endpoint)
    /\ device \in [Endpoint -> {"factory", "ready"}]
    /\ resets \subseteq Endpoint
    /\ approvals \in [Endpoint -> 0 .. MaxApproval]
    /\ phases \in [Endpoint -> Nat]
    /\ restarts \in 0 .. MaxRestart

\* Every variable has its type: in particular a step is transmitted at most
\* MaxRetransmit + 1 times and no step follows the finish signal.
TypeOK == RegistryType /\ TaskType /\ ListType /\ OutsideType

-----------------------------------------------------------------------------
(* POST /bs                                                                *)

ensure_includable_id(e) ==
    IF e \in DOMAIN includable_ids
    THEN UNCHANGED <<includable_ids, includable_by_id, next_includable_id>>
    ELSE /\ next_includable_id <= MaxId
         /\ next_includable_id' = next_includable_id + 1
         /\ includable_ids' = Insert(includable_ids, e, next_includable_id)
         /\ includable_by_id' = Insert(includable_by_id, next_includable_id, e)

\* Mutant: the entry of the other index stays.
remove_includable_id_half(e) ==
    /\ includable_ids' = Remove(includable_ids, e)
    /\ UNCHANGED includable_by_id

remove_includable_id(e) ==
    IF e \in DOMAIN includable_ids
    THEN /\ includable_ids' = Remove(includable_ids, e)
         /\ includable_by_id' = Remove(includable_by_id, includable_ids[e])
    ELSE UNCHANGED <<includable_ids, includable_by_id>>

\* handle_bootstrap begins: an id, and the includable event.
handle_bootstrap(e) ==
    /\ rx = NoRx
    /\ device[e] = "factory"
    /\ ensure_includable_id(e)
    /\ rx' = [pc |-> "check", ep |-> e]
    /\ UNCHANGED <<by_token, by_endpoint, cert_cache, approved, next_token, included, write,
                   exclusion, disk, announced, outside, history>>

is_approved ==
    /\ rx.pc = "check"
    /\ rx' = [rx EXCEPT !.pc = IF rx.ep \in approved THEN "consume" ELSE "cert"]
    /\ UNCHANGED <<registry, included, write, exclusion, disk, announced, outside, history>>

\* Mutant: the approval stays.
consume_approval_kept ==
    /\ rx.pc = "consume"
    /\ rx' = [rx EXCEPT !.pc = "start"]
    /\ UNCHANGED <<registry, included, write, exclusion, disk, announced, outside, history>>

consume_approval ==
    /\ rx.pc = "consume"
    /\ approved' = approved \ {rx.ep}
    /\ rx' = [rx EXCEPT !.pc = "start"]
    /\ UNCHANGED <<by_token, by_endpoint, cert_cache, includable_ids, includable_by_id,
                   next_includable_id, next_token, included, write, exclusion, disk,
                   announced, outside, history>>

NewWrite(e) == [pc |-> "send", ep |-> e, step |-> 1, attempts |-> 0, pending |-> FALSE,
                ack |-> "none", replies |-> [s \in 1 .. LastStep |-> "none"]]

\* The /bs is acknowledged and the write phase spawned; if the reply cannot be
\* sent the handler ends there, and the approval is gone.
start_write_phase(k) ==
    /\ rx.pc = "start"
    /\ write[k] = NoWrite
    /\ write' = [write EXCEPT ![k] = NewWrite(rx.ep)]
    /\ phases' = [phases EXCEPT ![rx.ep] = @ + 1]
    /\ rx' = NoRx
    /\ UNCHANGED <<registry, included, exclusion, disk, announced, outside,
                   approvals, restarts>>

reply_fails ==
    /\ rx.pc \in {"start", "get"}
    /\ rx' = NoRx
    /\ UNCHANGED <<registry, included, write, exclusion, disk, announced, outside, history>>

has_cert ==
    /\ rx.pc = "cert"
    /\ rx' = IF rx.ep \in DOMAIN cert_cache THEN NoRx ELSE [rx EXCEPT !.pc = "begin"]
    /\ UNCHANGED <<registry, included, write, exclusion, disk, announced, outside, history>>

\* Mutant: a session is started though one is pending.
begin_again ==
    /\ rx.pc = "begin"
    /\ next_token <= MaxToken
    /\ next_token' = next_token + 1
    /\ by_endpoint' = Insert(by_endpoint, rx.ep, next_token)
    /\ by_token' = Insert(by_token, next_token, rx.ep)
    /\ rx' = [pc |-> "get", ep |-> rx.ep, token |-> next_token]
    /\ UNCHANGED <<cert_cache, approved, includable_ids, includable_by_id, next_includable_id,
                   included, write, exclusion, disk, announced, outside, history>>

\* begin: one GET /0/0 at a time for an endpoint.
begin ==
    /\ rx.pc = "begin"
    /\ IF rx.ep \in DOMAIN by_endpoint
       THEN rx' = NoRx /\ UNCHANGED <<by_token, by_endpoint, next_token>>
       ELSE /\ next_token <= MaxToken
            /\ next_token' = next_token + 1
            /\ by_endpoint' = Insert(by_endpoint, rx.ep, next_token)
            /\ by_token' = Insert(by_token, next_token, rx.ep)
            /\ rx' = [pc |-> "get", ep |-> rx.ep, token |-> next_token]
    /\ UNCHANGED <<cert_cache, approved, includable_ids, includable_by_id, next_includable_id,
                   included, write, exclusion, disk, announced, outside, history>>

\* After the delay: GET /0/0 is sent, once.
send_get ==
    /\ rx.pc = "get"
    /\ got' = Insert(got, rx.token, rx.ep)
    /\ rx' = NoRx
    /\ UNCHANGED <<registry, included, write, exclusion, disk, announced, device, resets, history>>

\* handle_ack for a pending GET /0/0: complete caches the payload...
complete(t, payload) ==
    /\ rx = NoRx
    /\ t \in DOMAIN got
    /\ t \in DOMAIN by_token
    /\ LET e == by_token[t]
       IN  /\ by_token' = Remove(by_token, t)
           /\ by_endpoint' = Remove(by_endpoint, e)
           /\ cert_cache' = Insert(cert_cache, e, payload)
           /\ rx' = [pc |-> "validate", ep |-> e, payload |-> payload]
    /\ UNCHANGED <<approved, includable_ids, includable_by_id, next_includable_id, next_token,
                   included, write, exclusion, disk, announced, outside, history>>

\* ... and remove_from_cert_cache takes it out again if it is not valid.
validate ==
    /\ rx.pc = "validate"
    /\ cert_cache' = IF rx.payload = "valid" THEN cert_cache ELSE Remove(cert_cache, rx.ep)
    /\ rx' = NoRx
    /\ UNCHANGED <<by_token, by_endpoint, approved, includable_ids, includable_by_id,
                   next_includable_id, next_token, included, write, exclusion, disk,
                   announced, outside, history>>

\* Mutant: the newest session of those found stale is left.
expire_stale_but_last(t) ==
    /\ t \in DOMAIN by_token
    /\ LET stale == {u \in DOMAIN by_token : u < t}
       IN  /\ by_token' = RemoveAll(by_token, stale)
           /\ by_endpoint' = RemoveAll(by_endpoint, {by_token[u] : u \in stale})
    /\ UNCHANGED <<cert_cache, approved, includable_ids, includable_by_id, next_includable_id,
                   next_token, included, rx, write, exclusion, disk, announced, outside,
                   history>>

\* Housekeeping: the sessions older than BOOTSTRAP_TIMEOUT_SECS, those with the
\* tokens up to t.
expire_stale(t) ==
    /\ t \in DOMAIN by_token
    /\ LET stale == {u \in DOMAIN by_token : u <= t}
       IN  /\ by_token' = RemoveAll(by_token, stale)
           /\ by_endpoint' = RemoveAll(by_endpoint, {by_token[u] : u \in stale})
    /\ UNCHANGED <<cert_cache, approved, includable_ids, includable_by_id, next_includable_id,
                   next_token, included, rx, write, exclusion, disk, announced, outside,
                   history>>

-----------------------------------------------------------------------------
(* The write phase, a task.                                                *)

\* Step CertStep reads the certificate before it builds its request.
NeedsCert(k) == write[k].step = CertStep /\ write[k].attempts = 0
HasCert(k)   == write[k].ep \in DOMAIN cert_cache

\* send_con_write_step: the oneshot is registered, then the request sent.
send_write(k) ==
    /\ write[k].pc = "send"
    /\ NeedsCert(k) => HasCert(k)
    /\ write' = [write EXCEPT ![k] = [write[k] EXCEPT
                   !.pc = "wait", !.pending = write[k].pending \/ write[k].attempts = 0]]
    /\ UNCHANGED <<registry, included, rx, exclusion, disk, announced, outside, history>>

\* The socket refuses the packet, or there is no certificate, or the cached one
\* cannot be parsed.
send_write_fails(k) ==
    /\ write[k].pc = "send"
    /\ write' = [write EXCEPT ![k] = [write[k] EXCEPT !.pc = "failed"]]
    /\ UNCHANGED <<registry, included, rx, exclusion, disk, announced, outside, history>>

\* The device answers the request of the current step; after the finish signal
\* it uses what it was given.
Awaited(k) == write[k].pc \in {"send", "wait", "cancel"} /\ write[k].pending

DeviceAnswers(k, r) ==
    /\ Awaited(k)
    /\ write[k].replies[write[k].step] = "none"
    /\ write' = [write EXCEPT ![k] = [write[k] EXCEPT !.replies =
                   [write[k].replies EXCEPT ![write[k].step] = r]]]
    /\ device' = IF r = "ok" /\ write[k].step = LastStep
                 THEN [device EXCEPT ![write[k].ep] = "ready"] ELSE device
    /\ UNCHANGED <<registry, included, rx, exclusion, disk, announced, got, resets, history>>

\* handle_ack completes the oneshot with true, whatever the response code of
\* the acknowledgement; the reset branch of handle_packet with false.
Fired(reply) == IF reply = "reset" THEN "false" ELSE "true"

complete_write_ack(k) ==
    /\ rx = NoRx
    /\ Awaited(k)
    /\ write[k].replies[write[k].step] # "none"
    /\ write' = [write EXCEPT ![k] = [write[k] EXCEPT
                   !.pending = FALSE, !.ack = Fired(write[k].replies[write[k].step])]]
    /\ UNCHANGED <<registry, included, rx, exclusion, disk, announced, outside, history>>

\* Mutant: the next step starts with the oneshot of the last.
write_step_done_same_oneshot(k) ==
    /\ write[k].pc = "wait"
    /\ write[k].ack # "none"
    /\ write' = [write EXCEPT ![k] =
         IF write[k].ack = "false" THEN [write[k] EXCEPT !.pc = "failed"]
         ELSE IF write[k].step = LastStep THEN [write[k] EXCEPT !.pc = "announce"]
         ELSE [write[k] EXCEPT !.pc = "send", !.step = write[k].step + 1, !.attempts = 0]]
    /\ UNCHANGED <<registry, included, rx, exclusion, disk, announced, outside, history>>

\* The oneshot fired: failure, the end of the phase, or the next step.
write_step_done(k) ==
    /\ write[k].pc = "wait"
    /\ write[k].ack # "none"
    /\ write' = [write EXCEPT ![k] =
         IF write[k].ack = "false" THEN [write[k] EXCEPT !.pc = "failed"]
         ELSE IF write[k].step = LastStep THEN [write[k] EXCEPT !.pc = "announce"]
         ELSE [write[k] EXCEPT !.pc = "send", !.step = write[k].step + 1, !.attempts = 0,
                               !.ack = "none"]]
    /\ UNCHANGED <<registry, included, rx, exclusion, disk, announced, outside, history>>

\* Mutant: one retransmission too many.
write_step_timeout_once_more(k) ==
    /\ write[k].pc = "wait"
    /\ write[k].ack = "none"
    /\ write' = [write EXCEPT ![k] =
         IF write[k].attempts > MaxRetransmit THEN [write[k] EXCEPT !.pc = "cancel"]
         ELSE [write[k] EXCEPT !.pc = "send", !.attempts = write[k].attempts + 1]]
    /\ UNCHANGED <<registry, included, rx, exclusion, disk, announced, outside, history>>

\* Mutant: transmissions are not counted.
write_step_timeout_forever(k) ==
    /\ write[k].pc = "wait"
    /\ write[k].ack = "none"
    /\ write' = [write EXCEPT ![k] = [write[k] EXCEPT !.pc = "send"]]
    /\ UNCHANGED <<registry, included, rx, exclusion, disk, announced, outside, history>>

\* The sleep is over and the oneshot has not fired (the select is biased).
write_step_timeout(k) ==
    /\ write[k].pc = "wait"
    /\ write[k].ack = "none"
    /\ write' = [write EXCEPT ![k] =
         IF write[k].attempts = MaxRetransmit THEN [write[k] EXCEPT !.pc = "cancel"]
         ELSE [write[k] EXCEPT !.pc = "send", !.attempts = write[k].attempts + 1]]
    /\ UNCHANGED <<registry, included, rx, exclusion, disk, announced, outside, history>>

cancel_write_ack(k) ==
    /\ write[k].pc = "cancel"
    /\ write' = [write EXCEPT ![k] = [write[k] EXCEPT !.pc = "failed", !.pending = FALSE]]
    /\ UNCHANGED <<registry, included, rx, exclusion, disk, announced, outside, history>>

write_failed(k) ==
    /\ write[k].pc = "failed"
    /\ remove_includable_id(write[k].ep)
    /\ write' = [write EXCEPT ![k] = [write[k] EXCEPT !.pc = "done"]]
    /\ UNCHANGED <<by_token, by_endpoint, cert_cache, approved, next_includable_id, next_token,
                   included, rx, exclusion, disk, announced, outside, history>>

\* The phase succeeded: the two events, then the id, the mark, and the save.
announce_included(k) ==
    /\ write[k].pc = "announce"
    /\ announced' = announced \cup {write[k].ep}
    /\ write' = [write EXCEPT ![k] = [write[k] EXCEPT !.pc = "forget"]]
    /\ UNCHANGED <<registry, included, rx, exclusion, disk, outside, history>>

forget_includable(k) ==
    /\ write[k].pc = "forget"
    /\ remove_includable_id(write[k].ep)
    /\ write' = [write EXCEPT ![k] = [write[k] EXCEPT !.pc = "mark"]]
    /\ UNCHANGED <<by_token, by_endpoint, cert_cache, approved, next_includable_id, next_token,
                   included, rx, exclusion, disk, announced, outside, history>>

mark_included(k) ==
    /\ write[k].pc = "mark"
    /\ included' = included \cup {write[k].ep}
    /\ write' = [write EXCEPT ![k] = [write[k] EXCEPT !.pc = "list"]]
    /\ UNCHANGED <<registry, rx, exclusion, disk, announced, outside, history>>

SpawnSave(by) == saves' = saves \cup {[by |-> by, list |-> included, pc |-> "write"]}

list_included(k) ==
    /\ write[k].pc = "list"
    /\ SpawnSave(k)
    /\ write' = [write EXCEPT ![k] = [write[k] EXCEPT !.pc = "done"]]
    /\ UNCHANGED <<registry, included, rx, exclusion, tmp, saved, announced, outside, history>>

WriteStep(k) ==
    \/ send_write(k) \/ send_write_fails(k) \/ write_step_done(k) \/ write_step_timeout(k)
    \/ cancel_write_ack(k) \/ write_failed(k) \/ announce_included(k)
    \/ forget_includable(k) \/ mark_included(k) \/ list_included(k)

-----------------------------------------------------------------------------
(* save_included.  The spawned saves run on a pool of threads, in any      *)
(* order and side by side; all of them write the same temporary file.      *)

write_tmp(s) ==
    /\ s.pc = "write"
    /\ tmp' = s.list
    /\ saves' = (saves \ {s}) \cup {[s EXCEPT !.pc = "rename"]}
    /\ UNCHANGED <<registry, included, rx, write, exclusion, saved, announced, outside, history>>

\* rename fails when another save has renamed the file away.
rename_tmp(s) ==
    /\ s.pc = "rename"
    /\ saved' = IF tmp = NoTmp THEN saved ELSE tmp
    /\ tmp' = NoTmp
    /\ saves' = saves \ {s}
    /\ UNCHANGED <<registry, included, rx, write, exclusion, announced, outside, history>>

-----------------------------------------------------------------------------
(* Commands.                                                               *)

approve_inclusion(id) ==
    /\ id \in DOMAIN includable_by_id
    /\ approvals[includable_by_id[id]] < MaxApproval
    /\ approved' = approved \cup {includable_by_id[id]}
    /\ approvals' = [approvals EXCEPT ![includable_by_id[id]] = @ + 1]
    /\ UNCHANGED <<by_token, by_endpoint, cert_cache, includable_ids, includable_by_id,
                   next_includable_id, next_token, included, rx, write, exclusion, disk,
                   announced, outside, phases, restarts>>

\* A registered device is sent a factory reset first, and its answer awaited.
handle_exclusion(x, e) ==
    /\ exclusion[x] = NoExclusion
    /\ exclusion' = [exclusion EXCEPT ![x] = [pc |-> "unmark", ep |-> e]]
    /\ resets' \in {resets, resets \cup {e}}
    /\ UNCHANGED <<registry, included, rx, write, disk, announced, got, device, history>>

unmark_included(x) ==
    /\ exclusion[x].pc = "unmark"
    /\ included' = included \ {exclusion[x].ep}
    /\ announced' = announced \ {exclusion[x].ep}
    /\ exclusion' = [exclusion EXCEPT ![x] = [exclusion[x] EXCEPT !.pc = "list"]]
    /\ UNCHANGED <<registry, rx, write, disk, outside, history>>

list_excluded(x) ==
    /\ exclusion[x].pc = "list"
    /\ SpawnSave(x)
    /\ exclusion' = [exclusion EXCEPT ![x] = [exclusion[x] EXCEPT !.pc = "done"]]
    /\ UNCHANGED <<registry, included, rx, write, tmp, saved, announced, outside, history>>

ExclusionStep(x) == unmark_included(x) \/ list_excluded(x)

-----------------------------------------------------------------------------
(* POST /rd, as far as inclusion goes: a device that is not in the         *)
(* included list is sent a factory reset.                                  *)

handle_registration(e) ==
    /\ rx = NoRx
    /\ device[e] = "ready"
    /\ e \notin included
    /\ resets' = resets \cup {e}
    /\ UNCHANGED <<registry, included, rx, write, exclusion, disk, announced, got, device, history>>

DeviceResets(e) ==
    /\ e \in resets
    /\ resets' = resets \ {e}
    /\ device' = [device EXCEPT ![e] = "factory"]
    /\ UNCHANGED <<registry, included, rx, write, exclusion, disk, announced, got, history>>

\* A crash at any moment; main starts from the file alone.  The token counter
\* starts at a random value, so its tokens are new again.
restart ==
    /\ restarts < MaxRestart
    /\ restarts' = restarts + 1
    /\ by_token' = EmptyMap
    /\ by_endpoint' = EmptyMap
    /\ cert_cache' = EmptyMap
    /\ approved' = {}
    /\ includable_ids' = EmptyMap
    /\ includable_by_id' = EmptyMap
    /\ next_includable_id' = 1
    /\ included' = saved
    /\ rx' = NoRx
    /\ write' = [k \in Phase |-> IF write[k] = NoWrite THEN NoWrite
                                 ELSE [write[k] EXCEPT !.pc = "done"]]
    /\ exclusion' = [x \in Exclusion |-> IF exclusion[x] = NoExclusion THEN NoExclusion
                                         ELSE [exclusion[x] EXCEPT !.pc = "done"]]
    /\ saves' = {}
    /\ UNCHANGED <<next_token, tmp, saved, announced, outside, approvals, phases>>

-----------------------------------------------------------------------------

Init ==
    /\ by_token = EmptyMap
    /\ by_endpoint = EmptyMap
    /\ cert_cache = EmptyMap
    /\ approved = {}
    /\ includable_ids = EmptyMap
    /\ includable_by_id = EmptyMap
    /\ next_includable_id = 1
    /\ next_token = 1
    /\ included = {}
    /\ rx = NoRx
    /\ write = [k \in Phase |-> NoWrite]
    /\ exclusion = [x \in Exclusion |-> NoExclusion]
    /\ saves = {}
    /\ tmp = NoTmp
    /\ saved = {}
    /\ announced = {}
    /\ got = EmptyMap
    /\ device = [e \in Endpoint |-> "factory"]
    /\ resets = {}
    /\ approvals = [e \in Endpoint |-> 0]
    /\ phases = [e \in Endpoint |-> 0]
    /\ restarts = 0

ServerStep == \/ is_approved \/ consume_approval \/ has_cert \/ begin \/ send_get
              \/ reply_fails \/ validate
              \/ \E k \in Phase : start_write_phase(k)

SaveStep == \E s \in saves : write_tmp(s) \/ rename_tmp(s)

Next ==
    \/ \E e \in Endpoint : handle_bootstrap(e) \/ handle_registration(e) \/ DeviceResets(e)
    \/ ServerStep
    \/ \E t \in Token : expire_stale(t) \/ \E p \in Payload : complete(t, p)
    \/ \E k \in Phase : WriteStep(k) \/ complete_write_ack(k)
                        \/ \E r \in Reply : DeviceAnswers(k, r)
    \/ SaveStep
    \/ \E id \in Id : approve_inclusion(id)
    \/ \E x \in Exclusion : ExclusionStep(x) \/ \E e \in Endpoint : handle_exclusion(x, e)
    \/ restart

\* Spawned tasks, the server task and housekeeping are never starved; devices,
\* clients and crashes owe nothing.
Fairness ==
    /\ WF_vars(ServerStep)
    /\ WF_vars(\E t \in Token : expire_stale(t))
    /\ \A k \in Phase : WF_vars(WriteStep(k))

Spec == Init /\ [][Next]_vars
FairSpec == Spec /\ Fairness

-----------------------------------------------------------------------------
(* Properties.                                                             *)

\* The two indices of the includable ids are inverse to each other, and no id
\* is handed out twice: a client that approves an id approves the endpoint it
\* was shown with that id, however write phases come and go in between.
IdsConsistent ==
    /\ \A e \in DOMAIN includable_ids :
          /\ includable_ids[e] \in DOMAIN includable_by_id
          /\ includable_by_id[includable_ids[e]] = e
          /\ includable_ids[e] < next_includable_id
    /\ \A id \in DOMAIN includable_by_id :
          /\ includable_by_id[id] \in DOMAIN includable_ids
          /\ includable_ids[includable_by_id[id]] = id

\* The two indices of the GET /0/0 sessions are inverse to each other, through
\* answers, expiry and restarts: begin never refuses an endpoint whose request
\* is gone, and no answer is taken for that of another device.
SessionsConsistent ==
    /\ \A e \in DOMAIN by_endpoint :
          /\ by_endpoint[e] \in DOMAIN by_token
          /\ by_token[by_endpoint[e]] = e
          /\ by_endpoint[e] < next_token
    /\ \A t \in DOMAIN by_token :
          /\ by_token[t] \in DOMAIN by_endpoint
          /\ by_endpoint[by_token[t]] = t

\* An endpoint never gets more write phases than the client approved: the
\* handler reads and consumes an approval in two calls, the client may approve
\* between them and a write phase may still be running.
PhaseApproved == \A e \in Endpoint : phases[e] <= approvals[e]

\* Why: an approval that is found is still there when it is consumed, and each
\* approval is waiting, or being turned into a write phase, or was one, or lost.
ApprovalInv ==
    /\ rx.pc = "consume" => rx.ep \in approved
    /\ \A e \in Endpoint :
          phases[e] + (IF e \in approved THEN 1 ELSE 0)
                    + (IF rx.pc = "start" /\ rx.ep = e THEN 1 ELSE 0) <= approvals[e]

\* The device acknowledged every step of write phase k.
Acknowledged(k) == \A s \in 1 .. LastStep : write[k].replies[s] \in {"ok", "error"}
Completed(e) == \E k \in Phase : write[k] # NoWrite /\ write[k].ep = e /\ Acknowledged(k)

\* Every endpoint announced as included, or in the included list, in memory, in
\* a save under way or on disk, acknowledged every step of one write phase:
\* neither a timeout, nor a late answer to an earlier step, nor a crash between
\* two steps includes it.
IncludedCompleted ==
    /\ \A e \in included \cup saved \cup announced : Completed(e)
    /\ \A s \in saves : \A e \in s.list : Completed(e)
    /\ tmp # NoTmp => \A e \in tmp : Completed(e)

\* Why: a write phase moves on only from a step that was acknowledged.
Sound(w) ==
    /\ \A s \in 1 .. LastStep : s < w.step => w.replies[s] \in {"ok", "error"}
    /\ w.ack = "true" => w.replies[w.step] \in {"ok", "error"}
    /\ w.pc \in {"announce", "forget", "mark"} => w.step = LastStep /\ w.ack = "true"

CompletionInv ==
    /\ \A k \in Phase : write[k] # NoWrite => Sound(write[k])
    /\ IncludedCompleted

\* Every write phase ends: a device that stops answering holds its task for at
\* most MaxRetransmit retransmissions of one step.
PhaseEnds == \A k \in Phase : write[k].pc = "send" ~> write[k].pc = "done"

\* Every session ends: after a lost request, a reset or a device that never
\* answers, expiry lets the next /bs ask again.
SessionEnds == \A t \in Token : t \in DOMAIN by_token ~> t \notin DOMAIN by_token

\* The oneshot of a step delivers `true` for a success and `false` for a reset
\* or an error (doc comment of register_write_ack): a device that refused a
\* step is not included.
IncludedAccepted ==
    \A e \in included : \E k \in Phase :
        /\ write[k] # NoWrite
        /\ write[k].ep = e
        /\ \A s \in 1 .. LastStep : write[k].replies[s] = "ok"

=============================================================================
