------------------------------ MODULE Dispatch ------------------------------
(***************************************************************************)
(* The life of a confirmable operation on one device: from the command     *)
(* socket through the dispatch channel to a retransmit task, over a        *)
(* network that loses, repeats and reorders, and back through the CoAP     *)
(* server task; with the housekeeping sweep behind it, and the device's    *)
(* connection status beside it.  What becomes of the connection_status     *)
(* events is modelled in Outgoing, the blocks of a large write in Upload,  *)
(* and what becomes of a ping after the channel in Connectivity.           *)
(*                                                                         *)
(* IPC tasks and retransmit tasks are spawned and run in parallel with the *)
(* server task; a registry call is atomic, what lies between two calls is  *)
(* not.  One tick is ACK_TIMEOUT_MS (2 s); everything a task does between  *)
(* two waits happens within a tick.                                        *)
(***************************************************************************)
EXTENDS Integers, Sequences

CONSTANTS
    Op,            \* operations; each has a token of its own
    Ping,          \* a ping of the housekeeping, in the channel
    Addr,          \* addresses the device may use
    MaxRetransmit, \* MAX_RETRANSMIT: transmissions per operation
    IpcTimeout,    \* how long an IPC task waits for a response, in ticks
    SweepAge,      \* IN_FLIGHT_TIMEOUT_SECS, in ticks
    SweepEvery,    \* INTERVAL_SECS, in ticks
    Capacity,      \* capacity of the dispatch channel
    MaxMove,       \* bound: how often the device changes address or expires
    MaxSendError   \* bound: how often send_to fails

ASSUME DispatchAssumption ==
    /\ Addr # {}
    /\ Ping \notin Op
    /\ MaxRetransmit \in Nat \ {0}
    /\ IpcTimeout \in Nat \ {0}
    /\ SweepAge \in Nat
    /\ SweepEvery \in Nat \ {0}
    /\ Capacity \in Nat \ {0}
    /\ MaxMove \in Nat
    /\ MaxSendError \in Nat

\* The waits of a retransmit task double, from one tick on.
Doubles(f) ==
    /\ f[0] = 1
    /\ \A n \in 1 .. MaxRetransmit : f[n] = 2 * f[n - 1]

\* Together they are shorter than the wait of the IPC task: 2^MaxRetransmit is
\* at most IpcTimeout (in the code 2 + 4 + 8 s and 30 s).
ASSUME BackoffAssumption ==
    \E f \in [0 .. MaxRetransmit -> 1 .. IpcTimeout] : Doubles(f)

VARIABLES
    dev,       \* the registry's entry for the device
    in_flight, \* the operations in its in_flight map
    chan,      \* the dispatch channel: operations and pings in order
    task,      \* the retransmit task, or the block-wise task, of each operation
    result,    \* what was sent on each operation's response channel
    ipc,       \* the IPC task that waits for each operation
    hk,        \* ticks until the next housekeeping run, and the ping it has to send
    rx,        \* the packet the server task is handling
    home,      \* the address the device uses
    used,      \* the addresses it has used: a datagram may be delayed
    sent,      \* operations whose request was sent: it may arrive, again or never
    reply,     \* how the device answers each request, once it has got it
    moves, errors

server == <<dev, in_flight, chan, task, result, ipc, hk, rx>>
world  == <<home, used, sent, reply, moves, errors>>
vars   == <<dev, in_flight, chan, task, result, ipc, hk, rx,
            home, used, sent, reply, moves, errors>>

Reply == {"ok", "error", "reset"}

\* The device's replies, and the requests it makes itself.
AckPacket     == [from : Addr, kind : Reply, op : Op]
RequestPacket == [from : Addr, kind : {"rd", "delete", "other"}]

NoPacket == [stage |-> "none"]

\* What a response channel delivers, with "none" before and "dropped" when
\* its sender is gone.
Outcome == Reply \cup {"none", "timeout", "dropped"}

RetransmitTask ==
    [pc : {"none", "send", "sleep", "final", "block", "mark", "announce", "done"},
     attempts : 0 .. MaxRetransmit, timeout : Nat, timer : Nat]

\* large: the operation writes more than BLOCK_THRESHOLD bytes.
IpcTask ==
    [pc : {"idle", "enqueue", "wait", "done"}, addr : Addr, large : BOOLEAN,
     left : 0 .. IpcTimeout, age : 0 .. SweepAge + 1,
     answer : Outcome \cup {"deadline", "unknown"}]

TypeOK ==
    /\ dev \in [registered : BOOLEAN, addr : Addr, online : BOOLEAN]
    /\ in_flight \subseteq Op
    /\ chan \in Seq(Op \cup {Ping})
    /\ Len(chan) <= Capacity
    /\ task \in [Op -> RetransmitTask]
    /\ result \in [Op -> Outcome]
    /\ ipc \in [Op -> IpcTask]
    /\ hk \in [left : 0 .. SweepEvery, ping : BOOLEAN]
    /\ rx \in {NoPacket} \cup [stage : {"announce", "handle"}, packet : AckPacket \cup RequestPacket]
    /\ home \in Addr
    /\ used \subseteq Addr
    /\ sent \subseteq Op
    /\ reply \in [Op -> Reply \cup {"none"}]
    /\ moves \in 0 .. MaxMove
    /\ errors \in 0 .. MaxSendError

-----------------------------------------------------------------------------
(* Registry calls of DeviceRegistry, for this device.                      *)

At(a) == dev.registered /\ dev.addr = a

is_in_flight(a, op) == At(a) /\ op \in in_flight

\* The response channels of O fire, or are dropped.  Nobody listens any more
\* once the IPC task has given up.
Settle(O, r) == result' = [op \in Op |-> IF op \in O THEN r ELSE result[op]]

\* complete_in_flight; an operation that is not in flight changes nothing.
complete_in_flight(a, op, r) ==
    IF is_in_flight(a, op)
    THEN in_flight' = in_flight \ {op} /\ Settle({op}, r)
    ELSE UNCHANGED <<in_flight, result>>

-----------------------------------------------------------------------------
(* The IPC task of an operation.                                           *)

\* resolve_resource or handle_exclusion: look the address up.
Resolve(op) ==
    /\ ipc[op].pc = "idle"
    /\ \E large \in BOOLEAN :
         ipc' = [ipc EXCEPT ![op] =
                   IF dev.registered
                   THEN [ipc[op] EXCEPT !.pc = "enqueue", !.addr = dev.addr, !.large = large]
                   ELSE [ipc[op] EXCEPT !.pc = "done", !.answer = "unknown"]]
    /\ UNCHANGED <<dev, in_flight, chan, task, result, hk, rx, world>>

\* Mutant: an unbounded channel, which never makes its senders wait.
Enqueue_unbounded(op) ==
    /\ ipc[op].pc = "enqueue"
    /\ chan' = Append(chan, op)
    /\ ipc' = [ipc EXCEPT ![op] = [ipc[op] EXCEPT !.pc = "wait", !.left = IpcTimeout]]
    /\ UNCHANGED <<dev, in_flight, task, result, hk, rx, world>>

\* dispatch_tx.send, which waits while the channel is full.
Enqueue(op) ==
    /\ ipc[op].pc = "enqueue"
    /\ Len(chan) < Capacity
    /\ chan' = Append(chan, op)
    /\ ipc' = [ipc EXCEPT ![op] = [ipc[op] EXCEPT !.pc = "wait", !.left = IpcTimeout]]
    /\ UNCHANGED <<dev, in_flight, task, result, hk, rx, world>>

\* The response channel fired, or its sender was dropped.
Answered(op) ==
    /\ ipc[op].pc = "wait"
    /\ result[op] # "none"
    /\ ipc' = [ipc EXCEPT ![op] = [ipc[op] EXCEPT !.pc = "done", !.left = 0, !.answer = result[op]]]
    /\ UNCHANGED <<dev, in_flight, chan, task, result, hk, rx, world>>

\* tokio::time::timeout elapsed.
Deadline(op) ==
    /\ ipc[op].pc = "wait"
    /\ ipc[op].left = 0
    /\ result[op] = "none"
    /\ ipc' = [ipc EXCEPT ![op] = [ipc[op] EXCEPT !.pc = "done", !.answer = "deadline"]]
    /\ UNCHANGED <<dev, in_flight, chan, task, result, hk, rx, world>>

\* Mutant: any response of the device counts.
success_any_response(answer) == answer \in Reply

\* What the client is told: success for a 2.xx response only.
success(answer) == answer = "ok"

-----------------------------------------------------------------------------
(* The dispatch task and the retransmit tasks.                             *)

NewTask(pc) == [pc |-> pc, attempts |-> 0, timeout |-> 1, timer |-> 0]

\* An operation of one packet: place_in_flight drops it if nobody is registered
\* at its address; the retransmit task is spawned all the same.
dispatch_one(op) ==
    /\ ~ipc[op].large
    /\ IF At(ipc[op].addr)
       THEN in_flight' = in_flight \cup {op} /\ UNCHANGED result
       ELSE Settle({op}, "dropped") /\ UNCHANGED in_flight
    /\ task' = [task EXCEPT ![op] = NewTask("send")]

\* A large write: the block-wise task is spawned, nothing is placed in flight.
dispatch_block(op) ==
    /\ ipc[op].large
    /\ task' = [task EXCEPT ![op] = NewTask("block")]
    /\ UNCHANGED <<in_flight, result>>

dispatch_op ==
    /\ chan # <<>>
    /\ IF Head(chan) = Ping
       THEN UNCHANGED <<in_flight, result, task>>
       ELSE dispatch_one(Head(chan)) \/ dispatch_block(Head(chan))
    /\ chan' = Tail(chan)
    /\ UNCHANGED <<dev, ipc, hk, rx, world>>

\* send_to succeeds; the task then sleeps.
Transmit(op) ==
    /\ task[op].pc = "send"
    /\ sent' = sent \cup {op}
    /\ task' = [task EXCEPT ![op] = [task[op] EXCEPT !.pc = "sleep", !.timer = task[op].timeout]]
    /\ UNCHANGED <<dev, in_flight, chan, result, ipc, hk, rx,
                   home, used, reply, moves, errors>>

\* send_to fails: the device is marked offline, the operation stays in flight.
SendError(op) ==
    /\ task[op].pc = "send"
    /\ errors < MaxSendError
    /\ errors' = errors + 1
    /\ task' = [task EXCEPT ![op].pc = "mark"]
    /\ UNCHANGED <<dev, in_flight, chan, result, ipc, hk, rx,
                   home, used, sent, reply, moves>>

\* Mutant: one transmission too many.
Retry_once_more(t) ==
    IF t.attempts + 1 > MaxRetransmit
    THEN [t EXCEPT !.pc = "final", !.attempts = t.attempts + 1]
    ELSE [t EXCEPT !.pc = "send", !.attempts = t.attempts + 1, !.timeout = 2 * t.timeout]

\* Mutant: the last timeout marks the device offline but leaves the operation.
Retry_leave_op(t) ==
    IF t.attempts + 1 >= MaxRetransmit
    THEN [t EXCEPT !.pc = "mark", !.attempts = t.attempts + 1]
    ELSE [t EXCEPT !.pc = "send", !.attempts = t.attempts + 1, !.timeout = 2 * t.timeout]

\* No answer yet: send again, and wait twice as long, or give up.
Retry(t) ==
    IF t.attempts + 1 >= MaxRetransmit
    THEN [t EXCEPT !.pc = "final", !.attempts = t.attempts + 1]
    ELSE [t EXCEPT !.pc = "send", !.attempts = t.attempts + 1, !.timeout = 2 * t.timeout]

\* The sleep is over: is the operation still in flight?
Wake(op) ==
    /\ task[op].pc = "sleep"
    /\ task[op].timer = 0
    /\ task' = [task EXCEPT ![op] = IF is_in_flight(ipc[op].addr, op)
                                    THEN Retry(task[op])
                                    ELSE [task[op] EXCEPT !.pc = "done"]]
    /\ UNCHANGED <<dev, in_flight, chan, result, ipc, hk, rx, world>>

\* Final timeout: take the operation, if it is still there, and fail it.
Final(op) ==
    /\ task[op].pc = "final"
    /\ complete_in_flight(ipc[op].addr, op, "timeout")
    /\ task' = [task EXCEPT ![op].pc = "mark"]
    /\ UNCHANGED <<dev, chan, ipc, hk, rx, world>>

\* dispatch_block_write sends blocks, all with the token of the operation, as
\* long as the device asks for more: nothing bounds the whole transfer.
SendBlock(op) ==
    /\ task[op].pc = "block"
    /\ op \notin sent
    /\ sent' = sent \cup {op}
    /\ UNCHANGED <<server, home, used, reply, moves, errors>>

\* send_to fails, or a block is not acknowledged in time.
BlockFails(op) ==
    /\ task[op].pc = "block"
    /\ Settle({op}, "timeout")
    /\ task' = [task EXCEPT ![op].pc = "mark"]
    /\ UNCHANGED <<dev, in_flight, chan, ipc, hk, rx, world>>

\* mark_device_offline: set_device_offline, and the event if it was online.
MarkOffline(op) ==
    /\ task[op].pc = "mark"
    /\ IF At(ipc[op].addr) /\ dev.online
       THEN /\ dev' = [dev EXCEPT !.online = FALSE]
            /\ task' = [task EXCEPT ![op].pc = "announce"]
       ELSE /\ task' = [task EXCEPT ![op].pc = "done"]
            /\ UNCHANGED dev
    /\ UNCHANGED <<in_flight, chan, result, ipc, hk, rx, world>>

\* send_connection_status(false)
AnnounceOffline(op) ==
    /\ task[op].pc = "announce"
    /\ task' = [task EXCEPT ![op].pc = "done"]
    /\ UNCHANGED <<dev, in_flight, chan, result, ipc, hk, rx, world>>

-----------------------------------------------------------------------------
(* The CoAP server task.                                                   *)

\* recv_from and touch: the first packet from an offline device turns it
\* online, and the event goes out before the packet is looked at.
Receive(p) ==
    /\ rx = NoPacket
    /\ IF At(p.from) /\ ~dev.online
       THEN /\ dev' = [dev EXCEPT !.online = TRUE]
            /\ rx' = [stage |-> "announce", packet |-> p]
       ELSE /\ rx' = [stage |-> "handle", packet |-> p]
            /\ UNCHANGED dev
    /\ UNCHANGED <<in_flight, chan, task, result, ipc, hk, world>>

\* send_connection_status(true)
AnnounceOnline ==
    /\ rx.stage = "announce"
    /\ rx' = [rx EXCEPT !.stage = "handle"]
    /\ UNCHANGED <<dev, in_flight, chan, task, result, ipc, hk, world>>

\* The final answer to a large write, or a reset, ends its task, from whatever
\* address it comes; block_acks has its token while it waits.
complete_block(op, r) ==
    /\ task[op].pc = "block"
    /\ Settle({op}, r)
    /\ task' = [task EXCEPT ![op].pc = "done"]
    /\ UNCHANGED in_flight

\* handle_ack, and handle_packet for a reset: a block-wise task that waits for
\* the token, or else the operation found by the address and the token.
handle_ack ==
    /\ rx.stage = "handle"
    /\ rx.packet.kind \in Reply
    /\ \/ complete_block(rx.packet.op, rx.packet.kind)
       \/ /\ complete_in_flight(rx.packet.from, rx.packet.op, rx.packet.kind)
          /\ UNCHANGED task
    /\ rx' = NoPacket
    /\ UNCHANGED <<dev, chan, ipc, hk, world>>

\* handle_registration: a known endpoint keeps its operations and its status;
\* a new entry is online, without an event.
handle_registration ==
    /\ rx.stage = "handle"
    /\ rx.packet.kind = "rd"
    /\ IF dev.registered
       THEN dev' = [dev EXCEPT !.addr = rx.packet.from] /\ UNCHANGED in_flight
       ELSE /\ dev' = [registered |-> TRUE, addr |-> rx.packet.from, online |-> TRUE]
            /\ in_flight' = {}
    /\ rx' = NoPacket
    /\ UNCHANGED <<chan, task, result, ipc, hk, world>>

\* The device is removed; its operations are answered Timeout.
Removed == /\ dev' = [dev EXCEPT !.registered = FALSE]
           /\ in_flight' = {}
           /\ Settle(in_flight, "timeout")

handle_delete ==
    /\ rx.stage = "handle"
    /\ rx.packet.kind = "delete"
    /\ IF At(rx.packet.from) THEN Removed ELSE UNCHANGED <<dev, in_flight, result>>
    /\ rx' = NoPacket
    /\ UNCHANGED <<chan, task, ipc, hk, world>>

\* Heartbeats and data pushes do nothing more here.
handle_other ==
    /\ rx.stage = "handle"
    /\ rx.packet.kind = "other"
    /\ rx' = NoPacket
    /\ UNCHANGED <<dev, in_flight, chan, task, result, ipc, hk, world>>

-----------------------------------------------------------------------------
(* Housekeeping.                                                           *)

\* take_ping_candidates, the last step of a run: a registered device may be due.
NextRun == \E p \in BOOLEAN : (p => dev'.registered) /\ hk' = [left |-> SweepEvery, ping |-> p]

\* Mutant: nothing is ever swept.
Housekeeping_no_sweep(expired) ==
    /\ hk = [left |-> 0, ping |-> FALSE]
    /\ IF expired
       THEN /\ dev.registered
            /\ moves < MaxMove
            /\ moves' = moves + 1
            /\ Removed
       ELSE UNCHANGED <<dev, in_flight, result, moves>>
    /\ NextRun
    /\ UNCHANGED <<chan, task, ipc, rx, home, used, sent, reply, errors>>

\* expire_stale removes a device that has been silent for too long; then
\* timeout_in_flight fails what has been in flight for too long.
Housekeeping(expired) ==
    /\ hk = [left |-> 0, ping |-> FALSE]
    /\ IF expired
       THEN /\ dev.registered
            /\ moves < MaxMove
            /\ moves' = moves + 1
            /\ Removed
       ELSE /\ LET old == {op \in in_flight : ipc[op].age > SweepAge}
               IN  in_flight' = in_flight \ old /\ Settle(old, "timeout")
            /\ UNCHANGED <<dev, moves>>
    /\ NextRun
    /\ UNCHANGED <<chan, task, ipc, rx, home, used, sent, reply, errors>>

\* dispatch_tx.send: the housekeeping too waits while the channel is full.
SendPing ==
    /\ hk.ping
    /\ Len(chan) < Capacity
    /\ chan' = Append(chan, Ping)
    /\ hk' = [hk EXCEPT !.ping = FALSE]
    /\ UNCHANGED <<dev, in_flight, task, result, ipc, rx, world>>

-----------------------------------------------------------------------------
(* The device and the network.                                             *)

\* A request arrives for the first time: the device carries it out and
\* acknowledges, answers with an error, or resets.  A retransmission has the
\* same message id and gets the same reply.
DeviceAnswers(op, r) ==
    /\ op \in sent
    /\ ipc[op].addr = home
    /\ reply[op] = "none"
    /\ reply' = [reply EXCEPT ![op] = r]
    /\ UNCHANGED <<server, home, used, sent, moves, errors>>

\* The device gets a new address (a PPP reconnect).
DeviceMoves(a) ==
    /\ a # home
    /\ moves < MaxMove
    /\ moves' = moves + 1
    /\ home' = a
    /\ used' = used \cup {a}
    /\ UNCHANGED <<server, sent, reply, errors>>

\* The datagrams that may arrive now.
Datagrams ==
    {[from |-> ipc[op].addr, kind |-> reply[op], op |-> op] :
        op \in {o \in Op : reply[o] # "none"}}
    \cup [from : used, kind : {"rd", "delete", "other"}]

Sooner(t) == IF t > 0 THEN t - 1 ELSE 0

\* The age of an operation counts from PendingOperation::new; ages above
\* SweepAge are alike.
Older(c) == IF c.pc # "idle" /\ c.age <= SweepAge THEN c.age + 1 ELSE c.age

\* Time passes only when every task waits for it, or for a packet.
Tick ==
    /\ chan = <<>>
    /\ hk.left > 0
    /\ ~hk.ping
    /\ rx = NoPacket
    /\ \A op \in Op :
         /\ task[op].pc \in {"none", "block", "done"} \/ (task[op].pc = "sleep" /\ task[op].timer > 0)
         /\ ipc[op].pc \in {"idle", "done"}
              \/ (ipc[op].pc = "wait" /\ ipc[op].left > 0 /\ result[op] = "none")
    /\ hk' = [hk EXCEPT !.left = hk.left - 1]
    /\ task' = [op \in Op |-> [task[op] EXCEPT !.timer = Sooner(task[op].timer)]]
    /\ ipc' = [op \in Op |-> [ipc[op] EXCEPT !.left = Sooner(ipc[op].left),
                                             !.age = Older(ipc[op])]]
    /\ UNCHANGED <<dev, in_flight, chan, result, rx, world>>

-----------------------------------------------------------------------------

\* The device is registered and online, and everybody knows.
Init ==
    /\ home \in Addr
    /\ dev = [registered |-> TRUE, addr |-> home, online |-> TRUE]
    /\ in_flight = {}
    /\ chan = <<>>
    /\ task = [op \in Op |-> NewTask("none")]
    /\ result = [op \in Op |-> "none"]
    /\ ipc = [op \in Op |-> [pc |-> "idle", addr |-> home, large |-> FALSE, left |-> 0,
                             age |-> 0, answer |-> "none"]]
    /\ hk = [left |-> 0, ping |-> FALSE]
    /\ rx = NoPacket
    /\ used = {home}
    /\ sent = {}
    /\ reply = [op \in Op |-> "none"]
    /\ moves = 0
    /\ errors = 0

IpcStep(op) == Enqueue(op) \/ Answered(op) \/ Deadline(op)

TaskStep(op) == \/ Transmit(op) \/ SendError(op) \/ Wake(op) \/ Final(op)
                \/ SendBlock(op) \/ BlockFails(op)
                \/ MarkOffline(op) \/ AnnounceOffline(op)

ServerStep == \/ AnnounceOnline \/ handle_ack \/ handle_registration
              \/ handle_delete \/ handle_other

Next ==
    \/ \E op \in Op : Resolve(op) \/ IpcStep(op) \/ TaskStep(op)
    \/ dispatch_op
    \/ \E p \in Datagrams : Receive(p)
    \/ ServerStep
    \/ \E expired \in BOOLEAN : Housekeeping(expired)
    \/ SendPing
    \/ \E op \in Op, r \in Reply : DeviceAnswers(op, r)
    \/ \E a \in Addr : DeviceMoves(a)
    \/ Tick

\* Every task is scheduled, and time passes however many packets arrive; the
\* network and the device owe nothing.
Fairness ==
    /\ WF_vars(dispatch_op)
    /\ WF_vars(ServerStep)
    /\ WF_vars(Housekeeping(FALSE))
    /\ WF_vars(SendPing)
    /\ SF_vars(Tick)
    /\ \A op \in Op : WF_vars(IpcStep(op)) /\ WF_vars(TaskStep(op))

Spec == Init /\ [][Next]_vars

FairSpec == Spec /\ Fairness

-----------------------------------------------------------------------------
(* Properties.                                                             *)

\* The operations the device has carried out.
executed == {op \in Op : reply[op] = "ok"}

CallOf(op) ==
    CASE ipc[op].pc = "idle"                  -> "idle"
      [] ipc[op].pc \in {"enqueue", "wait"}   -> "pending"
      [] ipc[op].pc = "done"                  ->
           IF success(ipc[op].answer) THEN "success" ELSE "failure"

\* The command socket keeps its promise (client.rs, server.rs, command.rs):
\* one answer per operation, an answer in any case, and success only for an
\* operation the device carried out, whatever the network does.
Remote == INSTANCE RemoteCall WITH call <- [op \in Op |-> CallOf(op)]

ImplementsRemoteCall == Remote!Spec

\* The safety half of it, which the proofs reach.
ImplementsRemoteCallSafety == Remote!Safety

\* What makes it so: a 2.xx seen anywhere on the way back is one the device
\* sent, and nothing is sent or answered before it was called for.
Honest ==
    /\ \A op \in Op : ipc[op].answer = "ok" => reply[op] = "ok"
    /\ \A op \in Op : result[op] = "ok" => reply[op] = "ok"
    /\ rx # NoPacket /\ rx.packet.kind = "ok" => reply[rx.packet.op] = "ok"
    /\ \A op \in Op : ipc[op].pc = "idle" =>
          /\ op \notin sent
          /\ reply[op] = "none"
          /\ task[op].pc = "none"
          /\ \A i \in DOMAIN chan : chan[i] # op

\* A task that is still sending has transmissions left.
AttemptsLeft ==
    \A op \in Op : task[op].pc \in {"send", "sleep"} => task[op].attempts < MaxRetransmit

\* The send failed, or the device has used another address than the one the
\* operation was sent to.
Disturbed(op) == errors > 0 \/ used # {ipc[op].addr}

\* The retransmit task answers before the IPC deadline: an IPC task gives up
\* only on a disturbed operation, whatever is lost, and however often the
\* device deregisters or expires (client.rs:127-166, command.rs:293).  A large
\* write is the exception: its blocks together may take longer than the 30 s,
\* and the task goes on after the client was told of a failure.
DeadlineMeansDisturbed ==
    \A op \in Op : ipc[op].answer = "deadline" => Disturbed(op) \/ ipc[op].large

\* A retransmit task that has ended leaves its operation in flight, and so to
\* the sweep, only if it was disturbed.
DoneMeansSettled ==
    \A op \in Op : task[op].pc = "done" /\ op \in in_flight => Disturbed(op)

\* What makes it so: every address in play is one the device has used, and an
\* undisturbed operation in flight has a task that will look for it where it is.
Attended ==
    /\ home \in used
    /\ dev.addr \in used
    /\ rx # NoPacket => rx.packet.from \in used
    /\ \A op \in Op : ipc[op].addr \in used
    /\ in_flight # {} => dev.registered
    /\ \A op \in in_flight : ipc[op].pc # "idle"
    /\ \A op \in in_flight : ~Disturbed(op) => task[op].pc \in {"send", "sleep", "final"}

\* The powers of two that the waits go through.
Backoff == CHOOSE f \in [0 .. MaxRetransmit -> 1 .. IpcTimeout] : Doubles(f)

Queued(op) == \E i \in DOMAIN chan : chan[i] = op

\* An operation in the channel is there once, and until it leaves the channel
\* nothing has happened to it.
QueueInv ==
    /\ \A i, j \in DOMAIN chan : chan[i] = chan[j] /\ chan[i] # Ping => i = j
    /\ \A op \in Op : Queued(op) => ipc[op].pc = "wait" /\ ipc[op].left = IpcTimeout
    /\ \A op \in Op : ipc[op].pc \in {"idle", "enqueue"} \/ Queued(op) =>
         result[op] = "none" /\ op \notin in_flight /\ task[op].pc = "none"

\* The task has used up as much time as the IPC task has: the waits before the
\* n-th sum up to one tick less than the n-th itself.
InStep(op) ==
    LET t == task[op]
    IN  \/ /\ t.pc = "send"
           /\ t.timeout = Backoff[t.attempts]
           /\ ipc[op].left + t.timeout = IpcTimeout + 1
        \/ /\ t.pc = "sleep"
           /\ t.timeout = Backoff[t.attempts]
           /\ ipc[op].left + 2 * t.timeout = IpcTimeout + 1 + t.timer
        \/ /\ t.pc = "final"
           /\ 2 * t.timeout <= IpcTimeout
           /\ ipc[op].left + 2 * t.timeout = IpcTimeout + 1

\* What the deadline rests on: an undisturbed operation that is waited for is in
\* the channel, or in flight with a task that is in time.
Prompt ==
    /\ QueueInv
    /\ \A op \in Op :
         ipc[op].pc = "wait" /\ result[op] = "none" /\ ~Disturbed(op) /\ ~ipc[op].large =>
            Queued(op) \/ (op \in in_flight /\ InStep(op))
    /\ \A op \in Op : ipc[op].answer = "deadline" =>
         ipc[op].pc = "done" /\ (Disturbed(op) \/ ipc[op].large)

\* Every operation leaves the in_flight map, even those the retransmit task
\* gave up: the housekeeping sweep takes them (housekeeping.rs, registry.rs:300),
\* though between two runs it waits for room in the channel for its pings.
InFlightEnds == \A op \in Op : op \in in_flight ~> op \notin in_flight

=============================================================================
