------------------------------ MODULE Outgoing ------------------------------
(***************************************************************************)
(* What the tasks share when they talk to the outside: the UDP socket with *)
(* its traffic class, and the event channel with its sequence number, to   *)
(* whose other end the clients of the event socket listen.  A packet takes *)
(* two calls, set_tclass and send_to; an event takes two as well, a number *)
(* and the broadcast; and a connection_status event follows the change of  *)
(* status it reports.  Nothing holds the calls of a task together.         *)
(*                                                                         *)
(* The server task handles packets; a retransmit task carries an operation *)
(* to the device; a phase task runs the write phase of a bootstrap.  A     *)
(* task is the sequence of the calls it has still to make.  There is one   *)
(* device, at one address.                                                 *)
(***************************************************************************)
EXTENDS Integers, Sequences

CONSTANTS
    Task,      \* bound: retransmit and phase tasks at the same time
    Client,    \* clients of the event socket
    Capacity,  \* what the channel keeps for a client that is behind
    SeqMod,    \* values of the sequence counter, which wraps around
    Writes     \* write steps of a phase

Server == "server"

ASSUME OutgoingAssumption ==
    /\ Server \notin Task
    /\ Capacity \in Nat \ {0}
    /\ SeqMod \in Nat \ {0}
    /\ Writes \in Nat

VARIABLES
    dev,       \* the device: registered, online
    todo,      \* the calls each task has still to make
    tclass,    \* the traffic class of the socket
    seq,       \* EventSender::seq
    client,    \* the clients and their relay tasks
    announced, \* history: the last connection_status event
    astray     \* history: the events may contradict the status

vars == <<dev, todo, tclass, seq, client, announced, astray>>

Actor == {Server} \cup Task

Class == {"plain", "encrypted"}

Status == {"online", "offline"}

Kind == Status \cup {"other"}

Seqs == 0 .. SeqMod - 1

\* The calls.
Call == [call : {"set_tclass", "send_to", "await"}, class : Class]
        \cup [call : {"fetch_add"}, kind : Kind]
        \cup [call : {"broadcast"}, kind : Kind, seq : Seqs]
        \cup [call : {"register", "remove_by_addr", "set_device_offline", "send_device_data", "spawn"}]
        \cup [call : {"bootstrap_write_phase"}, left : 0 .. Writes]

\* What a relay task has still to pass on, what its client has been told of
\* the device, and whether messages have been dropped since.
Relay  == [open : {TRUE}, queue : Seq(Kind), told : Status \cup {"none"}, lagged : BOOLEAN]
Closed == [open |-> FALSE]

TypeOK ==
    /\ dev \in [registered : BOOLEAN, online : BOOLEAN]
    /\ todo \in [Actor -> Seq(Call)]
    /\ tclass \in Class
    /\ seq \in Seqs
    /\ client \in [Client -> {Closed} \cup Relay]
    /\ \A c \in Client : client[c].open => Len(client[c].queue) <= Capacity
    /\ announced \in Status \cup {"none"}
    /\ astray \in BOOLEAN

-----------------------------------------------------------------------------
(* The calls of a task.                                                    *)

At(a, c) == todo[a] # <<>> /\ Head(todo[a]).call = c

\* send_bootstrap_packet and send_encrypted_packet
send_packet(c) == <<[call |-> "set_tclass", class |-> c], [call |-> "send_to", class |-> c]>>

\* A packet that is sent again until it is answered.
confirmable(c) == send_packet(c) \o <<[call |-> "await", class |-> c]>>

\* The send_... functions of EventSender.
send_event(k) == <<[call |-> "fetch_add", kind |-> k]>>

Goes(a, calls) == todo' = [todo EXCEPT ![a] = calls]

Done(a) == Goes(a, Tail(todo[a]))

\* A connection_status event is under way.
Announcing(a) ==
    /\ At(a, "fetch_add") \/ At(a, "broadcast")
    /\ Head(todo[a]).kind \in Status

\* set_tclass; when the call fails the packet is sent all the same.
set_tclass(a) ==
    /\ At(a, "set_tclass")
    /\ tclass' \in {Head(todo[a]).class, tclass}
    /\ Done(a)
    /\ UNCHANGED <<dev, seq, client, announced, astray>>

\* send_to
send_to(a) ==
    /\ At(a, "send_to")
    /\ Done(a)
    /\ UNCHANGED <<dev, tclass, seq, client, announced, astray>>

\* send_to fails: an operation takes the device for offline, the server task
\* and a phase give up.
send_fails(a) ==
    /\ At(a, "send_to")
    /\ Goes(a, IF a # Server /\ Head(todo[a]).class = "encrypted"
               THEN <<[call |-> "set_device_offline"]>> ELSE <<>>)
    /\ UNCHANGED <<dev, tclass, seq, client, announced, astray>>

\* No answer yet.
retransmit(a) ==
    /\ At(a, "await")
    /\ Goes(a, send_packet(Head(todo[a]).class) \o todo[a])
    /\ UNCHANGED <<dev, tclass, seq, client, announced, astray>>

\* The answer has been taken by the server task.
answered(a) ==
    /\ At(a, "await")
    /\ Done(a)
    /\ UNCHANGED <<dev, tclass, seq, client, announced, astray>>

\* The last timeout, or for a phase a reset.
give_up(a) ==
    /\ At(a, "await")
    /\ Goes(a, IF Head(todo[a]).class = "encrypted"
               THEN <<[call |-> "set_device_offline"]>> ELSE <<>>)
    /\ UNCHANGED <<dev, tclass, seq, client, announced, astray>>

-----------------------------------------------------------------------------
(* The status of the device.                                               *)

\* The status changes and an event will say so.  Events go astray when another
\* one is under way; the next change that is announced alone sets them right.
Announced(a) == astray' = \E b \in Actor \ {a} : Announcing(b)

\* Mutant of set_device_offline: the status changes without an event.
set_device_offline_quietly(a) ==
    /\ At(a, "set_device_offline")
    /\ IF dev.registered /\ dev.online
       THEN dev' = [dev EXCEPT !.online = FALSE] /\ Announced(a)
       ELSE UNCHANGED <<dev, astray>>
    /\ Done(a)
    /\ UNCHANGED <<tclass, seq, client, announced>>

\* mark_device_offline
set_device_offline(a) ==
    /\ At(a, "set_device_offline")
    /\ IF dev.registered /\ dev.online
       THEN /\ dev' = [dev EXCEPT !.online = FALSE]
            /\ Announced(a)
            /\ Goes(a, send_event("offline"))
       ELSE /\ Done(a)
            /\ UNCHANGED <<dev, astray>>
    /\ UNCHANGED <<tclass, seq, client, announced>>

\* A new device is online; no event says so.
register(a) ==
    /\ At(a, "register")
    /\ IF dev.registered
       THEN UNCHANGED <<dev, astray>>
       ELSE /\ dev' = [registered |-> TRUE, online |-> TRUE]
            /\ astray' = (announced # "online" \/ \E b \in Actor : Announcing(b))
    /\ Done(a)
    /\ UNCHANGED <<tclass, seq, client, announced>>

Gone == [registered |-> FALSE, online |-> FALSE]

remove_by_addr(a) ==
    /\ At(a, "remove_by_addr")
    /\ dev' = Gone
    /\ Done(a)
    /\ UNCHANGED <<tclass, seq, client, announced, astray>>

\* expire_stale, an exclusion, or the timer after a factory reset.
removed ==
    /\ dev.registered
    /\ dev' = Gone
    /\ UNCHANGED <<todo, tclass, seq, client, announced, astray>>

-----------------------------------------------------------------------------
(* Events.                                                                 *)

\* self.seq.fetch_add
fetch_add(a) ==
    /\ At(a, "fetch_add")
    /\ seq' = (seq + 1) % SeqMod
    /\ Goes(a, <<[call |-> "broadcast", kind |-> Head(todo[a]).kind, seq |-> seq]>> \o Tail(todo[a]))
    /\ UNCHANGED <<dev, tclass, client, announced, astray>>

\* Mutant of Push: the channel grows.
Push_unbounded(r, k) == [r EXCEPT !.queue = Append(@, k)]

\* The channel drops the oldest message of a relay that is too far behind.
Push(r, k) ==
    IF Len(r.queue) < Capacity THEN [r EXCEPT !.queue = Append(@, k)]
    ELSE [r EXCEPT !.queue = Append(Tail(@), k), !.lagged = TRUE]

\* tx.send, to the clients that are connected.
broadcast(a) ==
    /\ At(a, "broadcast")
    /\ LET h == Head(todo[a])
       IN  /\ client' = [c \in Client |-> IF client[c].open THEN Push(client[c], h.kind) ELSE Closed]
           /\ announced' = IF h.kind \in Status THEN h.kind ELSE announced
           /\ astray' = (astray \/ (h.kind = "online" /\ dev.registered /\ ~dev.online))
    /\ Done(a)
    /\ UNCHANGED <<dev, tclass, seq>>

\* accept, and subscribe: a client gets what is sent from now on.
accept(c) ==
    /\ ~client[c].open
    /\ client' = [client EXCEPT ![c] = [open |-> TRUE, queue |-> <<>>, told |-> "none", lagged |-> FALSE]]
    /\ UNCHANGED <<dev, todo, tclass, seq, announced, astray>>

\* relay_to_client: one message.
relay_to_client(c) ==
    /\ client[c].open /\ client[c].queue # <<>>
    /\ LET k == Head(client[c].queue)
       IN  client' = [client EXCEPT
                        ![c].queue = Tail(@),
                        ![c].told = IF k \in Status THEN k ELSE @,
                        ![c].lagged = @ /\ k \notin Status]
    /\ UNCHANGED <<dev, todo, tclass, seq, announced, astray>>

\* The client is gone: the write fails and the relay ends.
disconnect(c) ==
    /\ client[c].open
    /\ client' = [client EXCEPT ![c] = Closed]
    /\ UNCHANGED <<dev, todo, tclass, seq, announced, astray>>

-----------------------------------------------------------------------------
(* What sets the tasks going.                                              *)

Packet == {"none", "answer", "rd", "dp", "delete", "bs", "bs_again", "bs_approved", "bs_bad"}

\* What the server task does with a packet, after touch.  "none" is an ACK, a
\* reset or a method it does not know; "answer" a request that is only answered:
\* an update, a request without ep, an unknown path, a report with nothing in it.
\* A "bs" asks for the certificate; "bs_again" finds that done.
handler(p) ==
    CASE p = "none"        -> <<>>
      [] p = "answer"      -> send_packet("encrypted")
      [] p = "rd"          -> <<[call |-> "register"]>> \o send_packet("encrypted")
      [] p = "dp"          -> send_packet("encrypted") \o <<[call |-> "send_device_data"]>>
      [] p = "delete"      -> send_packet("encrypted") \o <<[call |-> "remove_by_addr"]>>
      [] p = "bs"          -> send_event("other") \o send_packet("plain")
      [] p = "bs_again"    -> send_event("other")
      [] p = "bs_approved" -> send_event("other") \o send_packet("plain") \o <<[call |-> "spawn"]>>
      [] p = "bs_bad"      -> send_packet("plain")

\* handle_packet: touch, with its event if the device was offline.
handle_packet(p) ==
    /\ todo[Server] = <<>>
    /\ IF dev.registered /\ ~dev.online
       THEN /\ dev' = [dev EXCEPT !.online = TRUE]
            /\ Announced(Server)
            /\ Goes(Server, send_event("online") \o handler(p))
       ELSE /\ Goes(Server, handler(p))
            /\ UNCHANGED <<dev, astray>>
    /\ UNCHANGED <<tclass, seq, client, announced>>

\* handle_dp: the data of a device that is known is passed on.
send_device_data(a) ==
    /\ At(a, "send_device_data")
    /\ IF dev.registered THEN Goes(a, send_event("other")) ELSE Done(a)
    /\ UNCHANGED <<dev, tclass, seq, client, announced, astray>>

\* dispatch_op spawns a retransmit task; the device may be gone by now.
dispatch_op(t) ==
    /\ todo[t] = <<>>
    /\ Goes(t, confirmable("encrypted"))
    /\ UNCHANGED <<dev, tclass, seq, client, announced, astray>>

\* handle_bootstrap spawns a write phase t, which begins with an event.
spawn(a, t) ==
    /\ At(a, "spawn")
    /\ todo[t] = <<>>
    /\ todo' = [todo EXCEPT ![a] = Tail(@),
                            ![t] = send_event("other")
                                   \o <<[call |-> "bootstrap_write_phase", left |-> Writes]>>]
    /\ UNCHANGED <<dev, tclass, seq, client, announced, astray>>

\* A write step; after the last one the device and the end are announced.
bootstrap_write_phase(a) ==
    /\ At(a, "bootstrap_write_phase")
    /\ LET n == Head(todo[a]).left
       IN  Goes(a, IF n = 0 THEN send_event("online") \o send_event("other")
                   ELSE confirmable("plain") \o <<[call |-> "bootstrap_write_phase", left |-> n - 1]>>)
    /\ UNCHANGED <<dev, tclass, seq, client, announced, astray>>

-----------------------------------------------------------------------------

Init ==
    /\ dev = Gone
    /\ todo = [a \in Actor |-> <<>>]
    /\ tclass = "plain"
    /\ seq = 0
    /\ client = [c \in Client |-> Closed]
    /\ announced = "none"
    /\ astray = FALSE

Step(a) ==
    \/ set_tclass(a) \/ send_to(a) \/ send_fails(a)
    \/ retransmit(a) \/ answered(a) \/ give_up(a)
    \/ register(a) \/ remove_by_addr(a) \/ set_device_offline(a)
    \/ fetch_add(a) \/ broadcast(a) \/ send_device_data(a)
    \/ bootstrap_write_phase(a) \/ \E t \in Task : spawn(a, t)

Next ==
    \/ \E a \in Actor : Step(a)
    \/ \E p \in Packet : handle_packet(p)
    \/ \E t \in Task : dispatch_op(t)
    \/ \E c \in Client : accept(c) \/ relay_to_client(c) \/ disconnect(c)
    \/ removed

Spec == Init /\ [][Next]_vars

-----------------------------------------------------------------------------
(* Properties.                                                             *)

\* README.md:354 "emits `connection_status` events on transitions": a client
\* that has read all there is and has not lost a message since its last status
\* event knows the status of the device, unless events have gone astray.
StatusTold ==
    \A c \in Client :
       /\ dev.registered
       /\ ~astray
       /\ \A a \in Actor : ~Announcing(a)
       /\ client[c].open
       /\ client[c].queue = <<>>
       /\ ~client[c].lagged
       /\ client[c].told # "none"
       => client[c].told = (IF dev.online THEN "online" ELSE "offline")

-----------------------------------------------------------------------------
(* The inductive invariant behind StatusTold.                              *)

\* In the calls of a task a broadcast is only what comes next.
Tidy(s) ==
    /\ s \in Seq(Call)
    /\ \A i \in 2 .. Len(s) : s[i].call # "broadcast"

CallsInv ==
    /\ \A a \in Actor : Tidy(todo[a])
    /\ todo \in [Actor -> Seq(Call)]
    /\ tclass \in Class
    /\ seq \in Seqs

\* A connection_status event is the first call a task is given, never a later one.
StatusFirst(s) ==
    \A i \in 2 .. Len(s) : s[i].call = "fetch_add" => s[i].kind = "other"

\* The last connection_status event reports the status, or one that does is
\* under way.  Only a write phase can bring another one, and that is "online".
AnnounceInv ==
    dev.registered /\ ~astray =>
       LET status == IF dev.online THEN "online" ELSE "offline"
       IN  /\ \/ announced = status
              \/ \E a \in Actor : Announcing(a) /\ Head(todo[a]).kind = status
           /\ \A a \in Actor : Announcing(a) => Head(todo[a]).kind \in {status, "online"}

Silent(q) == \A i \in 1 .. Len(q) : q[i] \notin Status

\* The last connection_status event of a queue, if there is one, is x.
EndsWith(q, x) ==
    \A i \in 1 .. Len(q) :
       q[i] \in Status /\ (\A j \in 1 .. Len(q) : j > i => q[j] \notin Status) => q[i] = x

\* The last connection_status event that the client of relay r has been told or
\* will be told is x, unless it was dropped.
Knows(r, x) ==
    /\ EndsWith(r.queue, x)
    /\ Silent(r.queue) /\ ~r.lagged /\ r.told # "none" => r.told = x

ToldInv == \A c \in Client : client[c].open => Knows(client[c], announced)

StatusInv ==
    /\ TypeOK
    /\ \A a \in Actor : StatusFirst(todo[a])
    /\ AnnounceInv /\ ToldInv

=============================================================================
