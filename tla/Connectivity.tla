---------------------------- MODULE Connectivity ----------------------------
(***************************************************************************)
(* The connection status of a registered device and the pings that keep it *)
(* true.  Contact makes the device online, an operation that stays without *)
(* answer makes it offline; housekeeping pings an online device that has   *)
(* been silent for ONLINE_PING_INTERVAL, and an offline one every          *)
(* OFFLINE_PING_INTERVAL until OFFLINE_PING_MAX_DURATION has passed.       *)
(*                                                                         *)
(* A tick is INTERVAL_SECS (60 s).  Housekeeping runs once in each; an     *)
(* operation, or a block of a block-wise write, gives up after 30 s, so no *)
(* later than in the tick after the one it began in.  What is in the       *)
(* dispatch channel is dispatched in the same tick; that the channel has a *)
(* capacity is modelled in Dispatch.                                       *)
(***************************************************************************)
EXTENDS Integers, FiniteSets

CONSTANTS
    Addr,            \* addresses the device may use
    MaxCalls,        \* bound: operations under way when a client starts another
    OnlineInterval,  \* ONLINE_PING_INTERVAL, in ticks
    OfflineInterval, \* OFFLINE_PING_INTERVAL
    Window,          \* OFFLINE_PING_MAX_DURATION
    Horizon,         \* bound: ages from here on are not told apart
    MaxRestart       \* bound: restarts of the process

ASSUME ConnectivityAssumption ==
    /\ Addr # {}
    /\ OnlineInterval \in Nat \ {0, 1}
    /\ OfflineInterval \in Nat \ {0}
    /\ Window \in Nat \ {0}
    /\ Horizon \in Nat
    /\ Horizon >= OnlineInterval + 2
    /\ Horizon >= OfflineInterval + 3
    /\ Horizon >= Window
    /\ MaxCalls \in Nat
    /\ MaxRestart \in Nat

VARIABLES
    dev,       \* the registry's entry for the device
    chan,      \* the dispatch channel: the addresses of pings and other operations
    call,      \* the operations under way
    due,       \* housekeeping has still to run in this tick
    home,      \* the address the device uses
    up,        \* packets get through, to the device and back
    reach,     \* history: ticks for which the device could be reached
    pings,     \* history: pings since the device was last heard from
    restarts

world == <<home, up>>
vars  == <<dev, chan, call, due, home, up, reach, pings, restarts>>

Age == 0 .. Horizon

\* last_ping_attempt = None counts as long ago.
Never == Horizon

Device == [registered : BOOLEAN, addr : Addr, online : BOOLEAN,
           since : Age, contact : Age, ping : Age]

\* An operation to addr, or a block of one: whether it began in an earlier tick,
\* whether the device was out of reach meanwhile, and whether its end without
\* answer counts: it is in the in_flight map, or it is a block.  Operations that
\* are alike are one element of call, or of chan, however many.
Call == [addr : Addr, late : BOOLEAN, missed : BOOLEAN, awaited : BOOLEAN]

\* The types, and that offline_since is None as long as the device is online.
TypeOK ==
    /\ dev \in Device
    /\ dev.online => dev.since = 0
    /\ chan \subseteq Addr
    /\ call \subseteq Call
    /\ due \in BOOLEAN
    /\ home \in Addr
    /\ up \in BOOLEAN
    /\ reach \in Age
    /\ pings \in Nat
    /\ restarts \in 0 .. MaxRestart

-----------------------------------------------------------------------------
(* The registry.                                                           *)

At(a) == dev.registered /\ dev.addr = a

\* Mutant of touch: offline_since stays.
touch_keeps_since(a) == IF At(a) THEN [dev EXCEPT !.online = TRUE, !.contact = 0] ELSE dev

\* touch: last_contact, and the status; the device is known by its address.
touch(a) == IF At(a) THEN [dev EXCEPT !.online = TRUE, !.since = 0, !.contact = 0] ELSE dev

\* Device::new: online, although no status event was sent.
NewDevice(a) ==
    [registered |-> TRUE, addr |-> a, online |-> TRUE, since |-> 0, contact |-> 0, ping |-> Never]

\* register: a device that is known keeps its status.
register(d, a) ==
    IF d.registered THEN [d EXCEPT !.addr = a, !.contact = 0] ELSE NewDevice(a)

\* Mutant of set_device_offline: the device need not have been online.
set_device_offline_again(a) ==
    IF At(a) THEN [dev EXCEPT !.online = FALSE, !.since = 0] ELSE dev

set_device_offline(a) ==
    IF At(a) /\ dev.online THEN [dev EXCEPT !.online = FALSE, !.since = 0] ELSE dev

\* Mutant of needs_ping: an online device is pinged once.
needs_ping_once(d) ==
    IF d.online
    THEN d.contact >= OnlineInterval /\ d.ping = Never
    ELSE d.since < Window /\ d.ping >= OfflineInterval

\* Mutant of needs_ping: an offline device is pinged when its last contact is
\* long ago.
needs_ping_silent(d) ==
    IF d.online
    THEN d.contact >= OnlineInterval /\ d.ping >= OnlineInterval
    ELSE d.since < Window /\ d.contact >= OnlineInterval /\ d.ping >= OfflineInterval

\* The condition of take_ping_candidates.
needs_ping(d) ==
    IF d.online
    THEN d.contact >= OnlineInterval /\ d.ping >= OnlineInterval
    ELSE d.since < Window /\ d.ping >= OfflineInterval

Unregistered(d) ==
    [d EXCEPT !.registered = FALSE, !.online = FALSE, !.since = 0, !.contact = 0, !.ping = Never]

-----------------------------------------------------------------------------
(* Operations.                                                             *)

\* Time passes.
Older(age) == IF age < Horizon THEN age + 1 ELSE Horizon

Reachable(d, a, u) == d.registered /\ d.addr = a /\ u

\* How long the device could be reached without a break; part of every step.
Reach ==
    reach' = IF ~Reachable(dev', home', up') \/ ~Reachable(dev, home, up) \/ restarts' # restarts
             THEN 0
             ELSE IF ~due /\ due' THEN Older(reach) ELSE reach

\* place_in_flight finds the device by the address, or drops the operation; a
\* block-wise write is not placed there.
NewCall(a, block) ==
    [addr |-> a, late |-> FALSE, missed |-> ~(up /\ home = a), awaited |-> At(a) \/ block]

\* With the device its in_flight map goes, and a task that waits ends without
\* effect, but for the block-wise writes.
Dropped(blocks) == {[c EXCEPT !.awaited = @ /\ c \in blocks] : c \in call}

\* The bound on what the clients have under way.
Room == Cardinality(call) < MaxCalls

\* A client reads, writes, executes or uploads: the address is looked up, and
\* the operation is sent to the dispatch task.
Command ==
    /\ dev.registered
    /\ Room
    /\ chan' = chan \cup {dev.addr}
    /\ UNCHANGED <<dev, call, due, world, pings, restarts>>
    /\ Reach

\* The dispatch task takes an operation, for the address it was meant for then;
\* there may be another one like it.
dispatch_op(a) ==
    /\ a \in chan
    /\ chan' = chan \ {a} \/ (Room /\ UNCHANGED chan)
    /\ \E block \in BOOLEAN : call' = call \cup {NewCall(a, block)}
    /\ UNCHANGED <<dev, due, world, pings, restarts>>
    /\ Reach

\* An operation ends, and others like it may not.
Ended(c) ==
    /\ c \in call
    /\ call' = call \ {c} \/ UNCHANGED call
    /\ UNCHANGED chan

\* A block is answered, and the next one is sent.
NextBlock(c) ==
    /\ c \in call
    /\ call' = (call \ {c}) \cup {NewCall(c.addr, TRUE)}
    /\ UNCHANGED chan

\* The answer arrives, to the first transmission or to a later one.
Answered(c) ==
    /\ Ended(c) \/ NextBlock(c)
    /\ up /\ home = c.addr
    /\ dev' = touch(home)
    /\ pings' = IF At(home) THEN 0 ELSE pings
    /\ UNCHANGED <<due, world, restarts>>
    /\ Reach

\* No transmission was answered: mark_device_offline.
Unanswered(c) ==
    /\ Ended(c)
    /\ c.awaited /\ c.missed
    /\ dev' = set_device_offline(c.addr)
    /\ UNCHANGED <<due, world, pings, restarts>>
    /\ Reach

\* send_to fails: the device is marked offline at once.
SendFails(c) ==
    /\ Ended(c)
    /\ ~up
    /\ dev' = set_device_offline(c.addr)
    /\ UNCHANGED <<due, world, pings, restarts>>
    /\ Reach

\* The operation is not in flight any more.
Abandoned(c) ==
    /\ Ended(c)
    /\ ~c.awaited
    /\ UNCHANGED <<dev, due, world, pings, restarts>>
    /\ Reach

-----------------------------------------------------------------------------
(* Packets of the device.                                                  *)

\* Any packet but those below: an update, a report, a late answer.
Contact ==
    /\ up
    /\ dev' = touch(home)
    /\ pings' = IF At(home) THEN 0 ELSE pings
    /\ UNCHANGED <<chan, call, due, world, restarts>>
    /\ Reach

\* POST /rd: touch under the address it comes from, then register.
handle_registration ==
    /\ up
    /\ dev' = register(touch(home), home)
    /\ pings' = 0
    /\ UNCHANGED <<chan, call, due, world, restarts>>
    /\ Reach

\* DELETE /rd/<id>
handle_delete ==
    /\ up
    /\ At(home)
    /\ dev' = Unregistered(dev)
    /\ \E blocks \in SUBSET call : call' = Dropped(blocks)
    /\ pings' = 0
    /\ UNCHANGED <<chan, due, world, restarts>>
    /\ Reach

-----------------------------------------------------------------------------
(* Housekeeping, time and the world.                                       *)

\* expire_stale, for a registration that has run out.
expire_stale ==
    /\ due
    /\ dev.registered
    /\ dev' = Unregistered(dev)
    /\ \E blocks \in SUBSET call : call' = Dropped(blocks)
    /\ pings' = 0
    /\ UNCHANGED <<chan, due, world, restarts>>
    /\ Reach

\* take_ping_candidates, and the send to the dispatch task; the address is the
\* one the device has now.
take_ping_candidates ==
    /\ due
    /\ due' = FALSE
    /\ IF dev.registered /\ needs_ping(dev)
       THEN /\ dev' = [dev EXCEPT !.ping = 0]
            /\ chan' = chan \cup {dev.addr}
            /\ pings' = pings + 1
       ELSE UNCHANGED <<dev, chan, pings>>
    /\ UNCHANGED <<call, world, restarts>>
    /\ Reach

Tick ==
    /\ ~due
    /\ chan = {}
    /\ \A c \in call : ~c.late
    /\ due' = TRUE
    /\ dev' = IF dev.registered
              THEN [dev EXCEPT !.since = IF dev.online THEN @ ELSE Older(@),
                               !.contact = Older(@), !.ping = Older(@)]
              ELSE dev
    /\ call' = {[c EXCEPT !.late = TRUE] : c \in call}
    /\ UNCHANGED <<chan, world, pings, restarts>>
    /\ Reach

\* The device moves out of reach or back, or to another address.
World(a, u) ==
    /\ <<a, u>> # <<home, up>>
    /\ home' = a
    /\ up' = u
    /\ call' = {[c EXCEPT !.missed = @ \/ ~(u /\ a = c.addr)] : c \in call}
    /\ UNCHANGED <<dev, chan, due, pings, restarts>>
    /\ Reach

\* restore: what the file holds of the device, offline; the first tick of
\* housekeeping follows at once.
restore(a) ==
    /\ restarts < MaxRestart
    /\ restarts' = restarts + 1
    /\ dev' = [registered |-> TRUE, addr |-> a, online |-> FALSE,
               since |-> 0, contact |-> 0, ping |-> Never]
    /\ chan' = {}
    /\ call' = {}
    /\ due' = TRUE
    /\ pings' = 0
    /\ UNCHANGED world
    /\ Reach

-----------------------------------------------------------------------------

Init ==
    /\ \E a \in Addr : dev = Unregistered(NewDevice(a)) /\ home = a
    /\ chan = {}
    /\ call = {}
    /\ due = TRUE
    /\ up = TRUE
    /\ reach = 0
    /\ pings = 0
    /\ restarts = 0

Ends(c) == Answered(c) \/ Unanswered(c) \/ SendFails(c) \/ Abandoned(c)

Next ==
    \/ Command
    \/ \E a \in Addr : dispatch_op(a)
    \/ \E c \in call : Ends(c)
    \/ Contact \/ handle_registration \/ handle_delete
    \/ expire_stale \/ take_ping_candidates \/ Tick
    \/ \E a \in Addr, u \in BOOLEAN : World(a, u)
    \/ \E a \in Addr : restore(a)

Spec == Init /\ [][Next]_vars

-----------------------------------------------------------------------------
(* Properties.                                                             *)

\* A device that is shown as online was heard from within the online interval
\* and the tick its ping takes, whatever moves, other operations and late
\* timeouts came in between.
SilenceBounded == dev.registered /\ dev.online => dev.contact <= OnlineInterval + 1

\* A device that can be reached again is not shown as offline for longer than
\* the offline interval and the ticks of a ping, as long as it is pinged.
ComesBackInTime ==
    dev.registered /\ ~dev.online /\ reach > OfflineInterval + 2 => dev.since >= Window

\* A device that is not heard from gets no more pings than fit the window, and
\* one: the ping that found it silent may come first.
PingBudget == (pings - 1) * OfflineInterval <= Window

-----------------------------------------------------------------------------
(* The inductive invariant behind them.                                    *)

\* An operation that will show whether the device is there, under way or in the
\* channel.
Probe(c) == c.addr = dev.addr /\ c.awaited

Probed == dev.addr \in chan \/ \E c \in call : Probe(c)

\* An online device that was pinged since its last contact is being probed; at
\* the end of the online interval it is, and the probe ends within a tick.
OnlineInv ==
    dev.registered /\ dev.online =>
      /\ dev.contact <= OnlineInterval + 1
      /\ dev.ping < dev.contact => Probed
      /\ dev.contact = OnlineInterval /\ ~due => Probed
      /\ dev.contact = OnlineInterval + 1 => \E c \in call : Probe(c) /\ c.late

\* A device that can be reached is not marked offline by an old operation for
\* longer than a tick.
StaleInv ==
    /\ ~Reachable(dev, home, up) => reach = 0
    /\ \A c \in call :
         Probe(c) /\ c.missed /\ Reachable(dev, home, up) => reach = 0 \/ (reach = 1 /\ c.late)

\* While an offline device can be reached its last ping is older than that, or
\* a probe is on its way.
OfflineInv ==
    dev.registered /\ ~dev.online /\ dev.since < Window /\ reach > 1 =>
      \/ /\ dev.ping >= reach - 1
         /\ reach > 2 \/ ~due => dev.ping <= OfflineInterval
         /\ ~due => dev.ping < OfflineInterval
      \/ dev.addr \in chan /\ reach <= OfflineInterval + 1
      \/ \E c \in call : Probe(c) /\ ~c.missed /\ ~c.late /\ reach <= OfflineInterval + 1
      \/ \E c \in call : Probe(c) /\ ~c.missed /\ c.late /\ reach <= OfflineInterval + 2

\* Pings are an offline interval apart, but for the one that found the device
\* silent.
PingInv ==
    IF ~dev.registered THEN pings = 0
    ELSE IF dev.online
    THEN pings > 0 => pings = 1 /\ dev.ping + OnlineInterval <= dev.contact
    ELSE /\ PingBudget
         /\ pings > 0 /\ dev.since < Window
            => (pings - 1) * OfflineInterval + dev.ping <= dev.since + 1

ConnectivityInv == TypeOK /\ OnlineInv /\ StaleInv /\ OfflineInv /\ PingInv

=============================================================================
