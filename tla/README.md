# TLA+ specifications of lwm2mserver-rs

This directory models the server's concurrent core in TLA+, checks it with TLC
on small instances and proves its main invariants with TLAPS for every
instance. Paths below are relative to the repository; line numbers are those of
the source the modules were written from. `PROJECT.json` lists the components,
the runs, the source lines of every definition, the mutants that show each
property can fail, the known hazards and the theorems.

    tlc -config DispatchOne.cfg MCDispatch      # one run
    tlapm DispatchProofs.tla                    # the proofs of a module

## 1. The system

One process serves garden devices over CoAP/UDP and local clients over two Unix
sockets. `main` restores state from disk, then runs five loops in one
`tokio::select!`: the CoAP server, the dispatch loop, housekeeping, the command
socket and the event socket. These loops spawn tasks of their own: a retransmit
task for each operation, a task for each socket client, a write phase for each
inclusion, a blocking task for each save.

| Component | State | Operations | Correct when |
|---|---|---|---|
| Device registry (`registry.rs`, `model.rs`) | `by_id`, `by_endpoint`, `by_addr`, `next_id` behind one `RwLock`; per device lifetime, contact times, online flag, operations in flight | `register`, `renew_registration`, `touch`, `remove_by_addr`, `expire_stale`, `place_in_flight`, `complete_in_flight`, `timeout_in_flight`, `set_device_offline`, `snapshot`, `restore` | the indexes agree; ids are not reused; a registration ends when its lifetime has passed and not before; an operation is resolved once and not forgotten |
| CoAP server (`lwm2m/server.rs`) | the packet in hand | `/rd`, `/rd/<id>`, DELETE, `/bs`, `/dp`, acknowledgements, resets | each packet acts on its sender's record only |
| Dispatch (`lwm2m/client.rs`) | channel of 256 requests; per operation attempts and backoff | `dispatch_op`, retransmission, final timeout, block-wise write | an answer goes to the operation it answers; every operation ends; a silent device is marked offline |
| Command socket (`ipc/command.rs`) | waiting callers; upload lock | execute, read, write, approve, exclude, upload | one answer per request, success only if the device carried it out |
| Inclusion (`lwm2m/bootstrap.rs`, `server.rs`) | sessions (two indexes), certificates, approvals, includable ids (two indexes), included set, pending write acknowledgements | `handle_bootstrap`, `begin`, `complete`, `approve_inclusion`, write phase, exclusion | indexes agree; a write phase needs an approval; only a device that took every step is included; nothing waits for ever |
| Housekeeping (`housekeeping.rs`) | a 60 s interval | expiry of registrations, operations and sessions; pings | bounds how long anything is left over |
| Pings (`housekeeping.rs`, `registry.rs`) | per device: status, last contact, last ping, offline since | `take_ping_candidates` | the status shown is never older than the ping intervals promise |
| Persistence (`persistence.rs`, `main.rs`) | `wakaama.json`, `included_devices.json`, one state file per device | spawned saves by write and rename; load and clean-up at start | a restart finds what was saved last, and only what belongs to included devices |
| Events (`ipc/event.rs`) | sequence number, broadcast channel, one relay per client | connection status, includable, state events | events follow the state they report |
| UDP socket (`lwm2m/mod.rs`) | the traffic class of the one socket | `set_tclass`, `send_to` | packets of a task leave in its order |
| IPSO model, SenML and CBOR, configuration, logging | tables, none | pure conversion | as their unit tests say |

Interaction: the server task, the retransmit tasks, housekeeping and the IPC
tasks share the registry. Each call on it holds the lock and is atomic; a
handler makes several calls with awaits between them, and every other task may
run in each gap. IPC tasks reach devices through the dispatch channel and are
answered through a oneshot that travels with the operation: through `in_flight`
to whoever removes it (an acknowledgement, the final timeout, the sweep, expiry, a
removal, of which the last four answer `Timeout`). It is dropped without an answer
when nobody is registered at its address. A large write is not in `in_flight`; its
block-wise task keeps the oneshot. Write phases wait for oneshots in `write_acks`,
which the server task fires.

What is hard: gaps between two calls on a registry; addresses that change hands;
three timeouts (retransmission, caller, sweep) that compete for one operation;
late and repeated acknowledgements; overlapping write phases of one endpoint;
saves that overtake each other; crashes between two steps; state that a restart
restores in part. `PROJECT.json` lists these as hazards, at their lines.

## 2. Modules

| Module | Models |
|---|---|
| `HashMap` | insertion and removal on finite maps |
| `DeviceRegistry` | the registry and everything that calls it |
| `RemoteCall` | what the command socket promises for an operation (abstract) |
| `Dispatch` | one device, its operations, and the tasks between client and device |
| `Inclusion` | bootstrap sessions, approval, write phases, exclusion, the included list |
| `Upload` | firmware uploads: the upload lock, the block-wise transfer, the result event |
| `Connectivity` | the online flag of a device, the pings and their clocks |
| `Persistence` | reported state, included list and registrations, in memory and in files; saves, crashes, startup |
| `Outgoing` | what all tasks share to the outside: the socket with its traffic class, the event channel with its clients |
| `MC...` | constants, symmetry and special initial states for TLC |
| `HashMapTheorems`, `...Proofs` | theorems |

The modules cut the one program along its state: a handler that touches the state
of several modules is an action of each, with the calls that concern it there.
`POST /dp`, for instance, is a packet that touches the sender in `DeviceRegistry`,
a contact in `Connectivity`, a merge and a save in `Persistence`, and a reply and
an event in `Outgoing`.

**DeviceRegistry.** The variables are the fields of `RegistryInner`, `wakaama`
(the registrations a restart will find), and `rx`, the packet the server task
has touched and not yet handled. One action is one call under the lock, or one
handler after its `touch`. Instants are ages in ticks, counted up to `Horizon`,
which is above every lifetime plus grace, so an age at the bound has expired.
`u32` ids wrap at `MaxId`. An address is a pair of IP and scope id; loading it
from disk drops the scope id, as the code does. `client` records what each
device has told the server from where, and only properties read it; an update or
a deregistration may come from any address, registered or not, and acts on whoever
is known there, as `handle_update` does. `wrapped` and `shared`
record that the id counter has wrapped and that two devices had one address.
A save of the registry is a spawned task that any registration or exclusion
starts, so a snapshot may be written in any state. `pending_ops` is never filled
by the code and is left out.

**Dispatch.** The device's registry entry, the channel, one retransmit task and
one IPC task per operation, the packet in hand, the housekeeping countdown, and
the network: a request that was sent may arrive at any time or never, its reply
comes back from the address it was sent to at any time, repeatedly or never, and
the device's own requests may come late, from any address it has used. A tick is
`ACK_TIMEOUT_MS` (2 s); a tick passes only when no task has a step to make
without waiting. `touch` and its event, `set_device_offline` and its event, and
the checks of the retransmit task are separate steps; the events themselves are in
`Outgoing`. An operation is small, one packet with a retransmit task, or
`large`, a write above `BLOCK_THRESHOLD`: then it is never in flight, and its task
goes on for as long as its blocks are acknowledged; the blocks themselves are in
`Upload`. Housekeeping may have a ping to send after each run and waits for room in
the channel; what becomes of the ping afterwards is in `Connectivity`. The factory
reset of a device that is not included uses the same path as any operation and is
not distinguished. A failing reply to the device's own request is not
modelled here; `DeviceRegistry` has it.

**Inclusion.** The fields of `RegistryInner` in `bootstrap.rs`, the position of
the server task inside `handle_bootstrap` and `handle_ack`, the write phases,
exclusions and saves as tasks with program counters, the temporary and the real
file. A payload is valid or not. A write step is sent, and sent again, until its
oneshot fires or `MaxRetransmit` retransmissions are used up; timeouts may strike
at any wait. Token counters start at a random value, so tokens are not reused.
`server_uri` is always set by `main`; a reset in answer to GET /0/0 changes
nothing, as in the code.

**Upload.** For each upload the command handler (later the task that watches for
the result), the block-wise task and the two channels between them; the lock;
the registrations in `block_acks`; and the network and the device. A payload is a
number of units of the smallest block size; a block carries its number, size and
length, and the device computes the offset from number and size, as RFC 7959
has it, takes blocks in order, may ask for a smaller size and may refuse any. All
blocks of an upload share a token, so an acknowledgement names no block; it may
come at any time, repeatedly or never. Registering and sending are one step:
nothing looks at the channel in between. A small payload is one operation, of
which `Dispatch` says how it ends. Message ids are left out; the offline mark of a
failing upload is that of any operation in `Connectivity` and `Outgoing`. The device may also answer a middle block with 2.04,
which RFC 7959 allows and which ends the upload as completed (`client.rs:312-317`);
`early` is history, the uploads to which that happened.

**Connectivity.** One device: its registry entry with the three clocks that
`take_ping_candidates` reads, what is in the dispatch channel, the operations under
way (pings and others are alike), and the world: the address the device uses and
whether packets get through. Both are sets, so that any number of operations that
are alike is one element, which may stay when one of them ends. A tick is
`INTERVAL_SECS`; housekeeping runs once in each and never waits for an operation;
what is in the channel is dispatched within the tick, and an operation, or a block
of a large write, gives up after 30 s at most, so it ends no later than in the tick
after the one it began in. A block is awaited although nothing is in `in_flight`,
and also after the device was removed. An operation is answered while the device can be reached at
the address it was sent to, and can fail only if the device was out of reach at
some time meanwhile. A re-registration from a new address keeps the status, a
removal drops the operations, a restart restores the device as offline: as the
code does. `reach` and `pings` are history: for how long the device could be
reached, and how many pings it got since it was last heard from.

**Persistence.** `state` and `included` in memory, what each file and its temporary
file hold, and the tasks: a save is `open` (which truncates), `write`, `rename`, or
a removal, each a step of its own, with the data the task was given when it was
spawned. A write or a removal may fail; a removal that fails is only logged
(`persistence.rs:216`), and the caller goes on. A save that has the temporary file open goes on with it under its new
name when another save renames it, as a file descriptor does; so overlapping saves
can tear a file. The server task has a gap between the look-up of `/dp` and its
merge, and one between the reply to a registration and its check for inclusion. An
exclusion is three calls and a save of several files. `crash` stops the process
anywhere, `main` then loads, drops orphans one file at a time, restores and runs,
and may be stopped as well. A state is a map from leaves (object, instance,
resource and kind of value) to values, which is what `json_merge` merges;
`build_device_payload` keeps the leaves of known objects. Devices are known by
endpoint: addresses are the subject of `DeviceRegistry`. `wakaama.json` is the set
of devices a start may find, since its saves are spawned by every handler. There
is no loss of written data on a power cut: `write_atomic` does not call `fsync`,
and what a file system then does is outside the model. `disturbed` is history: the
files for which two saves were under way at once, whose write failed, or whose
device was registered or included again while its exclusion was deleting them.

**Outgoing.** A task is the sequence of calls it has still to make: `handler(p)` is
what the server task does with a packet of kind `p`; a retransmit task and a write
phase have theirs. `set_tclass` and `send_to` are two calls, `fetch_add` and
`broadcast` are, and a change of status and its event are. The channel keeps
`Capacity` messages for each client and drops the oldest; clients connect, read,
lag and leave; `set_tclass` and `send_to` may fail. `astray` is history: whether
events may contradict the status, because two were under way at once, a device came
back without an event, or the write phase announced a device that is offline.

## 3. Runs

| Run | Shows |
|---|---|
| `DeviceRegistryIndex` | `IndexConsistent`, `AddrIndexComplete`: two devices, two addresses they may exchange or share, three ids, one restart |
| `DeviceRegistryOps` | `OpAccounted`, `OutcomeFinal`: three operations of which two have the same token, through purge, removal, re-registration and sweep |
| `DeviceRegistryLife` | `ExpiryIsDue`, `SilentDevicePurged`: two lifetimes, a grace period, updates from any address, no restart |
| `DispatchOne` | one operation, small or large, beside pings in a channel of one place, two addresses, a move and a send error: `ImplementsRemoteCall` and `InFlightEnds` (liveness), `DeadlineMeansDisturbed`, `DoneMeansSettled` |
| `InclusionTwice` | two write phases of one endpoint, two sessions, one restart: `IdsConsistent`, `SessionsConsistent`, `PhaseApproved` |
| `InclusionSteps` | the five steps of the code, an exclusion, a restart: `IncludedCompleted`, `PhaseEnds`, `SessionEnds` |
| `UploadTwo` | two uploads, two block sizes, a send error, a device that may call an upload done early: `CompleteMeansReceived`, `UploadsExclusive`, `UploadEnds`, `StartedIsReported` |
| `PersistenceFiles` | a device, its reports, inclusion and exclusion, two tasks at a time, a failing write or deletion, a crash: `WholeUnlessDisturbed`, `ListSaved`, `StateSaved`, `StartupConsistent`, `DeletedMeansUnlisted` |
| `ConnectivityPings` | two addresses, two kinds of operations at a time and a ping, a restart: `SilenceBounded`, `ComesBackInTime`, `PingBudget` |
| `OutgoingEvents` | the server task beside a retransmit task or a write phase, one client: `StatusTold` |

Two runs end in a counterexample. Each states what a document or comment of the
repository says and shows a behaviour of the code that differs:

| Run | Statement | Code |
|---|---|---|
| `InclusionRejected` | `true` = 2.xx success (`bootstrap.rs:181`) | any acknowledgement fires `true` (`server.rs:530`) |
| `PersistenceReconnect` | after a DELETE the "state is preserved for the next reconnect" (`SPECIFICATION.md:122`, `server.rs:233`) | a device that registers again starts with an empty state (`registry.rs:96`), and its first report overwrites the file (`server.rs:647-655`) |

Some differences are exceptions that a passing property names, so that it says
exactly when the code keeps its promise:

- `WholeUnlessDisturbed`, `ListSaved`, `StateSaved`: writes are atomic
  (`README.md:393`) and the included set is persisted (`bootstrap.rs:44`) unless
  two saves of a file overlap. They share a temporary file (`persistence.rs:256`)
  and each has the data of its own moment (`server.rs:298`, `command.rs:416`).
- `StatusTold`: events are emitted on transitions (`README.md:354`), but two under
  way at once can be sent in the opposite order (`client.rs:380`), a device that
  registers is online without an event (`registry.rs:93-111`, against
  `README.md:267`), and a deregistration sends none (`server.rs:236`).
- `ExpiryIsDue`: an update "resets the expiry timer" (`SPECIFICATION.md:121`) only
  if it comes from the address the device registered from. One from another address
  is answered 2.04 (`server.rs:502-509`) and renews nothing, or whichever device has
  that address, and the sender is purged all the same.
- `DeadlineMeansDisturbed`: the client hears of the outcome before its 30 s are over
  unless it is a block-wise write, which has a wait for each block and no common
  bound (`client.rs:68-89`): the client may be told of a failure while the transfer
  goes on and succeeds.
- `CompleteMeansReceived`: "Block write complete" (`client.rs:315`) is what the device
  said, also when it said so before the last block.
- `StartupConsistent`: "Orphaned registry entries are dropped and their device state
  files are deleted" (`SPECIFICATION.md:175`), but for files of which the deletion
  fails: that is logged, and the start goes on (`main.rs:83`, `main.rs:101`).
- `UploadsExclusive`: the upload lock prevents concurrent uploads
  (`SPECIFICATION.md:158`) until the watch gives one up after 600 s
  (`command.rs:616`).
- `ComesBackInTime`: any packet marks a device online (`README.md:358`), but a
  registration from a new address keeps the old status (`registry.rs:71-91`) until
  a later packet or a ping corrects it.

Two differences have no property, since the code promises nothing there. The
sequence number of events is called monotone (`SPECIFICATION.md:70`), but it is taken
before the event is sent and two events under way at once can be sent in either
order (`event.rs:83`). Bootstrap packets have class 0x0c (`README.md:308`), unless
another task sets the class of the shared socket between the two calls
(`server.rs:367`) or setting it fails, which is logged (`lwm2m/mod.rs:79`).

Other differences met while reading: an online device is pinged after 9000 s
(`housekeeping.rs:23`), not after 24 h (`SPECIFICATION.md:181`, `README.md:363`); only
packets from the device reset the timers of the pings, an outbound operation does
not (`README.md:365`); after a restart the lifetime of a device is
what was left of it (`registry.rs:360`), not what it declared (`model.rs:127`), and
an update without `lt=` renews for that only; an exclusion of a device that does
not respond is tagged `device_failure` and not `device_timeout`
(`SPECIFICATION.md:301`), because the retransmit task answers before the 30 s
deadline (`command.rs:400`); message ids reserved for an upload are too few when
the device asks for smaller blocks or the counter passes 0 (`client.rs:71`); the
scope id of an address is not restored (`persistence.rs:146`); a heartbeat is not
saved although the README says so (`README.md:389`); the first tick of housekeeping
comes at once and not 60 s after the start (`README.md:365`, `housekeeping.rs:39`);
a retransmit task can mark a device offline that has just answered
(`client.rs:147-159`); completion events precede the save (`server.rs:294-303`); a
registration between the finish acknowledgement and `mark_included` is answered
with a factory reset (`server.rs:453`).

**Bounds.** Two devices and two addresses are what it takes for an address to
change hands and be reused. Three ids allow both devices and a re-creation after a
removal before the counter wraps; states after the wrap are outside the constraint
`BeforeWrap`, since every index property is stated until then. In
`DeviceRegistryLife` behaviours are followed until an id wraps or an address is
shared (`StillStated`): its properties claim nothing after that, neither is ever
undone, and the leads-to property counts both as reached, so nothing is missed.
`DeviceRegistryOps` does not tell states apart by the history that neither its
properties nor any action reads (`WithoutHistory`). In
`DispatchOne` the proportions of the waits are kept: backoffs of 1 and 2 ticks,
less than the caller's 4, and an operation is swept when it is older than that; the
code has 2+4+8 s, 30 s and 60 s. Housekeeping runs every 2 ticks, so that several
runs, and their pings, fall into the life of an operation. The channel has one
place, so that it is full with any operation or ping. With one operation no answer can go to another one; that none does, for
any number of operations, is the theorem `RemoteCallSafe`. `InclusionSteps` has the code's
five steps; one retransmission instead of four is enough for an acknowledgement
of an earlier transmission to be late. `UploadTwo` has
two blocks, or three when the device asks for smaller ones: a first, a middle and
a last one. Its waits are 1 and 2 ticks against 4 for the first acknowledgement,
as 2+4+8 s against 30 s in the code: one more retransmission would reach the
deadline in both. The watch gives up after 6 ticks, so that a slow upload
outlives it. `ConnectivityPings`
has an online interval of 5 ticks, an offline one of 3 and a window of 8, so that
the window holds several pings and a device can go silent, be found out, return
and go silent again before it ends; ages from `Horizon` on are not told apart,
which is no smaller than any of the sums that are compared. A client starts an
operation while fewer than two (`MaxCalls`) are under way that differ; a ping, a
removal or a move may add to them. `PersistenceFiles` has
one device with one leaf and two values: a save can be older than another, and
both files of an exclusion are there; two tasks are what it takes for saves to
overlap, one failure and one crash come at any step (a second crash, in `main`, is
left to the proofs). A write fails after the file was opened, the case that leaves
something behind; a failing deletion leaves the file. `PersistenceReconnect` starts with an included device that has
not yet registered, the state after its inclusion. In `OutgoingEvents` the channel
keeps two messages, so that a client can lag; no property reads the sequence
numbers, so one (`SeqMod`) is enough; one write step stands for
five, which are alike here. Symmetry is used for devices, addresses,
operations, tasks and write phases, in runs without liveness properties only.
`Inclusion` may stop when its bounds are used up, so deadlock is not checked
there.

**Fairness.** Weak fairness of time and of housekeeping in `DeviceRegistry`; of
the steps of spawned tasks, of the server task, of housekeeping and of time in
`Dispatch`; of the server task, expiry and write phases in `Inclusion`; of the
handler and the block-wise task of each upload and of time in `Upload`. Time in
`Dispatch` has strong fairness: it passes however many packets arrive. These
are tasks of a runtime that polls every ready task, and loops on timers.
`Connectivity`, `Persistence` and `Outgoing` have safety properties only and need
none.
Devices, clients, the network and crashes are given no fairness.

## 4. Proofs

All theorems hold for every value of the constants that meets the modules'
assumptions, and are checked by TLAPS with no step left out. Leaves go to Zenon
unless they name SMT, which does arithmetic, records and sequences.

- `HashMapTheorems`: types and values after insertion and removal.
- `DeviceRegistryProofs`: `TypeCorrect`; `IndexInvariant` for
  `IndexInv == TypeOK /\ IndexConsistent /\ NextIdFresh /\ SavedDistinct`. The
  indexes are not inductive alone: a new registration needs an id that is not in
  use, and a restart needs that no endpoint is saved under two ids. `IndexSafe`
  and `IdsFresh` follow; `AddrComplete` adds, on top of it, that every device is
  found by its address while no address was shared.
  `OpsAccounted` and `OutcomesAreFinal` are about the in-flight tables: with
  `TypeOK`, `OpAccounted` is inductive, since an operation is in one table only,
  so whatever takes it out settles it and no other table still has it.
  `ExpiryOnlyWhenDue` is the action property `ExpiryIsDue`, from `LifeInv`: within
  one life of the process, and while no address was shared, the record at a
  device's address is its own and has the lifetime it declared and the age of its
  last update from there. That an update renews the right record needs
  `AddrComplete`; one that comes from the address of another device renews that
  device's record, and from then on the address counts as shared. `SenderInv` says
  that only a device that registered sends updates.
- `DispatchProofs`: `TypeCorrect`; `RemoteCallSafe`, that every step of
  `Dispatch` is a step or a stutter of `RemoteCall`, from `Honest`: a 2.xx seen
  anywhere on the way back was sent by the device for that operation;
  `DoneSettled` from `Attended`: an undisturbed operation in flight has a task
  that will look for it where it is. `DeadlinesDisturbed`: only a disturbed
  operation, or a block-wise write, runs into the IPC deadline. Its invariant `Prompt` runs two clocks together:
  an undisturbed small operation is in the channel and has lost no time, or is in flight
  with a task whose waits so far are what the IPC task has waited (`InStep`). The
  waits before the n-th add up to one tick less than the n-th, so the last ends
  in time if 2^MaxRetransmit is at most IpcTimeout: `BackoffAssumption`, by which
  the code has room (2 + 4 + 8 s, and 30 s). The provers know no powers, so the
  assumption says that a table of doubled values exists below IpcTimeout.
- `InclusionProofs`: `TypeCorrect`; `IdsSafe` and `SessionsSafe`, the two index
  pairs; `PhasesApproved` from `ApprovalInv`, which counts an approval that is
  waiting, being turned into a phase, or used; `InclusionComplete` from
  `CompletionInv`: a write phase moves on only from a step that was acknowledged.
- `UploadProofs`: `TypeCorrect`; `ReportsTrue`, that a reported completion is true
  of the device, unless the device said so early. The inductive part: a block on its way ends where the current
  block starts, or is the current block (`BlocksInOrder`), so the device has at
  most what precedes the current block, or that block too (`ReceivedInOrder`),
  and what an acknowledgement says stays true however late it comes (`AcksTrue`).
  That block numbers survive a change of size needs that a smaller block size
  divides a larger one, the assumption on `Sizes`. `OneAtATime` is
  `UploadsExclusive`, from `Guarded`: a block-wise task that runs has its handler
  or its watch behind it, which holds the lock, unless the watch gave up. The step
  that needs proof is the handler's own timeout, which lets the lock go: by then
  the task has ended, since all waits for the first block are shorter (`OnTime`,
  under the same `BackoffAssumption`, with FirstAckTimeout).
- `ConnectivityProofs`: `ConnectivityInvariant` for `ConnectivityInv`, then
  `TypeCorrect`, `OnlineIsRecent`, `OfflineIsCurrent` and `PingsAreBounded`. A
  bound on an age is not inductive: what keeps it is the operation that will end in time. `OnlineInv`
  says that a device silent for the online interval is being probed and that the
  probe, in the channel or under way, is as old as the silence allows; `OfflineInv` that an offline device which
  can be reached was pinged no longer ago than that, or is being probed by an
  operation that did not miss it; `StaleInv` that an operation which did miss it
  cannot mark it offline for more than a tick; `PingInv` that pings are an offline
  interval apart, but for the first.
- `PersistenceProofs`: `PersistenceInvariant` for `PersistenceInv`, then
  `TypeCorrect`, `FilesAreWhole`, `ListIsSaved`, `StatesAreSaved`, `StartupIsConsistent` and
  `DeletionsAreSafe`. What is on disk is tied to memory through the tasks: a file
  that was not disturbed has at most one save, which finds in the temporary file
  what it has put there (`DiskInv`) and was given what memory still holds
  (`ListInv`, `StateInv`, `DeleteInv`); `MainInv` says how far the startup is, and
  that a state file it has passed is of an included device or could not be deleted.
- `OutgoingProofs`: `CallsInvariant` for `CallsInv`, that the calls a task has still
  to make are in order (`Tidy`: each `send_to` after its `set_tclass`);
  `StatusInvariant` for `StatusInv`, then `TypeCorrect`, with the bound of the
  queues, and `ClientsKnowTheStatus`, which is `StatusTold`. The chain from the
  device to the client has three links: a connection_status event is the first
  call a task is given, so that none turns up later (`StatusFirst`); the last event
  sent reports the status, or one that does is under way (`AnnounceInv`); and the
  last event that a client has been told, or will find in its queue, is the last
  one sent, unless it was dropped (`ToldInv`).

So every invariant and every action property of the passing runs is a theorem.
Only model-checked is liveness (`SilentDevicePurged`, `InFlightEnds`, the liveness
half of `ImplementsRemoteCall`, `PhaseEnds`, `SessionEnds`, `UploadEnds`,
`StartedIsReported`): it rests on fairness, hence on when an
action is enabled, which the prover does not reason about. The two runs that end
in a counterexample have no theorem.

## 5. Not modelled

- CBOR, SenML, CRC, key agreement, link-format and JSON parsing: conversions
  without state. What the models keep of them is whether a payload is valid, and
  which of its objects are known.
- The IPSO model: a table that is read, and replaced as a whole on SIGHUP.
- Message ids: the server matches no answer by them. Their reservation for an
  upload matters to the duplicate detection of devices, which is not in this
  repository.
- What a file system does with unsynced data after a power cut.
- Signals, the watchdog and the wiring of the loops in `main`: each ends the
  process, which the models allow at any moment, or hands out channels.
- Configuration, logging, error types, unwinder stubs: no state after the start.
