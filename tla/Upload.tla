------------------------------- MODULE Upload -------------------------------
(***************************************************************************)
(* Firmware upload: handle_fota_write of the command socket, which admits  *)
(* one upload at a time with fota_lock, and dispatch_block_write of the    *)
(* CoAP client, which sends a large payload block by block and waits for   *)
(* each acknowledgement in block_acks.  All blocks of an upload carry the  *)
(* same token, so an acknowledgement is matched to the upload and not to   *)
(* the block.                                                              *)
(*                                                                         *)
(* A payload is a number of units, a unit being the smallest block size.   *)
(* Message ids are left out (the server matches no answer by them), and so *)
(* is the offline mark a failing upload leaves on its device: Dispatch     *)
(* models marking a device offline.                                        *)
(***************************************************************************)
EXTENDS Integers, FiniteSets

CONSTANTS
    Upload,           \* requests to write firmware_update/0/package
    Size,             \* units of a payload above BLOCK_THRESHOLD
    Sizes,            \* block sizes, in units
    BlockSize,        \* the first of them: BLOCK_THRESHOLD, SZX 5
    MAX_RETRANSMIT,
    FirstAckTimeout,  \* ticks of ACK_TIMEOUT_MS: 30 s
    WatchTimeout,     \* ticks: 600 s
    MaxErrors         \* bound on failing calls of send_to

Free == "free"

ASSUME UploadAssumption == Free \notin Upload

\* SZX n is a block of 2^(n + 4) bytes: a smaller size divides a larger one.
ASSUME SizesAssumption ==
    /\ Sizes \subseteq Nat \ {0}
    /\ BlockSize \in Sizes
    /\ \A s, t \in Sizes : s <= t => \E k \in 1 .. t : t = k * s
    /\ Size \in Nat
    /\ BlockSize < Size

ASSUME TimeAssumption ==
    /\ MAX_RETRANSMIT \in Nat \ {0}
    /\ FirstAckTimeout \in Nat \ {0}
    /\ WatchTimeout \in Nat \ {0}
    /\ MaxErrors \in Nat

\* The waits for an acknowledgement double, from one tick on.
Doubles(f) ==
    /\ f[0] = 1
    /\ \A n \in 1 .. MAX_RETRANSMIT : f[n] = 2 * f[n - 1]

\* All waits for one block are together shorter than the wait for the first
\* acknowledgement: 2^MAX_RETRANSMIT is at most FirstAckTimeout (in the code
\* 2 + 4 + 8 s and 30 s).
ASSUME BackoffAssumption ==
    \E f \in [0 .. MAX_RETRANSMIT -> 1 .. FirstAckTimeout] : Doubles(f)

VARIABLES
    fota_lock,   \* the upload that holds the guard, or Free
    ipc,         \* the command handler and the task it leaves behind to watch
    task,        \* dispatch_block_write
    block_acks,  \* uploads whose token is registered for an acknowledgement
    first_ack,   \* the channel first_ack_tx: "none", "ok", "dropped"
    response,    \* the channel response_tx: "none", "ok", "error"
    event,       \* the result event: "none", "completed", "failed"
    expired,     \* history: uploads given up by the watch after WatchTimeout
    blocks,      \* network: blocks sent, which arrive any number of times
    acks,        \* network: acknowledgements, likewise
    received,    \* device: units of each upload assembled so far
    early,       \* history: uploads the device has answered 2.04 before the last block
    errors       \* send errors so far

server  == <<fota_lock, ipc, task, block_acks, first_ack, response, event, expired>>
network == <<blocks, acks, received, early>>
vars    == <<server, network, errors>>

\* An answer is Continue with the block size of the device, the final 2.04, or
\* "refused": any other code, or a reset.
Ack == [code : {"continue", "changed", "refused"}, size : Sizes]
NoAck == [code |-> "none", size |-> 0]

Block == [num : Nat, size : Sizes, len : Nat, more : BOOLEAN]

Handler ==
    [pc : {"idle", "single", "first", "watch", "done"}, left : Nat,
     answer : {"none", "started", "success", "failure"}]
Task ==
    [pc : {"none", "queued", "send", "wait", "done"}, offset : 0 .. Size,
     size : Sizes, retransmits : 0 .. MAX_RETRANSMIT - 1, timeout : Nat,
     left : Nat, ack : Ack \cup {NoAck}]

NewTask(pc) ==
    [pc |-> pc, offset |-> 0, size |-> BlockSize, retransmits |-> 0,
     timeout |-> 1, left |-> 0, ack |-> NoAck]

Init ==
    /\ fota_lock = Free
    /\ ipc = [u \in Upload |-> [pc |-> "idle", left |-> 0, answer |-> "none"]]
    /\ task = [u \in Upload |-> NewTask("none")]
    /\ block_acks = {}
    /\ first_ack = [u \in Upload |-> "none"]
    /\ response = [u \in Upload |-> "none"]
    /\ event = [u \in Upload |-> "none"]
    /\ expired = {}
    /\ blocks = [u \in Upload |-> {}]
    /\ acks = [u \in Upload |-> {}]
    /\ received = [u \in Upload |-> 0]
    /\ early = {}
    /\ errors = 0

Running(u) == task[u].pc \in {"queued", "send", "wait"}

-----------------------------------------------------------------------------
(* The command handler.                                                    *)

Answer(u, a) == ipc' = [ipc EXCEPT ![u] = [pc |-> "done", left |-> 0, answer |-> a]]

\* The device is not connected, the payload is missing or is not base64, or
\* another upload holds the lock.
handle_fota_write_refused(u) ==
    /\ ipc[u].pc = "idle"
    /\ Answer(u, "failure")
    /\ UNCHANGED <<fota_lock, task, block_acks, first_ack, response, event,
                   expired, network, errors>>

\* The lock is taken.  The flush byte and small payloads are one ordinary
\* operation; a larger payload is queued for dispatch.
handle_fota_write(u) ==
    /\ ipc[u].pc = "idle"
    /\ fota_lock = Free
    /\ fota_lock' = u
    /\ \/ /\ ipc' = [ipc EXCEPT ![u].pc = "single", ![u].left = FirstAckTimeout]
          /\ UNCHANGED task
       \/ /\ ipc' = [ipc EXCEPT ![u].pc = "first", ![u].left = FirstAckTimeout]
          /\ task' = [task EXCEPT ![u].pc = "queued"]
    /\ UNCHANGED <<block_acks, first_ack, response, event, expired, network, errors>>

\* send_fota_single: the operation ends as Dispatch says it does, at the latest
\* with its deadline.
send_fota_single(u) ==
    /\ ipc[u].pc = "single"
    /\ fota_lock' = Free
    /\ \E a \in {"success", "failure"} : Answer(u, a)
    /\ UNCHANGED <<task, block_acks, first_ack, response, event, expired, network, errors>>

\* The first Continue arrived: the client is told, the guard moves to a task
\* that watches for the result.
first_ack_received(u) ==
    /\ ipc[u].pc = "first"
    /\ first_ack[u] = "ok"
    /\ ipc' = [ipc EXCEPT ![u] = [pc |-> "watch", left |-> WatchTimeout, answer |-> "started"]]
    /\ UNCHANGED <<fota_lock, task, block_acks, first_ack, response, event,
                   expired, network, errors>>

\* The sender was dropped, or 30 s have passed: the guard is dropped.
first_ack_failed(u) ==
    /\ ipc[u].pc = "first"
    /\ \/ first_ack[u] = "dropped"
       \/ first_ack[u] = "none" /\ ipc[u].left = 0
    /\ fota_lock' = Free
    /\ Answer(u, "failure")
    /\ UNCHANGED <<task, block_acks, first_ack, response, event, expired, network, errors>>

Report(u, e) ==
    /\ Answer(u, ipc[u].answer)
    /\ event' = [event EXCEPT ![u] = e]
    /\ fota_lock' = Free

watch_result(u) ==
    /\ ipc[u].pc = "watch"
    /\ response[u] # "none"
    /\ Report(u, IF response[u] = "ok" THEN "completed" ELSE "failed")
    /\ UNCHANGED <<task, block_acks, first_ack, response, expired, network, errors>>

\* Mutant of watch_timeout: the guard is dropped and nobody is told.
watch_timeout_silent(u) ==
    /\ ipc[u].pc = "watch"
    /\ response[u] = "none"
    /\ ipc[u].left = 0
    /\ Report(u, event[u])
    /\ expired' = expired \cup {u}
    /\ UNCHANGED <<task, block_acks, first_ack, response, network, errors>>

\* 600 s have passed; the block-wise task is not told.
watch_timeout(u) ==
    /\ ipc[u].pc = "watch"
    /\ response[u] = "none"
    /\ ipc[u].left = 0
    /\ Report(u, "failed")
    /\ expired' = expired \cup {u}
    /\ UNCHANGED <<task, block_acks, first_ack, response, network, errors>>

-----------------------------------------------------------------------------
(* dispatch_block_write.                                                   *)

\* The dispatch loop takes the request and spawns the task.
dispatch_op(u) ==
    /\ task[u].pc = "queued"
    /\ task' = [task EXCEPT ![u].pc = "send"]
    /\ UNCHANGED <<fota_lock, ipc, block_acks, first_ack, response, event,
                   expired, network, errors>>

End(u) ==
    LET end == task[u].offset + task[u].size
    IN  IF end < Size THEN end ELSE Size

More(u) == End(u) < Size

\* encode_block1 and the chunk: the block is numbered in units of its size.
NextBlock(u) ==
    [num |-> task[u].offset \div task[u].size, size |-> task[u].size,
     len |-> End(u) - task[u].offset, more |-> More(u)]

\* Register for the acknowledgement, send, wait.
send_block(u) ==
    /\ task[u].pc = "send"
    /\ block_acks' = block_acks \cup {u}
    /\ blocks' = [blocks EXCEPT ![u] = @ \cup {NextBlock(u)}]
    /\ task' = [task EXCEPT ![u].pc = "wait", ![u].left = task[u].timeout]
    /\ UNCHANGED <<fota_lock, ipc, first_ack, response, event, expired,
                   acks, received, early, errors>>

\* The task returns: response_tx has fired, first_ack_tx is dropped if it has
\* not.  Nobody reads what the network still carries of the upload.
Return(u, r) ==
    /\ task' = [task EXCEPT ![u] = NewTask("done")]
    /\ blocks' = [blocks EXCEPT ![u] = {}]
    /\ acks' = [acks EXCEPT ![u] = {}]
    /\ response' = [response EXCEPT ![u] = r]
    /\ first_ack' = [first_ack EXCEPT ![u] = IF @ = "none" THEN "dropped" ELSE @]

\* send_to fails, or the block cannot be encoded.
send_block_fails(u) ==
    /\ task[u].pc = "send"
    /\ errors < MaxErrors
    /\ errors' = errors + 1
    /\ Return(u, "error")
    /\ UNCHANGED <<fota_lock, ipc, block_acks, event, expired, received, early>>

\* Mutant of LastRetransmit: one transmission more.
LastRetransmit_once_more(u) == task[u].retransmits + 1 > MAX_RETRANSMIT

\* retransmits has reached its limit with this timeout.
LastRetransmit(u) == task[u].retransmits + 1 >= MAX_RETRANSMIT

\* Mutant of block_timeout: the retransmission is not counted.
block_timeout_uncounted(u) ==
    /\ task[u].pc = "wait"
    /\ task[u].ack = NoAck
    /\ task[u].left = 0
    /\ block_acks' = block_acks \ {u}
    /\ task' = [task EXCEPT ![u].pc = "send"]
    /\ UNCHANGED <<fota_lock, ipc, first_ack, response, event, expired, network, errors>>

\* The acknowledgement did not come in time: send again, and wait twice as long.
block_timeout(u) ==
    /\ task[u].pc = "wait"
    /\ task[u].ack = NoAck
    /\ task[u].left = 0
    /\ block_acks' = block_acks \ {u}
    /\ IF LastRetransmit(u)
       THEN Return(u, "error")
       ELSE /\ task' = [task EXCEPT ![u].pc = "send", ![u].retransmits = @ + 1,
                                     ![u].timeout = 2 * @]
            /\ UNCHANGED <<first_ack, response, blocks, acks>>
    /\ UNCHANGED <<fota_lock, ipc, event, expired, received, early, errors>>

Smaller(s, t) == IF s < t THEN s ELSE t

\* The block is acknowledged: the next one starts where it ended, in the block
\* size of the device if that is smaller.
Continue(u) ==
    /\ task' = [task EXCEPT ![u] =
                  [NewTask("send") EXCEPT
                     !.offset = End(u),
                     !.size = Smaller(task[u].ack.size, task[u].size)]]
    /\ first_ack' = [first_ack EXCEPT ![u] = "ok"]
    /\ UNCHANGED <<response, blocks, acks>>

\* Mutant of take_ack: a Continue for the last block counts as its completion.
take_ack_last_continue(u) ==
    /\ task[u].pc = "wait"
    /\ task[u].ack # NoAck
    /\ CASE task[u].ack.code = "continue" /\ More(u) -> Continue(u)
         [] task[u].ack.code = "continue" /\ ~More(u) -> Return(u, "ok")
         [] task[u].ack.code = "changed" -> Return(u, "ok")
         [] OTHER -> Return(u, "error")
    /\ UNCHANGED <<fota_lock, ipc, block_acks, event, expired, received, early, errors>>

\* What came through the channel: Continue leads on to the next block, and is
\* an error for the last one; any other answer, or a dropped sender, ends it.
take_ack(u) ==
    /\ task[u].pc = "wait"
    /\ task[u].ack # NoAck
    /\ CASE task[u].ack.code = "continue" /\ More(u) -> Continue(u)
         [] task[u].ack.code = "changed" -> Return(u, "ok")
         [] OTHER -> Return(u, "error")
    /\ UNCHANGED <<fota_lock, ipc, block_acks, event, expired, received, early, errors>>

\* handle_ack and the reset handler of the server: the entry is removed, and
\* the waiting task gets the packet (or, for a reset, a dropped sender).  An
\* answer nobody waits for is ignored.
handle_ack(u) ==
    /\ u \in block_acks
    /\ block_acks' = block_acks \ {u}
    /\ \E a \in acks[u] : task' = [task EXCEPT ![u].ack = a]
    /\ UNCHANGED <<fota_lock, ipc, first_ack, response, event, expired, network, errors>>

-----------------------------------------------------------------------------
(* The device assembles consecutive blocks (RFC 7959); it may refuse any.  *)
(* It answers the last block with 2.04 and the others with Continue, or, a *)
(* stateless server acting on each block by itself, any block with 2.04.   *)

Offset(b) == b.num * b.size

Answered(u, code, s) == acks' = [acks EXCEPT ![u] = @ \cup {[code |-> code, size |-> s]}]

device_accepts(u, b) ==
    /\ Offset(b) <= received[u]
    /\ received' = [received EXCEPT ![u] =
                      IF Offset(b) = received[u] THEN @ + b.len ELSE @]
    /\ \/ /\ b.more
          /\ \E s \in Sizes : s <= b.size /\ Answered(u, "continue", s)
          /\ UNCHANGED early
       \/ /\ Answered(u, "changed", BlockSize)
          /\ early' = IF b.more THEN early \cup {u} ELSE early

device_refuses(u) ==
    /\ Answered(u, "refused", BlockSize)
    /\ UNCHANGED <<received, early>>

device(u) ==
    /\ \E b \in blocks[u] : device_accepts(u, b) \/ device_refuses(u)
    /\ UNCHANGED <<server, blocks, errors>>

-----------------------------------------------------------------------------
(* Time passes while every task waits; a timer at zero has fired.          *)

Waiting(u) ==
    /\ ~(ipc[u].pc \in {"single", "first", "watch"} /\ ipc[u].left = 0)
    /\ ~(ipc[u].pc = "first" /\ first_ack[u] # "none")
    /\ ~(ipc[u].pc = "watch" /\ response[u] # "none")
    /\ task[u].pc \notin {"queued", "send"}
    /\ ~(task[u].pc = "wait" /\ (task[u].left = 0 \/ task[u].ack # NoAck))

Less(n) == IF n = 0 THEN 0 ELSE n - 1

Tick ==
    /\ \A u \in Upload : Waiting(u)
    /\ ipc' = [u \in Upload |-> [ipc[u] EXCEPT !.left = Less(@)]]
    /\ task' = [u \in Upload |-> [task[u] EXCEPT !.left = Less(@)]]
    /\ UNCHANGED <<fota_lock, block_acks, first_ack, response, event, expired, network, errors>>

IpcStep(u) ==
    \/ send_fota_single(u)
    \/ first_ack_received(u)
    \/ first_ack_failed(u)
    \/ watch_result(u)
    \/ watch_timeout(u)

TaskStep(u) ==
    \/ dispatch_op(u)
    \/ send_block(u)
    \/ send_block_fails(u)
    \/ block_timeout(u)
    \/ take_ack(u)

Next ==
    \/ \E u \in Upload :
         \/ handle_fota_write(u)
         \/ handle_fota_write_refused(u)
         \/ IpcStep(u)
         \/ TaskStep(u)
         \/ handle_ack(u)
         \/ device(u)
    \/ Tick

Spec == Init /\ [][Next]_vars

\* The runtime polls every task that can go on, and time passes.  Nothing is
\* assumed of the network, the device or the clients.
FairSpec ==
    /\ Spec
    /\ \A u \in Upload : WF_vars(IpcStep(u)) /\ WF_vars(TaskStep(u))
    /\ WF_vars(Tick)

-----------------------------------------------------------------------------
(* Properties.                                                             *)

\* Types; offsets stay within the payload and retransmissions below the limit.
TypeOK ==
    /\ fota_lock \in Upload \cup {Free}
    /\ ipc \in [Upload -> Handler]
    /\ task \in [Upload -> Task]
    /\ block_acks \subseteq Upload
    /\ first_ack \in [Upload -> {"none", "ok", "dropped"}]
    /\ response \in [Upload -> {"none", "ok", "error"}]
    /\ event \in [Upload -> {"none", "completed", "failed"}]
    /\ expired \subseteq Upload
    /\ blocks \in [Upload -> SUBSET Block]
    /\ acks \in [Upload -> SUBSET Ack]
    /\ received \in [Upload -> 0 .. Size]
    /\ early \subseteq Upload
    /\ errors \in 0 .. MaxErrors

\* What the client is told is true of the device, though acknowledgements are
\* repeated, come late and name no block: an upload announced as completed
\* (send_fota_result) has been assembled to the last unit, unless the device
\* itself has called it done before the last block, which dispatch_block_write
\* takes at its word ("Block write complete"); and one answered with success
\* (the first Continue in handle_fota_write) has begun.
CompleteMeansReceived ==
    \A u \in Upload :
       /\ response[u] = "ok" \/ event[u] = "completed" =>
            received[u] > 0 /\ (received[u] = Size \/ u \in early)
       /\ ipc[u].answer = "started" => received[u] > 0

\* fota_lock keeps a second upload out as long as blocks of the first may still
\* be sent, unless the watch has given the first up after 600 s: the 30 s wait
\* for the first acknowledgement never ends before the block task does.
UploadsExclusive ==
    \A u, v \in Upload :
       u # v /\ Running(u) /\ Running(v) => {u, v} \cap expired # {}

\* No upload holds fota_lock or keeps sending blocks for ever, whatever the
\* device and the network do.
UploadEnds ==
    \A u \in Upload :
       (fota_lock = u \/ Running(u)) ~> (fota_lock # u /\ ~Running(u))

\* A client told that its upload has started is told in the end how it went.
StartedIsReported ==
    \A u \in Upload : ipc[u].answer = "started" ~> event[u] # "none"
=============================================================================
