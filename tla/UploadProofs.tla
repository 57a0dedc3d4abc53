---------------------------- MODULE UploadProofs ----------------------------
(***************************************************************************)
(* What a client is told of a firmware upload is true of the device, for   *)
(* every payload size, every set of block sizes of which the smaller       *)
(* divide the larger, any number of uploads and any timeouts.              *)
(*                                                                         *)
(* The argument: the blocks of an upload in the network either end where   *)
(* the current block starts or are the current block, so the device has    *)
(* assembled either no more than what precedes the current block or all    *)
(* of it as well; an acknowledgement, however late, therefore says nothing *)
(* of the device that is not still true.  Only a device that calls the     *)
(* upload done before the last block is believed without having it.        *)
(*                                                                         *)
(* And no two uploads run at once before the watch has given one up: the   *)
(* waits for the first block end before the handler's own wait does.       *)
(***************************************************************************)
EXTENDS Upload, TLAPS

\* Most leaves are first-order reasoning; the others name SMT.
USE Zenon

Divides(s, n) == \E k \in Nat : n = k * s

\* The current block starts within the payload, at a multiple of its size.
Aligned(u) ==
    task[u].pc # "done" => task[u].offset < Size /\ Divides(task[u].size, task[u].offset)

\* A block on its way ends where the current one starts, or is the current one.
BlocksInOrder(u) ==
    \A b \in blocks[u] :
       /\ 0 < b.len
       /\ Offset(b) + b.len <= Size
       /\ b.more <=> Offset(b) + b.len < Size
       /\ \/ Offset(b) + b.len <= task[u].offset
          \/ Offset(b) = task[u].offset /\ Offset(b) + b.len = End(u)

\* The device has what precedes the current block at most, or that block too.
ReceivedInOrder(u) ==
    task[u].pc # "done" => received[u] <= task[u].offset \/ received[u] = End(u)

\* The device has the payload, or has itself called the upload done early.
Complete(u) == received[u] > 0 /\ (received[u] = Size \/ u \in early)

\* What an acknowledgement says of the device is true of it.
AcksTrue(u) ==
    \A a \in acks[u] \cup {task[u].ack} :
       /\ a.code = "changed" => Complete(u)
       /\ a.code = "continue" => received[u] > 0

\* The upload of a task that has returned is over, and no task runs before the
\* handler has started it.
Returned(u) ==
    /\ task[u].pc = "done" => blocks[u] = {} /\ acks[u] = {} /\ task[u].ack = NoAck
    /\ response[u] # "none" => task[u].pc = "done"
    /\ ipc[u].pc = "idle" => task[u].pc = "none"

\* What the client is told comes from the channels of the task.
Told(u) ==
    /\ response[u] = "ok" => Complete(u)
    /\ event[u] = "completed" => response[u] = "ok"
    /\ first_ack[u] = "ok" => received[u] > 0
    /\ ipc[u].answer = "started" => first_ack[u] = "ok"

Local(u) ==
    /\ Aligned(u)
    /\ BlocksInOrder(u)
    /\ ReceivedInOrder(u)
    /\ AcksTrue(u)
    /\ Returned(u)
    /\ Told(u)

IInv == TypeOK /\ \A u \in Upload : Local(u)

-----------------------------------------------------------------------------
(* Arithmetic of block numbers.                                            *)

\* The linear part of what is assumed of sizes.
LEMMA SizeFacts ==
    /\ \A s \in Sizes : s \in Nat /\ s > 0
    /\ BlockSize \in Sizes
    /\ BlockSize < Size
    /\ Size \in Nat
    /\ MAX_RETRANSMIT \in Nat \ {0}
<1>1. Sizes \subseteq Nat \ {0} /\ BlockSize \in Sizes /\ Size \in Nat /\ BlockSize < Size
  BY SizesAssumption
<1> QED  BY SMT, <1>1, TimeAssumption

\* A block number times the block size is the offset it was computed from.
LEMMA NumberTimesSize ==
    ASSUME NEW s \in Nat \ {0}, NEW n \in Nat, Divides(s, n)
    PROVE  n \div s \in Nat /\ (n \div s) * s = n
<1>1. PICK k \in Nat : n = k * s  BY DEF Divides
<1>2. (k * s) \div s = k  BY SMT
<1> QED  BY <1>1, <1>2

\* The end of a full block is a multiple of its size, and of every smaller one.
LEMMA NextAligned ==
    ASSUME NEW s \in Sizes, NEW t \in Sizes, t <= s, NEW n \in Nat, Divides(s, n)
    PROVE  Divides(t, n + s)
<1>0. s \in Nat /\ t \in Nat  BY SizesAssumption
<1>1. PICK k \in Nat : n = k * s  BY DEF Divides
<1>2. PICK m \in 1 .. s : s = m * t  BY SizesAssumption
<1>3. m \in Nat /\ (k + 1) * m \in Nat  BY SMT, <1>0
<1>4. n + s = (k + 1) * s  BY SMT, <1>0, <1>1
<1>5. (k + 1) * (m * t) = ((k + 1) * m) * t  BY SMT, <1>0, <1>3
<1> QED  BY <1>2, <1>3, <1>4, <1>5 DEF Divides

\* The current block: where it ends and what of it is sent.
LEMMA CurrentBlock ==
    ASSUME TypeOK, NEW u \in Upload, Aligned(u), task[u].pc # "done"
    PROVE  /\ End(u) \in 1 .. Size
           /\ task[u].offset < End(u)
           /\ More(u) => End(u) = task[u].offset + task[u].size
           /\ NextBlock(u) \in Block
           /\ Offset(NextBlock(u)) = task[u].offset
           /\ Offset(NextBlock(u)) + NextBlock(u).len = End(u)
           /\ NextBlock(u).len > 0
           /\ NextBlock(u).more <=> End(u) < Size
<1> DEFINE o == task[u].offset
           s == task[u].size
<1>0. task[u] \in Task  BY DEF TypeOK
<1>1. o \in Nat /\ s \in Nat \ {0} /\ s \in Sizes /\ Size \in Nat /\ o < Size
  BY SMT, <1>0, SizeFacts DEF Task, Aligned
<1>2. End(u) = IF o + s < Size THEN o + s ELSE Size  BY DEF End
<1>3. /\ End(u) \in 1 .. Size
      /\ o < End(u)
      /\ More(u) => End(u) = o + s
      /\ End(u) \in Nat
  BY SMT, <1>1, <1>2 DEF More
<1>4. o \div s \in Nat /\ (o \div s) * s = o  BY <1>1, NumberTimesSize DEF Aligned
<1>5. NextBlock(u) = [num |-> o \div s, size |-> s, len |-> End(u) - o, more |-> More(u)]
  BY DEF NextBlock
<1>6. Offset(NextBlock(u)) = o  BY SMT, <1>4, <1>5 DEF Offset
<1>7. NextBlock(u).len = End(u) - o /\ NextBlock(u).more = (End(u) < Size)
  BY SMT, <1>5 DEF More
<1>8. NextBlock(u) \in Block  BY SMT, <1>1, <1>3, <1>4, <1>5 DEF Block, More
<1>9. Offset(NextBlock(u)) + NextBlock(u).len = End(u) /\ NextBlock(u).len > 0
  BY SMT, <1>1, <1>3, <1>6, <1>7
<1> QED  BY <1>3, <1>6, <1>7, <1>8, <1>9

\* What is stated of one upload depends on its own state only.
LEMMA OthersKept ==
    ASSUME NEW v \in Upload, Local(v),
           task'[v] = task[v], blocks'[v] = blocks[v], acks'[v] = acks[v],
           received'[v] = received[v], v \in early' <=> v \in early,
           response'[v] = response[v],
           first_ack'[v] = first_ack[v], event'[v] = event[v],
           ipc'[v].pc = ipc[v].pc, ipc'[v].answer = ipc[v].answer
    PROVE  Local(v)'
BY SMT DEF Local, Aligned, BlocksInOrder, ReceivedInOrder, AcksTrue, Complete, Returned, Told, End, Divides

\* A step of a task within its current block, which may have taken an answer
\* from the network.
LEMMA SameBlock ==
    ASSUME NEW v \in Upload, Local(v),
           task'[v].offset = task[v].offset, task'[v].size = task[v].size,
           task'[v].ack \in acks[v] \cup {task[v].ack},
           task'[v].pc = "done" <=> task[v].pc = "done",
           task[v].pc = "none" => task'[v].pc = "none",
           blocks'[v] = blocks[v], acks'[v] = acks[v],
           received'[v] = received[v], v \in early' <=> v \in early,
           response'[v] = response[v],
           first_ack'[v] = first_ack[v], event'[v] = event[v],
           ipc'[v].pc = ipc[v].pc, ipc'[v].answer = ipc[v].answer
    PROVE  Local(v)'
<1>1. End(v)' = End(v)  BY DEF End
<1>2. Aligned(v)' /\ ReceivedInOrder(v)'
  BY <1>1 DEF Local, Aligned, ReceivedInOrder, Divides
<1>3. BlocksInOrder(v)'  BY <1>1 DEF Local, BlocksInOrder, Offset
<1>4. AcksTrue(v)'  BY DEF Local, AcksTrue, Complete
<1>5. Returned(v)' /\ Told(v)'  BY DEF Local, Returned, Told, Complete
<1> QED  BY <1>2, <1>3, <1>4, <1>5 DEF Local

-----------------------------------------------------------------------------
(* Each kind of step keeps the types and what is stated of its upload.     *)

\* A task starts well typed.
LEMMA NewTaskTyped ==
    ASSUME NEW pc \in {"none", "queued", "send", "wait", "done"}
    PROVE  NewTask(pc) \in Task
BY SMT, SizeFacts DEF NewTask, Task

\* The start of an upload, and of its task, leave the transfer alone.
LEMMA StartStep ==
    ASSUME IInv, NEW u \in Upload, handle_fota_write(u) \/ dispatch_op(u)
    PROVE  IInv'
<1> USE DEF IInv
<1>0. ipc \in [Upload -> Handler] /\ task \in [Upload -> Task]  BY DEF TypeOK
<1>1. PICK pc \in {"queued", "send", task[u].pc} :
        /\ task' = [task EXCEPT ![u].pc = pc]
        /\ pc = task[u].pc \/ (pc = "queued" /\ ipc[u].pc = "idle") \/ task[u].pc = "queued"
  <2>1. task = [task EXCEPT ![u].pc = task[u].pc]  BY <1>0 DEF Task
  <2> QED  BY <2>1 DEF handle_fota_write, dispatch_op
<1>2. /\ UNCHANGED <<block_acks, first_ack, response, event, expired, blocks, acks, received, early, errors>>
      /\ fota_lock' \in {fota_lock, u}
  BY DEF handle_fota_write, dispatch_op, network
<1>3. /\ ipc' \in [Upload -> Handler]
      /\ \A v \in Upload : ipc'[v].answer = ipc[v].answer
      /\ \A v \in Upload : v # u => ipc'[v] = ipc[v]
      /\ ipc'[u].pc = "idle" => ipc[u].pc = "idle" /\ task' = task
  BY SMT, <1>0, TimeAssumption DEF handle_fota_write, dispatch_op, Handler, Local, Returned
<1>4. task' \in [Upload -> Task]  BY SMT, <1>0, <1>1 DEF Task
<1>5. TypeOK'  BY <1>2, <1>3, <1>4 DEF TypeOK
<1>6. ASSUME NEW v \in Upload, v # u  PROVE Local(v)'
  <2>1. task'[v] = task[v]  BY <1>0, <1>1, <1>6
  <2> QED  BY <2>1, <1>2, <1>3, <1>6, OthersKept
<1>7. Local(u)'
  <2>1. /\ task'[u].offset = task[u].offset /\ task'[u].size = task[u].size
        /\ task'[u].ack = task[u].ack /\ task'[u].pc = pc
    BY <1>0, <1>1 DEF Task
  <2>2. task[u].pc = "done" <=> pc = "done"  BY <1>1 DEF Local, Returned
  <2>3. End(u)' = End(u)  BY <2>1 DEF End
  <2>4. Aligned(u)' /\ ReceivedInOrder(u)'
    BY <1>2, <2>1, <2>2, <2>3 DEF Local, Aligned, ReceivedInOrder, Divides
  <2>5. BlocksInOrder(u)'  BY <1>2, <2>1, <2>3 DEF Local, BlocksInOrder, Offset
  <2>6. AcksTrue(u)' /\ Told(u)'  BY SMT, <1>2, <1>3, <2>1 DEF Local, AcksTrue, Complete, Told
  <2>7. Returned(u)'  BY <1>2, <1>3, <2>1, <2>2 DEF Local, Returned
  <2> QED  BY <2>4, <2>5, <2>6, <2>7 DEF Local
<1> QED  BY <1>5, <1>6, <1>7

\* The handler and the watch tell the client what the channels say.
LEMMA HandlerStep ==
    ASSUME IInv, NEW u \in Upload, handle_fota_write_refused(u) \/ IpcStep(u)
    PROVE  IInv'
<1> USE DEF IInv
<1>0. ipc \in [Upload -> Handler] /\ event \in [Upload -> {"none", "completed", "failed"}]
  BY DEF TypeOK
<1>1. /\ UNCHANGED <<task, block_acks, first_ack, response, blocks, acks, received, early, errors>>
      /\ fota_lock' \in {fota_lock, Free}
      /\ expired' \in {expired, expired \cup {u}}
  BY DEF handle_fota_write_refused, IpcStep, send_fota_single, first_ack_received,
         first_ack_failed, watch_result, watch_timeout, Report, network
<1>2. \E h \in Handler :
        /\ ipc' = [ipc EXCEPT ![u] = h]
        /\ h.pc # "idle"
        /\ h.answer = "started" => first_ack[u] = "ok"
  <2>1. ipc[u] \in Handler /\ (ipc[u].answer = "started" => first_ack[u] = "ok")
    BY <1>0 DEF Local, Told
  <2>2. \A a \in {"none", "started", "success", "failure"} :
          [pc |-> "done", left |-> 0, answer |-> a] \in Handler
    BY DEF Handler
  <2>3. [pc |-> "watch", left |-> WatchTimeout, answer |-> "started"] \in Handler
    BY TimeAssumption DEF Handler
  <2>4. ipc[u].answer \in {"none", "started", "success", "failure"}  BY <2>1 DEF Handler
  <2>5. CASE first_ack_received(u)  BY <2>3, <2>5 DEF first_ack_received
  <2>6. CASE watch_result(u) \/ watch_timeout(u)
    BY <2>1, <2>2, <2>4, <2>6 DEF watch_result, watch_timeout, Report, Answer
  <2>7. CASE handle_fota_write_refused(u) \/ send_fota_single(u) \/ first_ack_failed(u)
    BY <2>2, <2>7 DEF handle_fota_write_refused, send_fota_single, first_ack_failed, Answer
  <2> QED  BY <2>5, <2>6, <2>7 DEF IpcStep
<1>3. \E e \in {"none", "completed", "failed"} :
        /\ event' = [event EXCEPT ![u] = e]
        /\ e = "completed" => response[u] = "ok"
  <2>1. event = [event EXCEPT ![u] = event[u]]  BY <1>0
  <2>2. event[u] = "completed" => response[u] = "ok"  BY DEF Local, Told
  <2> QED
    BY <1>0, <2>1, <2>2 DEF handle_fota_write_refused, IpcStep, send_fota_single,
         first_ack_received, first_ack_failed, watch_result, watch_timeout, Report
<1>4. TypeOK'  BY SMT, <1>1, <1>2, <1>3 DEF TypeOK
<1>5. ASSUME NEW v \in Upload, v # u  PROVE Local(v)'
  BY <1>0, <1>1, <1>2, <1>3, <1>5, OthersKept
<1>6. Local(u)'
  <2>1. ipc'[u].pc # "idle" /\ (ipc'[u].answer = "started" => first_ack[u] = "ok")
    BY SMT, <1>0, <1>2
  <2>2. event'[u] = "completed" => response[u] = "ok"  BY <1>0, <1>3
  <2>3. Aligned(u)' /\ ReceivedInOrder(u)' /\ BlocksInOrder(u)' /\ AcksTrue(u)'
    BY <1>1 DEF Local, Aligned, ReceivedInOrder, BlocksInOrder, AcksTrue, Complete, End, Divides
  <2>4. Returned(u)' /\ Told(u)'  BY <1>1, <2>1, <2>2 DEF Local, Returned, Told, Complete
  <2> QED  BY <2>3, <2>4 DEF Local
<1> QED  BY <1>4, <1>5, <1>6

\* A task returns: an upload it calls complete has been received.
LEMMA ReturnStep ==
    ASSUME IInv, NEW u \in Upload, NEW r \in {"ok", "error"}, Return(u, r),
           r = "ok" => Complete(u),
           task[u].pc \in {"send", "wait"},
           UNCHANGED <<fota_lock, ipc, event, expired, received, early>>,
           block_acks' \in SUBSET Upload, errors' \in 0 .. MaxErrors
    PROVE  IInv'
<1> USE DEF IInv
<1>0. /\ task \in [Upload -> Task] /\ response \in [Upload -> {"none", "ok", "error"}]
      /\ first_ack \in [Upload -> {"none", "ok", "dropped"}]
      /\ blocks \in [Upload -> SUBSET Block] /\ acks \in [Upload -> SUBSET Ack]
  BY DEF TypeOK
<1>1. /\ task' = [task EXCEPT ![u] = NewTask("done")]
      /\ blocks' = [blocks EXCEPT ![u] = {}]
      /\ acks' = [acks EXCEPT ![u] = {}]
      /\ response' = [response EXCEPT ![u] = r]
      /\ first_ack' = [first_ack EXCEPT ![u] = IF @ = "none" THEN "dropped" ELSE @]
  BY DEF Return
<1>2. /\ task' \in [Upload -> Task] /\ response' \in [Upload -> {"none", "ok", "error"}]
      /\ first_ack' \in [Upload -> {"none", "ok", "dropped"}]
      /\ blocks' \in [Upload -> SUBSET Block] /\ acks' \in [Upload -> SUBSET Ack]
  BY <1>0, <1>1, NewTaskTyped
<1>3. TypeOK'  BY <1>2 DEF TypeOK
<1>4. ASSUME NEW v \in Upload, v # u  PROVE Local(v)'
  BY <1>0, <1>1, <1>4, OthersKept
<1>5. Local(u)'
  <2>1. task'[u].pc = "done" /\ task'[u].ack = NoAck /\ blocks'[u] = {} /\ acks'[u] = {}
    BY <1>0, <1>1 DEF NewTask
  <2>2. response'[u] = r /\ (first_ack'[u] = "ok" <=> first_ack[u] = "ok")  BY <1>0, <1>1
  <2>3. Aligned(u)' /\ ReceivedInOrder(u)' /\ BlocksInOrder(u)'
    BY <2>1 DEF Aligned, ReceivedInOrder, BlocksInOrder
  <2>4. AcksTrue(u)'  BY SMT, <2>1 DEF AcksTrue, NoAck
  <2>5. response[u] = "none"  BY DEF Local, Returned
  <2>6. Returned(u)'  BY <2>1 DEF Local, Returned
  <2>7. event[u] = "completed" => r = "ok"
    BY <2>5 DEF Local, Told
  <2>8. Told(u)'  BY <2>2, <2>7 DEF Local, Told, Complete
  <2> QED  BY <2>3, <2>4, <2>6, <2>8 DEF Local
<1> QED  BY <1>3, <1>4, <1>5

\* A block is sent, or its timeout makes the task send it again.
LEMMA SendStep ==
    ASSUME IInv, NEW u \in Upload, send_block(u)
    PROVE  IInv'
<1> USE DEF IInv
<1>0. task \in [Upload -> Task] /\ blocks \in [Upload -> SUBSET Block]  BY DEF TypeOK
<1>1. /\ task[u].pc = "send"
      /\ blocks' = [blocks EXCEPT ![u] = @ \cup {NextBlock(u)}]
      /\ task' = [task EXCEPT ![u].pc = "wait", ![u].left = task[u].timeout]
      /\ UNCHANGED <<fota_lock, ipc, first_ack, response, event, expired, acks, received, early, errors>>
      /\ block_acks' = block_acks \cup {u}
  BY DEF send_block
<1>2. Aligned(u) /\ task[u].pc # "done"  BY <1>1 DEF Local
<1>3. /\ NextBlock(u) \in Block
      /\ Offset(NextBlock(u)) = task[u].offset
      /\ Offset(NextBlock(u)) + NextBlock(u).len = End(u)
      /\ NextBlock(u).len > 0
      /\ NextBlock(u).more <=> End(u) < Size
      /\ End(u) \in 1 .. Size
  BY <1>2, CurrentBlock
<1>4. task' \in [Upload -> Task] /\ blocks' \in [Upload -> SUBSET Block]
  <2>1. \A t \in Task : [t EXCEPT !.pc = "wait", !.left = t.timeout] \in Task  BY DEF Task
  <2>2. task' = [task EXCEPT ![u] = [task[u] EXCEPT !.pc = "wait", !.left = task[u].timeout]]
    BY <1>0, <1>1
  <2>3. task' \in [Upload -> Task]  BY <1>0, <2>1, <2>2
  <2> QED  BY <1>0, <1>1, <1>3, <2>3
<1>5. TypeOK'  BY <1>1, <1>4 DEF TypeOK
<1>6. ASSUME NEW v \in Upload, v # u  PROVE Local(v)'
  BY <1>0, <1>1, <1>6, OthersKept
<1>7. Local(u)'
  <2>1. /\ task'[u].offset = task[u].offset /\ task'[u].size = task[u].size
        /\ task'[u].ack = task[u].ack /\ task'[u].pc = "wait"
    BY <1>0, <1>1 DEF Task
  <2>2. End(u)' = End(u)  BY <2>1 DEF End
  <2>3. Aligned(u)' /\ ReceivedInOrder(u)'
    BY <1>1, <2>1, <2>2 DEF Local, Aligned, ReceivedInOrder, Divides
  <2>4. BlocksInOrder(u)'
    <3> SUFFICES ASSUME NEW b \in blocks'[u]
                 PROVE  /\ 0 < b.len
                        /\ Offset(b) + b.len <= Size
                        /\ b.more <=> Offset(b) + b.len < Size
                        /\ \/ Offset(b) + b.len <= task[u].offset
                           \/ Offset(b) = task[u].offset /\ Offset(b) + b.len = End(u)
      BY <2>1, <2>2 DEF BlocksInOrder, Offset
    <3>1. b \in blocks[u] \/ b = NextBlock(u)  BY <1>0, <1>1
    <3>2. CASE b \in blocks[u]  BY <3>2 DEF Local, BlocksInOrder
    <3>3. CASE b = NextBlock(u)  BY SMT, <1>3, <3>3, SizeFacts
    <3> QED  BY <3>1, <3>2, <3>3
  <2>5. AcksTrue(u)' /\ Told(u)'  BY <1>1, <2>1 DEF Local, AcksTrue, Complete, Told
  <2>6. Returned(u)'  BY <1>1, <2>1 DEF Local, Returned
  <2> QED  BY <2>3, <2>4, <2>5, <2>6 DEF Local
<1> QED  BY <1>5, <1>6, <1>7

\* A timeout: the block is sent again, or the task returns with an error.
LEMMA TimeoutStep ==
    ASSUME IInv, NEW u \in Upload, block_timeout(u)
    PROVE  IInv'
<1> USE DEF IInv
<1>0. task \in [Upload -> Task] /\ block_acks' \in SUBSET Upload /\ errors' \in 0 .. MaxErrors
  BY DEF TypeOK, block_timeout
<1>1. /\ task[u].pc = "wait"
      /\ UNCHANGED <<fota_lock, ipc, event, expired, received, early, errors>>
  BY DEF block_timeout
<1>2. CASE LastRetransmit(u)
  <2>1. Return(u, "error")  BY <1>2 DEF block_timeout
  <2> QED  BY <1>0, <1>1, <2>1, ReturnStep
<1>3. CASE ~LastRetransmit(u)
  <2>1. /\ task' = [task EXCEPT ![u].pc = "send", ![u].retransmits = @ + 1, ![u].timeout = 2 * @]
        /\ UNCHANGED <<first_ack, response, blocks, acks>>
    BY <1>3 DEF block_timeout
  <2>2. task[u].retransmits + 1 \in 0 .. MAX_RETRANSMIT - 1 /\ 2 * task[u].timeout \in Nat
    <3>1. task[u].retransmits \in Nat /\ task[u].timeout \in Nat  BY SMT, <1>0, SizeFacts DEF Task
    <3> QED  BY SMT, <3>1, <1>3, SizeFacts DEF LastRetransmit
  <2>3. task' \in [Upload -> Task]  BY SMT, <1>0, <2>1, <2>2 DEF Task
  <2>4. TypeOK'  BY <1>0, <1>1, <2>1, <2>3 DEF TypeOK
  <2>5. ASSUME NEW v \in Upload, v # u  PROVE Local(v)'
    BY <1>0, <1>1, <2>1, <2>5, OthersKept
  <2>6. /\ task'[u].offset = task[u].offset /\ task'[u].size = task[u].size
        /\ task'[u].ack = task[u].ack /\ task'[u].pc = "send"
    BY <1>0, <2>1 DEF Task
  <2>7. Local(u)'  BY <1>1, <2>1, <2>6, SameBlock
  <2> QED  BY <2>4, <2>5, <2>7
<1> QED  BY <1>2, <1>3

\* The server hands an acknowledgement to the task that waits for one.
LEMMA AckStep ==
    ASSUME IInv, NEW u \in Upload, handle_ack(u)
    PROVE  IInv'
<1> USE DEF IInv
<1>0. task \in [Upload -> Task] /\ acks \in [Upload -> SUBSET Ack]  BY DEF TypeOK
<1>1. PICK a \in acks[u] : task' = [task EXCEPT ![u].ack = a]  BY DEF handle_ack
<1>2. /\ UNCHANGED <<fota_lock, ipc, first_ack, response, event, expired, blocks, acks, received, early, errors>>
      /\ block_acks' = block_acks \ {u}
  BY DEF handle_ack, network
<1>3. task' \in [Upload -> Task]  BY SMT, <1>0, <1>1 DEF Task
<1>4. TypeOK'  BY <1>2, <1>3 DEF TypeOK
<1>5. ASSUME NEW v \in Upload, v # u  PROVE Local(v)'
  BY <1>0, <1>1, <1>2, <1>5, OthersKept
<1>6. /\ task'[u].offset = task[u].offset /\ task'[u].size = task[u].size
      /\ task'[u].ack = a /\ task'[u].pc = task[u].pc
  BY <1>0, <1>1 DEF Task
<1>7. Local(u)'  BY <1>1, <1>2, <1>6, SameBlock
<1> QED  BY <1>4, <1>5, <1>7

\* Time passes.
LEMMA TickStep ==
    ASSUME IInv, Tick
    PROVE  IInv'
<1> USE DEF IInv
<1>0. ipc \in [Upload -> Handler] /\ task \in [Upload -> Task]  BY DEF TypeOK
<1>1. /\ ipc' = [u \in Upload |-> [ipc[u] EXCEPT !.left = Less(ipc[u].left)]]
      /\ task' = [u \in Upload |-> [task[u] EXCEPT !.left = Less(task[u].left)]]
      /\ UNCHANGED <<fota_lock, block_acks, first_ack, response, event, expired,
                     blocks, acks, received, early, errors>>
  BY DEF Tick, network
<1>2. \A n \in Nat : Less(n) \in Nat  BY SMT DEF Less
<1>3. ipc' \in [Upload -> Handler] /\ task' \in [Upload -> Task]
  <2>1. \A h \in Handler : [h EXCEPT !.left = Less(h.left)] \in Handler  BY <1>2 DEF Handler
  <2>2. \A t \in Task : [t EXCEPT !.left = Less(t.left)] \in Task  BY <1>2 DEF Task
  <2> QED  BY <1>0, <1>1, <2>1, <2>2
<1>4. TypeOK'  BY <1>1, <1>3 DEF TypeOK
<1>5. ASSUME NEW v \in Upload  PROVE Local(v)'
  <2>1. /\ task'[v].offset = task[v].offset /\ task'[v].size = task[v].size
        /\ task'[v].ack = task[v].ack /\ task'[v].pc = task[v].pc
        /\ ipc'[v].pc = ipc[v].pc /\ ipc'[v].answer = ipc[v].answer
    BY SMT, <1>0, <1>1 DEF Task, Handler
  <2> QED  BY <1>1, <2>1, SameBlock
<1> QED  BY <1>4, <1>5

\* A Continue moves on to the next block, which the device then has up to.
LEMMA ContinueStep ==
    ASSUME IInv, NEW u \in Upload, Continue(u), More(u),
           task[u].pc = "wait", task[u].ack.code = "continue",
           UNCHANGED <<fota_lock, ipc, block_acks, event, expired, received, early, errors>>
    PROVE  IInv'
<1> USE DEF IInv
<1> DEFINE s == Smaller(task[u].ack.size, task[u].size)
<1>0. /\ task \in [Upload -> Task] /\ first_ack \in [Upload -> {"none", "ok", "dropped"}]
      /\ received \in [Upload -> 0 .. Size] /\ blocks \in [Upload -> SUBSET Block]
  BY DEF TypeOK
<1>1. /\ task' = [task EXCEPT ![u] = [NewTask("send") EXCEPT !.offset = End(u), !.size = s]]
      /\ first_ack' = [first_ack EXCEPT ![u] = "ok"]
      /\ UNCHANGED <<response, blocks, acks>>
  BY DEF Continue
<1>2. Aligned(u) /\ task[u].pc # "done"  BY DEF Local
<1>3. /\ End(u) \in 1 .. Size /\ task[u].offset < End(u)
      /\ End(u) = task[u].offset + task[u].size
  BY <1>2, CurrentBlock
<1>4. End(u) < Size  BY DEF More
<1>5. task[u].size \in Sizes /\ task[u].ack.size \in Sizes /\ task[u].offset \in Nat
  <2>1. task[u] \in Task  BY <1>0
  <2>2. task[u].ack \in Ack  BY SMT, <2>1 DEF Task, NoAck
  <2> QED  BY SMT, <2>1, <2>2, SizeFacts DEF Task, Ack
<1>6. s \in Sizes /\ s <= task[u].size  BY SMT, <1>5, SizeFacts DEF Smaller
<1>7. Divides(s, End(u))
  <2>1. Divides(task[u].size, task[u].offset)  BY <1>2 DEF Aligned
  <2> QED  BY <1>3, <1>5, <1>6, <2>1, NextAligned
<1>8. [NewTask("send") EXCEPT !.offset = End(u), !.size = s] \in Task
  <2>1. NewTask("send") \in Task  BY NewTaskTyped
  <2>2. \A t \in Task : \A o \in 0 .. Size : \A z \in Sizes :
          [t EXCEPT !.offset = o, !.size = z] \in Task
    BY DEF Task
  <2>3. End(u) \in 0 .. Size  BY SMT, <1>3, SizeFacts
  <2> HIDE DEF s
  <2> QED  BY <1>6, <2>1, <2>2, <2>3
<1>9. TypeOK'  BY <1>0, <1>1, <1>8 DEF TypeOK
<1>10. ASSUME NEW v \in Upload, v # u  PROVE Local(v)'
  BY <1>0, <1>1, <1>10, OthersKept
<1>11. Local(u)'
  <2>1. /\ task'[u].pc = "send" /\ task'[u].offset = End(u)
        /\ task'[u].size = s /\ task'[u].ack = NoAck
    BY <1>0, <1>1 DEF NewTask
  <2> HIDE DEF s
  <2>2. Aligned(u)'  BY <1>4, <1>7, <2>1 DEF Aligned, Divides
  <2>3. \A b \in blocks[u] : Offset(b) + b.len <= End(u)
    <3> TAKE b \in blocks[u]
    <3>1. b \in Block  BY <1>0
    <3>2. Offset(b) \in Int /\ b.len \in Int  BY SMT, <3>1, SizeFacts DEF Block, Offset
    <3> QED  BY SMT, <1>3, <1>5, <3>2, SizeFacts DEF Local, BlocksInOrder
  <2>4. BlocksInOrder(u)'  BY <1>1, <2>1, <2>3 DEF Local, BlocksInOrder, Offset
  <2>5. received[u] <= End(u)
    BY SMT, <1>0, <1>3, <1>5, SizeFacts DEF Local, ReceivedInOrder
  <2>6. ReceivedInOrder(u)'  BY <2>1, <2>5 DEF ReceivedInOrder
  <2>7. AcksTrue(u)'  BY SMT, <1>1, <2>1 DEF Local, AcksTrue, Complete, NoAck
  <2>8. received[u] > 0  BY DEF Local, AcksTrue
  <2>9. Returned(u)'  BY <1>1, <2>1 DEF Local, Returned
  <2>10. Told(u)'  BY <1>0, <1>1, <2>8 DEF Local, Told, Complete
  <2> QED  BY <2>2, <2>4, <2>6, <2>7, <2>9, <2>10 DEF Local
<1> QED  BY <1>9, <1>10, <1>11

\* The task acts on what it was handed.
LEMMA TakeAckStep ==
    ASSUME IInv, NEW u \in Upload, take_ack(u)
    PROVE  IInv'
<1> USE DEF IInv
<1>1. /\ task[u].pc = "wait"
      /\ UNCHANGED <<fota_lock, ipc, block_acks, event, expired, received, early, errors>>
      /\ block_acks' \in SUBSET Upload /\ errors' \in 0 .. MaxErrors
  BY DEF take_ack, TypeOK
<1>2. \/ task[u].ack.code = "continue" /\ More(u) /\ Continue(u)
      \/ task[u].ack.code = "changed" /\ Return(u, "ok")
      \/ Return(u, "error")
  BY DEF take_ack
<1>3. CASE task[u].ack.code = "continue" /\ More(u) /\ Continue(u)
  BY <1>1, <1>3, ContinueStep
<1>4. CASE task[u].ack.code = "changed" /\ Return(u, "ok")
  <2>1. Complete(u)  BY <1>4 DEF Local, AcksTrue
  <2> QED  BY <1>1, <1>4, <2>1, ReturnStep
<1>5. CASE Return(u, "error")  BY <1>1, <1>5, ReturnStep
<1> QED  BY <1>2, <1>3, <1>4, <1>5

\* send_to fails.
LEMMA SendFailsStep ==
    ASSUME IInv, NEW u \in Upload, send_block_fails(u)
    PROVE  IInv'
<1>1. errors' \in 0 .. MaxErrors /\ block_acks' \in SUBSET Upload
  BY SMT, TimeAssumption DEF IInv, TypeOK, send_block_fails
<1> QED  BY <1>1, ReturnStep DEF send_block_fails

\* The device takes a block, or takes it not, and answers.
LEMMA DeviceStep ==
    ASSUME IInv, NEW u \in Upload, device(u)
    PROVE  IInv'
<1> USE DEF IInv
<1>0. /\ received \in [Upload -> 0 .. Size] /\ acks \in [Upload -> SUBSET Ack]
      /\ task \in [Upload -> Task] /\ blocks \in [Upload -> SUBSET Block]
  BY DEF TypeOK
<1>1. PICK b \in blocks[u] : device_accepts(u, b) \/ device_refuses(u)  BY DEF device
<1>2. UNCHANGED <<fota_lock, ipc, task, block_acks, first_ack, response, event,
                  expired, blocks, errors>>
  BY DEF device, server
<1>3. /\ Offset(b) \in Nat /\ b.len \in Nat
      /\ 0 < b.len /\ Offset(b) + b.len <= Size
      /\ b.more <=> Offset(b) + b.len < Size
      /\ \/ Offset(b) + b.len <= task[u].offset
         \/ Offset(b) = task[u].offset /\ Offset(b) + b.len = End(u)
  <2>1. b \in Block  BY <1>0
  <2>2. Offset(b) \in Nat /\ b.len \in Nat  BY SMT, <2>1, SizeFacts DEF Block, Offset
  <2> QED  BY <2>2 DEF Local, BlocksInOrder
<1>4. task[u].pc # "done"  BY DEF Local, Returned
<1>5. /\ task[u].offset \in Nat /\ End(u) \in 1 .. Size /\ task[u].offset < End(u)
      /\ received[u] <= task[u].offset \/ received[u] = End(u)
      /\ Size \in Nat /\ received[u] \in 0 .. Size
  <2>1. Aligned(u) /\ ReceivedInOrder(u)  BY DEF Local
  <2>2. task[u] \in Task  BY <1>0
  <2> QED  BY SMT, <1>0, <1>4, <2>1, <2>2, CurrentBlock, SizeFacts DEF ReceivedInOrder, Task
<1>6. \E n \in 0 .. Size, a \in Ack :
        /\ received' = [received EXCEPT ![u] = n]
        /\ early' \in {early, early \cup {u}}
        /\ acks' = [acks EXCEPT ![u] = @ \cup {a}]
        /\ received[u] <= n
        /\ n <= task[u].offset \/ n = End(u)
        /\ a.code = "changed" => n > 0 /\ (n = Size \/ u \in early')
        /\ a.code = "continue" => n > 0
        /\ received[u] = Size => n = Size
  <2>1. CASE device_refuses(u)
    <3> DEFINE a == [code |-> "refused", size |-> BlockSize]
    <3>1. a \in Ack /\ a.code = "refused"  BY SizeFacts DEF Ack
    <3>2. /\ received' = [received EXCEPT ![u] = received[u]]
          /\ acks' = [acks EXCEPT ![u] = @ \cup {a}]
          /\ early' = early
      BY <1>0, <2>1 DEF device_refuses, Answered
    <3>3. received[u] <= received[u]  BY SMT, <1>5
    <3>4. a.code # "changed" /\ a.code # "continue"  BY <3>1
    <3> HIDE DEF a
    <3> QED  BY <1>5, <3>1, <3>2, <3>3, <3>4 DEF Ack
  <2>2. CASE device_accepts(u, b)
    <3> DEFINE n == IF Offset(b) = received[u] THEN received[u] + b.len ELSE received[u]
    <3>1. PICK a \in Ack :
            /\ acks' = [acks EXCEPT ![u] = @ \cup {a}]
            /\ early' \in {early, early \cup {u}}
            /\ a.code = "changed" => ~b.more \/ u \in early'
      <4>1. \A c \in {"continue", "changed"} : \A s \in Sizes :
              [code |-> c, size |-> s] \in Ack /\ [code |-> c, size |-> s].code = c
        BY DEF Ack
      <4> QED  BY <2>2, <4>1, SizeFacts DEF device_accepts, Answered
    <3>2. received' = [received EXCEPT ![u] = n] /\ Offset(b) <= received[u]
      BY <2>2 DEF device_accepts
    <3>3. /\ n \in 0 .. Size /\ received[u] <= n /\ n > 0
          /\ n <= task[u].offset \/ n = End(u)
          /\ received[u] = Size => n = Size
      BY SMT, <1>3, <1>5, <3>2
    <3>4. ~b.more => n = Size  BY SMT, <1>3, <1>5, <3>2
    <3> HIDE DEF n
    <3> QED  BY <3>1, <3>2, <3>3, <3>4 DEF Ack
  <2> QED  BY <1>1, <2>1, <2>2
<1>7. TypeOK'  BY SMT, <1>0, <1>2, <1>6 DEF TypeOK
<1>8. ASSUME NEW v \in Upload, v # u  PROVE Local(v)'
  BY <1>0, <1>2, <1>6, <1>8, OthersKept
<1>9. Local(u)'
  <2>1. PICK n \in 0 .. Size, a \in Ack :
          /\ received'[u] = n
          /\ u \in early => u \in early'
          /\ acks'[u] = acks[u] \cup {a}
          /\ received[u] <= n
          /\ n <= task[u].offset \/ n = End(u)
          /\ a.code = "changed" => n > 0 /\ (n = Size \/ u \in early')
          /\ a.code = "continue" => n > 0
          /\ received[u] = Size => n = Size
    BY <1>0, <1>6
  <2>2. received[u] > 0 => n > 0  BY SMT, <1>5, <2>1
  <2>3. Aligned(u)' /\ BlocksInOrder(u)'
    BY <1>2 DEF Local, Aligned, BlocksInOrder, End, Divides
  <2>4. ReceivedInOrder(u)'  BY <1>2, <2>1 DEF ReceivedInOrder, End
  <2>5. AcksTrue(u)'  BY <1>2, <2>1, <2>2 DEF Local, AcksTrue, Complete
  <2>6. Returned(u)' /\ Told(u)'  BY <1>2, <1>4, <2>1, <2>2 DEF Local, Returned, Told, Complete
  <2> QED  BY <2>3, <2>4, <2>5, <2>6 DEF Local
<1> QED  BY <1>7, <1>8, <1>9

-----------------------------------------------------------------------------

\* No upload has begun.
LEMMA InitIInv == Init => IInv
<1> SUFFICES ASSUME Init PROVE IInv  OBVIOUS
<1>0. NewTask("none") \in Task  BY NewTaskTyped
<1>1. TypeOK
  BY SMT, <1>0, SizeFacts, TimeAssumption DEF Init, TypeOK, Handler
<1>2. ASSUME NEW u \in Upload  PROVE Local(u)
  <2>1. /\ task[u].pc = "none" /\ task[u].offset = 0 /\ task[u].size = BlockSize
        /\ task[u].ack = NoAck
        /\ blocks[u] = {} /\ acks[u] = {} /\ received[u] = 0
        /\ response[u] = "none" /\ event[u] = "none" /\ first_ack[u] = "none"
        /\ ipc[u].answer = "none"
    BY DEF Init, NewTask
  <2>2. Divides(BlockSize, 0)
    <3>1. 0 = 0 * BlockSize  BY SMT, SizeFacts
    <3> QED  BY <3>1 DEF Divides
  <2>3. Aligned(u)  BY SMT, <2>1, <2>2, SizeFacts DEF Aligned
  <2>4. BlocksInOrder(u) /\ ReceivedInOrder(u)  BY SMT, <2>1 DEF BlocksInOrder, ReceivedInOrder
  <2>5. AcksTrue(u) /\ Returned(u) /\ Told(u)  BY SMT, <2>1 DEF AcksTrue, Returned, Told, NoAck
  <2> QED  BY <2>3, <2>4, <2>5 DEF Local
<1> QED  BY <1>1, <1>2 DEF IInv

\* Every step keeps the invariant.
LEMMA StepIInv == IInv /\ [Next]_vars => IInv'
<1> SUFFICES ASSUME IInv, [Next]_vars PROVE IInv'  OBVIOUS
<1>1. CASE UNCHANGED vars
  <2>1. TypeOK'  BY <1>1 DEF IInv, TypeOK, vars, server, network
  <2>2. ASSUME NEW v \in Upload  PROVE Local(v)'
    BY <1>1, OthersKept DEF IInv, vars, server, network
  <2> QED  BY <2>1, <2>2 DEF IInv
<1>2. CASE Tick  BY <1>2, TickStep
<1>3. ASSUME NEW u \in Upload,
             \/ handle_fota_write(u) \/ handle_fota_write_refused(u) \/ IpcStep(u)
             \/ TaskStep(u) \/ handle_ack(u) \/ device(u)
      PROVE  IInv'
  <2>1. CASE handle_fota_write(u) \/ dispatch_op(u)  BY <2>1, StartStep
  <2>2. CASE handle_fota_write_refused(u) \/ IpcStep(u)  BY <2>2, HandlerStep
  <2>3. CASE send_block(u)  BY <2>3, SendStep
  <2>4. CASE send_block_fails(u)  BY <2>4, SendFailsStep
  <2>5. CASE block_timeout(u)  BY <2>5, TimeoutStep
  <2>6. CASE take_ack(u)  BY <2>6, TakeAckStep
  <2>7. CASE handle_ack(u)  BY <2>7, AckStep
  <2>8. CASE device(u)  BY <2>8, DeviceStep
  <2> QED  BY <1>3, <2>1, <2>2, <2>3, <2>4, <2>5, <2>6, <2>7, <2>8 DEF TaskStep
<1> QED  BY <1>1, <1>2, <1>3 DEF Next

\* The invariant holds throughout.
LEMMA Invariance == Spec => []IInv
BY InitIInv, StepIInv, PTL DEF Spec

\* Every state of an upload is well typed: offsets stay within the payload, the
\* device never assembles more than the payload, and no block is transmitted
\* more than MAX_RETRANSMIT times (dispatch_block_write).
THEOREM TypeCorrect == Spec => []TypeOK
<1>1. IInv => TypeOK  BY DEF IInv
<1> QED  BY <1>1, Invariance, PTL

\* An upload reported as completed by send_fota_result has reached the device
\* to the last unit, unless the device itself answered an earlier block with a
\* final 2.04, and one that handle_fota_write answered with success has begun,
\* for every payload and block size.
THEOREM ReportsTrue == Spec => []CompleteMeansReceived
<1>1. IInv => CompleteMeansReceived  BY DEF IInv, Local, Told, Complete, CompleteMeansReceived
<1> QED  BY <1>1, Invariance, PTL

-----------------------------------------------------------------------------
(* One upload at a time.                                                   *)

\* The powers of two that the waits go through.
Backoff == CHOOSE f \in [0 .. MAX_RETRANSMIT -> 1 .. FirstAckTimeout] : Doubles(f)

\* The task has used up as much time for its first block as the handler has
\* waited: the waits before the n-th sum up to one tick less than the n-th.
OnTime(u) ==
    /\ task[u].timeout = Backoff[task[u].retransmits]
    /\ \/ /\ task[u].pc \in {"queued", "send"}
          /\ ipc[u].left + task[u].timeout = FirstAckTimeout + 1
       \/ /\ task[u].pc = "wait"
          /\ ipc[u].left + 2 * task[u].timeout = FirstAckTimeout + 1 + task[u].left

\* A running task has a handler or a watch that holds the lock for it, unless
\* the watch has given it up; the channels tell of its end, and until the first
\* of them has fired the handler has time left.
Guarded(u) ==
    /\ ipc[u].pc \in {"single", "first", "watch"} => fota_lock = u
    /\ ipc[u].pc \in {"idle", "single"} => task[u].pc = "none"
    /\ task[u].pc = "none" => /\ task[u].retransmits = 0 /\ task[u].timeout = 1
                              /\ first_ack[u] = "none" /\ response[u] = "none"
    /\ Running(u) => ipc[u].pc \in {"first", "watch"} \/ u \in expired
    /\ first_ack[u] = "dropped" \/ response[u] # "none" => ~Running(u)
    /\ ipc[u].pc = "first" /\ first_ack[u] = "none" /\ Running(u) => OnTime(u)

\* The waits double, and twice a wait that is waited is within the handler's.
LEMMA BackoffFacts ==
    /\ Backoff[0] = 1
    /\ \A n \in 0 .. MAX_RETRANSMIT - 1 :
         /\ Backoff[n] \in Nat
         /\ Backoff[n + 1] = 2 * Backoff[n]
         /\ 2 * Backoff[n] <= FirstAckTimeout
<1>1. Backoff \in [0 .. MAX_RETRANSMIT -> 1 .. FirstAckTimeout] /\ Doubles(Backoff)
  BY BackoffAssumption DEF Backoff
<1>2. SUFFICES ASSUME NEW n \in 0 .. MAX_RETRANSMIT - 1
               PROVE  /\ Backoff[n] \in Nat
                      /\ Backoff[n + 1] = 2 * Backoff[n]
                      /\ 2 * Backoff[n] <= FirstAckTimeout
  BY <1>1 DEF Doubles
<1>3. n \in 0 .. MAX_RETRANSMIT /\ n + 1 \in 1 .. MAX_RETRANSMIT /\ (n + 1) - 1 = n
      /\ n + 1 \in 0 .. MAX_RETRANSMIT
  BY SMT, TimeAssumption
<1>4. Backoff[n] \in 1 .. FirstAckTimeout /\ Backoff[n + 1] \in 1 .. FirstAckTimeout
  BY <1>1, <1>3
<1>5. Backoff[n + 1] = 2 * Backoff[n]
  BY <1>1, <1>3 DEF Doubles
<1> QED  BY SMT, <1>4, <1>5, TimeAssumption

\* While the task is on time the handler's wait is not over.
LEMMA TimeLeft ==
    ASSUME TypeOK, NEW u \in Upload, OnTime(u)
    PROVE  ipc[u].left > 0
<1>1. task[u] \in Task /\ ipc[u] \in Handler  BY DEF TypeOK
<1>2. /\ task[u].timeout \in Nat /\ task[u].left \in Nat /\ ipc[u].left \in Nat
      /\ task[u].retransmits \in 0 .. MAX_RETRANSMIT - 1
  BY SMT, <1>1 DEF Task, Handler
<1>3. 2 * task[u].timeout <= FirstAckTimeout  BY <1>2, BackoffFacts DEF OnTime
<1> QED  BY SMT, <1>2, <1>3, TimeAssumption DEF OnTime

\* A step of another upload that leaves the lock to whoever holds it.
LEMMA OthersGuarded ==
    ASSUME NEW v \in Upload, Guarded(v),
           task'[v] = task[v], ipc'[v] = ipc[v],
           first_ack'[v] = first_ack[v], response'[v] = response[v],
           expired \subseteq expired',
           fota_lock = v => fota_lock' = v
    PROVE  Guarded(v)'
BY DEF Guarded, Running, OnTime

\* A task that has returned needs no guard.
LEMMA ReturnGuarded ==
    ASSUME TypeOK, NEW u \in Upload, Guarded(u), NEW r, Return(u, r), Running(u),
           UNCHANGED <<fota_lock, ipc, expired>>
    PROVE  \A v \in Upload : Guarded(v) => Guarded(v)'
<1>0. /\ task \in [Upload -> Task] /\ response \in [Upload -> {"none", "ok", "error"}]
      /\ first_ack \in [Upload -> {"none", "ok", "dropped"}]
  BY DEF TypeOK
<1>1. ASSUME NEW v \in Upload, v # u, Guarded(v)  PROVE Guarded(v)'
  BY <1>0, <1>1, OthersGuarded DEF Return
<1>2. task'[u].pc = "done"  BY <1>0 DEF Return, NewTask
<1>3. ipc[u].pc \notin {"idle", "single"}  BY DEF Guarded, Running
<1>4. Guarded(u)'  BY <1>2, <1>3 DEF Guarded, Running
<1> QED  BY <1>1, <1>4

\* Every step keeps every running task guarded.
LEMMA GuardedStep ==
    ASSUME TypeOK, \A v \in Upload : Guarded(v), [Next]_vars
    PROVE  \A v \in Upload : Guarded(v)'
<1>0. /\ ipc \in [Upload -> Handler] /\ task \in [Upload -> Task]
      /\ first_ack \in [Upload -> {"none", "ok", "dropped"}]
  BY DEF TypeOK
\* The handler takes the lock only when nobody has it.
<1>1. ASSUME NEW u \in Upload, handle_fota_write(u), NEW v \in Upload  PROVE Guarded(v)'
  <2>1. /\ ipc[u].pc = "idle" /\ fota_lock = Free /\ fota_lock' = u
        /\ UNCHANGED <<first_ack, response, expired>>
    BY <1>1 DEF handle_fota_write
  <2>2. CASE v # u
    <3>1. task'[v] = task[v] /\ ipc'[v] = ipc[v]  BY <1>0, <1>1, <2>2 DEF handle_fota_write
    <3>2. fota_lock # v  BY <2>1, UploadAssumption
    <3> QED  BY <2>1, <3>1, <3>2, OthersGuarded
  <2>3. CASE v = u
    <3>1. task[u].pc = "none" /\ task[u].retransmits = 0 /\ task[u].timeout = 1
      BY <2>1 DEF Guarded
    <3>2. CASE ipc' = [ipc EXCEPT ![u].pc = "single", ![u].left = FirstAckTimeout] /\ task' = task
      <4>1. ipc'[u].pc = "single"  BY <1>0, <3>2 DEF Handler
      <4> QED  BY <2>1, <2>3, <3>1, <3>2, <4>1 DEF Guarded, Running
    <3>3. CASE /\ ipc' = [ipc EXCEPT ![u].pc = "first", ![u].left = FirstAckTimeout]
               /\ task' = [task EXCEPT ![u].pc = "queued"]
      <4>1. ipc'[u].pc = "first" /\ ipc'[u].left = FirstAckTimeout  BY <1>0, <3>3 DEF Handler
      <4>2. task'[u].pc = "queued" /\ task'[u].retransmits = 0 /\ task'[u].timeout = 1
        BY <1>0, <3>1, <3>3 DEF Task
      <4>3. OnTime(u)'  BY <4>1, <4>2, BackoffFacts DEF OnTime
      <4>4. first_ack[u] # "dropped" /\ response[u] = "none"
        BY <2>1, <3>1 DEF Guarded
      <4> QED  BY <2>1, <2>3, <4>1, <4>2, <4>3, <4>4 DEF Guarded, Running
    <3> QED  BY <1>1, <3>2, <3>3 DEF handle_fota_write
  <2> QED  BY <2>2, <2>3
\* The lock is given back by whoever has it, when its task has ended.
<1>2. ASSUME NEW u \in Upload, handle_fota_write_refused(u), NEW v \in Upload  PROVE Guarded(v)'
  <2>1. /\ ipc[u].pc = "idle"
        /\ UNCHANGED <<fota_lock, task, first_ack, response, expired>>
    BY <1>2 DEF handle_fota_write_refused
  <2>2. CASE v # u
    <3>1. ipc'[v] = ipc[v]  BY <1>0, <1>2, <2>2 DEF handle_fota_write_refused, Answer
    <3> QED  BY <2>1, <3>1, OthersGuarded
  <2>3. CASE v = u
    <3>1. ipc'[u].pc = "done"  BY <1>0, <1>2 DEF handle_fota_write_refused, Answer
    <3>2. task[u].pc = "none"  BY <2>1 DEF Guarded
    <3> QED  BY <2>1, <2>3, <3>1, <3>2 DEF Guarded, Running
  <2> QED  BY <2>2, <2>3
<1>3. ASSUME NEW u \in Upload, first_ack_received(u), NEW v \in Upload  PROVE Guarded(v)'
  <2>1. ipc[u].pc = "first" /\ UNCHANGED <<fota_lock, task, first_ack, response, expired>>
    BY <1>3 DEF first_ack_received
  <2>2. CASE v # u
    <3>1. ipc'[v] = ipc[v]  BY <1>0, <1>3, <2>2 DEF first_ack_received
    <3> QED  BY <2>1, <3>1, OthersGuarded
  <2>3. CASE v = u
    <3>1. ipc'[u].pc = "watch"  BY <1>0, <1>3 DEF first_ack_received
    <3> QED  BY <2>1, <2>3, <3>1 DEF Guarded, Running
  <2> QED  BY <2>2, <2>3
<1>4. ASSUME NEW u \in Upload,
             \/ send_fota_single(u) \/ first_ack_failed(u) \/ watch_result(u) \/ watch_timeout(u),
             NEW v \in Upload
      PROVE  Guarded(v)'
  <2>1. /\ ipc[u].pc \in {"single", "first", "watch"}
        /\ \E a : Answer(u, a)
        /\ UNCHANGED <<task, first_ack, response>>
        /\ expired \subseteq expired'
    BY <1>4 DEF send_fota_single, first_ack_failed, watch_result, watch_timeout, Report
  <2>2. fota_lock = u  BY <2>1 DEF Guarded
  <2>3. CASE v # u
    <3>1. ipc'[v] = ipc[v]  BY <1>0, <2>1, <2>3 DEF Answer
    <3> QED  BY <2>1, <2>2, <2>3, <3>1, OthersGuarded
  <2>4. CASE v = u
    <3>1. ipc'[u].pc = "done"
      <4>1. PICK a : ipc' = [ipc EXCEPT ![u] = [pc |-> "done", left |-> 0, answer |-> a]]
        BY <2>1 DEF Answer
      <4> QED  BY SMT, <1>0, <4>1
    <3>2. ~Running(u) \/ u \in expired'
      <4>1. CASE send_fota_single(u)  BY <4>1 DEF send_fota_single, Guarded, Running
      <4>2. CASE first_ack_failed(u)
        <5>1. CASE first_ack[u] = "dropped"  BY <5>1 DEF Guarded
        <5>2. CASE first_ack[u] = "none" /\ ipc[u].left = 0
          <6>1. ~OnTime(u)
            <7>1. ~(0 > 0)  BY SMT
            <7> QED  BY <5>2, <7>1, TimeLeft
          <6> QED  BY <4>2, <5>2, <6>1 DEF first_ack_failed, Guarded
        <5> QED  BY <4>2, <5>1, <5>2 DEF first_ack_failed
      <4>3. CASE watch_result(u)  BY <4>3 DEF watch_result, Guarded
      <4>4. CASE watch_timeout(u)  BY <4>4 DEF watch_timeout
      <4> QED  BY <1>4, <4>1, <4>2, <4>3, <4>4
    <3>3. task'[u] = task[u] /\ first_ack'[u] = first_ack[u] /\ response'[u] = response[u]
      BY <2>1
    <3> QED  BY <2>4, <3>1, <3>2, <3>3 DEF Guarded, Running
  <2> QED  BY <2>3, <2>4
\* The task: until its first acknowledgement every wait takes its own time.
<1>5. ASSUME NEW u \in Upload, dispatch_op(u), NEW v \in Upload  PROVE Guarded(v)'
  <2>1. /\ task[u].pc = "queued" /\ task' = [task EXCEPT ![u].pc = "send"]
        /\ UNCHANGED <<fota_lock, ipc, first_ack, response, expired>>
    BY <1>5 DEF dispatch_op
  <2>2. CASE v # u
    <3>1. task'[v] = task[v]  BY <1>0, <2>1, <2>2
    <3> QED  BY <2>1, <3>1, OthersGuarded
  <2>3. CASE v = u
    <3>1. /\ task'[u].pc = "send" /\ task'[u].retransmits = task[u].retransmits
          /\ task'[u].timeout = task[u].timeout
      BY <1>0, <2>1 DEF Task
    <3>2. OnTime(u) => OnTime(u)'  BY <2>1, <3>1 DEF OnTime
    <3> QED  BY <2>1, <2>3, <3>1, <3>2 DEF Guarded, Running
  <2> QED  BY <2>2, <2>3
<1>6. ASSUME NEW u \in Upload, send_block(u), NEW v \in Upload  PROVE Guarded(v)'
  <2>1. /\ task[u].pc = "send"
        /\ task' = [task EXCEPT ![u].pc = "wait", ![u].left = task[u].timeout]
        /\ UNCHANGED <<fota_lock, ipc, first_ack, response, expired>>
    BY <1>6 DEF send_block
  <2>2. CASE v # u
    <3>1. task'[v] = task[v]  BY <1>0, <2>1, <2>2
    <3> QED  BY <2>1, <3>1, OthersGuarded
  <2>3. CASE v = u
    <3>1. /\ task'[u].pc = "wait" /\ task'[u].retransmits = task[u].retransmits
          /\ task'[u].timeout = task[u].timeout /\ task'[u].left = task[u].timeout
      BY <1>0, <2>1 DEF Task
    <3>2. OnTime(u) => OnTime(u)'
      <4>1. task[u].timeout \in Nat /\ ipc[u].left \in Nat  BY <1>0 DEF Task, Handler
      <4> QED  BY SMT, <2>1, <3>1, <4>1, TimeAssumption DEF OnTime
    <3> QED  BY <2>1, <2>3, <3>1, <3>2 DEF Guarded, Running
  <2> QED  BY <2>2, <2>3
<1>7. ASSUME NEW u \in Upload, send_block_fails(u), NEW v \in Upload  PROVE Guarded(v)'
  <2>1. Return(u, "error") /\ Running(u) /\ UNCHANGED <<fota_lock, ipc, expired>>
    BY <1>7 DEF send_block_fails, Running
  <2> QED  BY <2>1, ReturnGuarded
<1>8. ASSUME NEW u \in Upload, block_timeout(u), NEW v \in Upload  PROVE Guarded(v)'
  <2>1. /\ task[u].pc = "wait" /\ task[u].left = 0
        /\ UNCHANGED <<fota_lock, ipc, expired>>
    BY <1>8 DEF block_timeout
  <2>2. CASE LastRetransmit(u)
    <3>1. Return(u, "error") /\ Running(u)  BY <1>8, <2>2 DEF block_timeout, Running
    <3> QED  BY <2>1, <3>1, ReturnGuarded
  <2>3. CASE ~LastRetransmit(u)
    <3>1. /\ task' = [task EXCEPT ![u].pc = "send", ![u].retransmits = @ + 1, ![u].timeout = 2 * @]
          /\ UNCHANGED <<first_ack, response>>
      BY <1>8, <2>3 DEF block_timeout
    <3>2. CASE v # u
      <4>1. task'[v] = task[v]  BY <1>0, <3>1, <3>2
      <4> QED  BY <2>1, <3>1, <4>1, OthersGuarded
    <3>3. CASE v = u
      <4>1. /\ task'[u].pc = "send" /\ task'[u].retransmits = task[u].retransmits + 1
            /\ task'[u].timeout = 2 * task[u].timeout
        BY <1>0, <3>1 DEF Task
      <4>2. OnTime(u) => OnTime(u)'
        <5> SUFFICES ASSUME OnTime(u) PROVE OnTime(u)'  OBVIOUS
        <5>1. task[u].timeout \in Nat /\ ipc[u].left \in Nat
              /\ task[u].retransmits \in 0 .. MAX_RETRANSMIT - 1
          BY SMT, <1>0 DEF Task, Handler
        <5>2. task'[u].timeout = Backoff[task[u].retransmits + 1]
          BY <4>1, <5>1, BackoffFacts DEF OnTime
        <5>3. ipc[u].left + 2 * task[u].timeout = FirstAckTimeout + 1 + task[u].left
          BY <2>1 DEF OnTime
        <5>4. ipc[u].left + 2 * task[u].timeout = FirstAckTimeout + 1
          BY SMT, <2>1, <5>3, TimeAssumption
        <5> QED  BY <2>1, <4>1, <5>2, <5>4 DEF OnTime
      <4> QED  BY <2>1, <3>1, <3>3, <4>1, <4>2 DEF Guarded, Running
    <3> QED  BY <3>2, <3>3
  <2> QED  BY <2>2, <2>3
<1>9. ASSUME NEW u \in Upload, take_ack(u), NEW v \in Upload  PROVE Guarded(v)'
  <2>1. Running(u) /\ UNCHANGED <<fota_lock, ipc, expired>>  BY <1>9 DEF take_ack, Running
  <2>2. Continue(u) \/ Return(u, "ok") \/ Return(u, "error")
    <3>1. CASE task[u].ack.code = "continue" /\ More(u)  BY <1>9, <3>1 DEF take_ack
    <3>2. CASE ~(task[u].ack.code = "continue" /\ More(u)) /\ task[u].ack.code = "changed"
      BY <1>9, <3>2 DEF take_ack
    <3>3. CASE ~(task[u].ack.code = "continue" /\ More(u)) /\ task[u].ack.code # "changed"
      BY <1>9, <3>3 DEF take_ack
    <3> QED  BY <3>1, <3>2, <3>3
  <2>3. CASE Return(u, "ok") \/ Return(u, "error")  BY <2>1, <2>3, ReturnGuarded
  <2>4. CASE Continue(u)
    <3>1. /\ task' = [task EXCEPT ![u] = [NewTask("send") EXCEPT
                        !.offset = End(u), !.size = Smaller(task[u].ack.size, task[u].size)]]
          /\ first_ack' = [first_ack EXCEPT ![u] = "ok"]
          /\ response' = response
      BY <2>4 DEF Continue
    <3>2. CASE v # u
      <4>1. task'[v] = task[v] /\ first_ack'[v] = first_ack[v]  BY <1>0, <3>1, <3>2
      <4> QED  BY <2>1, <3>1, <4>1, OthersGuarded
    <3>3. CASE v = u
      <4>1. task'[u].pc = "send" /\ first_ack'[u] = "ok"  BY SMT, <1>0, <3>1 DEF NewTask
      <4> QED  BY <2>1, <3>1, <3>3, <4>1 DEF Guarded, Running
    <3> QED  BY <3>2, <3>3
  <2> QED  BY <2>2, <2>3, <2>4
<1>10. ASSUME NEW u \in Upload, handle_ack(u), NEW v \in Upload  PROVE Guarded(v)'
  <2>1. /\ \E a : task' = [task EXCEPT ![u].ack = a]
        /\ UNCHANGED <<fota_lock, ipc, first_ack, response, expired>>
    BY <1>10 DEF handle_ack
  <2>2. /\ task'[v].pc = task[v].pc /\ task'[v].retransmits = task[v].retransmits
        /\ task'[v].timeout = task[v].timeout /\ task'[v].left = task[v].left
    BY SMT, <1>0, <2>1 DEF Task
  <2> QED  BY <2>1, <2>2 DEF Guarded, Running, OnTime
<1>11. ASSUME NEW u \in Upload, device(u), NEW v \in Upload  PROVE Guarded(v)'
  <2>1. UNCHANGED <<fota_lock, ipc, task, first_ack, response, expired>>
    BY <1>11 DEF device, server
  <2> QED  BY <2>1, OthersGuarded
\* A tick is one tick for the handler and for the task.
<1>12. ASSUME Tick, NEW v \in Upload  PROVE Guarded(v)'
  <2>1. /\ Waiting(v)
        /\ ipc' = [u \in Upload |-> [ipc[u] EXCEPT !.left = Less(ipc[u].left)]]
        /\ task' = [u \in Upload |-> [task[u] EXCEPT !.left = Less(task[u].left)]]
        /\ UNCHANGED <<fota_lock, first_ack, response, expired>>
    BY <1>12 DEF Tick
  <2>2. /\ task'[v].pc = task[v].pc /\ task'[v].retransmits = task[v].retransmits
        /\ task'[v].timeout = task[v].timeout /\ task'[v].left = Less(task[v].left)
        /\ ipc'[v].pc = ipc[v].pc /\ ipc'[v].left = Less(ipc[v].left)
    BY <1>0, <2>1 DEF Task, Handler
  <2>3. ASSUME ipc[v].pc = "first", Running(v), OnTime(v)  PROVE OnTime(v)'
    <3>1. task[v].pc = "wait" /\ task[v].left # 0 /\ ipc[v].left # 0
      BY <2>1, <2>3 DEF Waiting, Running
    <3>2. task[v].timeout \in Nat /\ task[v].left \in Nat /\ ipc[v].left \in Nat
      BY <1>0 DEF Task, Handler
    <3>3. ipc[v].left + 2 * task[v].timeout = FirstAckTimeout + 1 + task[v].left
      BY <2>3, <3>1 DEF OnTime
    <3>4. Less(ipc[v].left) + 2 * task[v].timeout = FirstAckTimeout + 1 + Less(task[v].left)
      BY SMT, <3>1, <3>2, <3>3, TimeAssumption DEF Less
    <3> QED  BY <2>2, <2>3, <3>1, <3>4 DEF OnTime
  <2> QED  BY <2>1, <2>2, <2>3 DEF Guarded, Running
<1>13. ASSUME UNCHANGED vars, NEW v \in Upload  PROVE Guarded(v)'
  BY <1>13, OthersGuarded DEF vars, server
<1> QED
  BY <1>1, <1>2, <1>3, <1>4, <1>5, <1>6, <1>7, <1>8, <1>9, <1>10, <1>11, <1>12, <1>13
  DEF Next, IpcStep, TaskStep

\* fota_lock keeps a second upload out as long as blocks of the first may still
\* be sent, unless the watch gave the first up after 600 s: the 30 s wait for the
\* first acknowledgement in handle_fota_write never ends before
\* dispatch_block_write does, however many blocks are lost.
THEOREM OneAtATime == Spec => []UploadsExclusive
<1> DEFINE G == \A v \in Upload : Guarded(v)
<1>1. Init => G
  BY SMT DEF Init, NewTask, Guarded, Running
<1>2. IInv /\ G /\ [Next]_vars => G'  BY GuardedStep DEF IInv
<1>3. G => UploadsExclusive
  <2> SUFFICES ASSUME G, NEW u \in Upload, NEW v \in Upload, u # v, Running(u), Running(v),
                      u \notin expired, v \notin expired
               PROVE  FALSE
    BY DEF UploadsExclusive
  <2>1. ipc[u].pc \in {"first", "watch"} /\ ipc[v].pc \in {"first", "watch"}  BY DEF Guarded
  <2> QED  BY <2>1 DEF Guarded
<1> QED  BY <1>1, <1>2, <1>3, Invariance, PTL DEF Spec

=============================================================================
