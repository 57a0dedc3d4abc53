--------------------------- MODULE DispatchProofs ---------------------------
(***************************************************************************)
(* Proofs about Dispatch, for any operations, addresses and timeouts: its  *)
(* type invariant, that it implements the safety half of RemoteCall, that  *)
(* an ended retransmit task leaves nothing behind, and that it ends before *)
(* the deadline of the IPC task.                                           *)
(***************************************************************************)
EXTENDS Dispatch, TLAPS

\* Most leaves are first-order reasoning; the others name SMT.
USE Zenon

\* What a registry call that answers operations does to their results.
LEMMA SettleType ==
    ASSUME TypeOK, NEW O, NEW r \in Outcome, Settle(O, r)
    PROVE  result' \in [Op -> Outcome]
  BY DEF TypeOK, Settle

\* complete_in_flight keeps the types of what it changes.
LEMMA CompleteType ==
    ASSUME TypeOK, NEW a, NEW op \in Op, NEW r \in Outcome, complete_in_flight(a, op, r)
    PROVE  in_flight' \subseteq Op /\ result' \in [Op -> Outcome]
  <1>1. CASE is_in_flight(a, op)
    <2>1. Settle({op}, r)  BY <1>1 DEF complete_in_flight
    <2>2. result' \in [Op -> Outcome]  BY <2>1, SettleType
    <2> QED  BY SMT, <1>1, <2>2 DEF complete_in_flight, TypeOK
  <1>2. CASE ~is_in_flight(a, op)
    BY <1>2 DEF complete_in_flight, TypeOK
  <1> QED  BY <1>1, <1>2

\* Removing the device keeps the types of what it changes.
LEMMA RemovedType ==
    ASSUME TypeOK, Removed
    PROVE  /\ dev' \in [registered : BOOLEAN, addr : Addr, online : BOOLEAN]
           /\ in_flight' \subseteq Op
           /\ result' \in [Op -> Outcome]
  <1>1. result' \in [Op -> Outcome]  BY SettleType DEF Removed, Outcome
  <1> QED  BY <1>1 DEF Removed, TypeOK

\* A packet under way is an acknowledgement or a request.
LEMMA RxType ==
    ASSUME TypeOK, rx # NoPacket
    PROVE  /\ rx \in [stage : {"announce", "handle"}, packet : AckPacket \cup RequestPacket]
           /\ rx.packet.from \in Addr
           /\ rx.packet.kind \in Reply => rx.packet.op \in Op
  <1>1. rx \in [stage : {"announce", "handle"}, packet : AckPacket \cup RequestPacket]
    BY DEF TypeOK
  <1>2. rx.packet \in AckPacket \cup RequestPacket
    BY <1>1
  <1> QED  BY <1>1, <1>2 DEF AckPacket, RequestPacket, Reply

\* The server task handles no packet that is not there.
LEMMA RxThere ==
    ASSUME rx.stage \in {"announce", "handle"}
    PROVE  rx # NoPacket
  BY SMT DEF NoPacket

\* Retry keeps a retransmit task well typed while it has attempts left.
LEMMA RetryType ==
    ASSUME NEW t \in RetransmitTask, t.attempts < MaxRetransmit
    PROVE  /\ Retry(t) \in RetransmitTask
           /\ Retry(t).pc \in {"send", "final"}
           /\ Retry(t).pc = "send" => Retry(t).attempts < MaxRetransmit
  <1>1. MaxRetransmit \in Nat  BY DispatchAssumption
  <1>2. t.attempts \in Nat /\ t.timeout \in Nat  BY SMT, <1>1 DEF RetransmitTask
  <1>3. t.attempts + 1 \in 0 .. MaxRetransmit  BY SMT, <1>1, <1>2
  <1>4. 2 * t.timeout \in Nat  BY SMT, <1>2
  <1>5. CASE t.attempts + 1 >= MaxRetransmit
    <2>1. Retry(t) = [t EXCEPT !.pc = "final", !.attempts = t.attempts + 1]
      BY <1>5 DEF Retry
    <2> QED  BY <1>3, <2>1 DEF RetransmitTask
  <1>6. CASE ~(t.attempts + 1 >= MaxRetransmit)
    <2>1. Retry(t) = [t EXCEPT !.pc = "send", !.attempts = t.attempts + 1,
                               !.timeout = 2 * t.timeout]
      BY <1>6 DEF Retry
    <2>2. t.attempts + 1 < MaxRetransmit  BY SMT, <1>1, <1>2, <1>6
    <2> QED  BY <1>3, <1>4, <2>1, <2>2 DEF RetransmitTask
  <1> QED  BY <1>5, <1>6

\* What the lookup of the address does to the IPC task.
LEMMA ResolveFacts ==
    ASSUME TypeOK, NEW op \in Op, Resolve(op)
    PROVE  /\ \A o \in Op : o # op => ipc'[o] = ipc[o]
           /\ dev.registered => /\ ipc'[op].pc = "enqueue" /\ ipc'[op].addr = dev.addr
                                /\ ipc'[op].answer = ipc[op].answer
           /\ ~dev.registered => /\ ipc'[op].pc = "done" /\ ipc'[op].addr = ipc[op].addr
                                 /\ ipc'[op].answer = "unknown"
  <1>1. PICK large \in BOOLEAN :
          ipc' = [ipc EXCEPT ![op] =
                    IF dev.registered
                    THEN [ipc[op] EXCEPT !.pc = "enqueue", !.addr = dev.addr, !.large = large]
                    ELSE [ipc[op] EXCEPT !.pc = "done", !.answer = "unknown"]]
    BY DEF Resolve
  <1>2. ipc \in [Op -> IpcTask] /\ ipc[op] \in IpcTask  BY DEF TypeOK
  <1> QED  BY <1>1, <1>2 DEF IpcTask

\* The next of the channel is a ping, which goes by here, or an operation,
\* which gets its task.
LEMMA DispatchCases ==
    ASSUME TypeOK, dispatch_op
    PROVE  \/ Head(chan) = Ping /\ UNCHANGED <<in_flight, result, task>>
           \/ /\ Head(chan) \in Op
              /\ dispatch_one(Head(chan)) \/ dispatch_block(Head(chan))
  <1>1. Head(chan) \in Op \cup {Ping}  BY SMT DEF dispatch_op, TypeOK
  <1> QED  BY <1>1 DEF dispatch_op

\* The datagrams that may arrive are well formed.
LEMMA DatagramType ==
    ASSUME TypeOK, NEW p \in Datagrams
    PROVE  p \in AckPacket \cup RequestPacket
  <1>1. CASE p \in [from : used, kind : {"rd", "delete", "other"}]
    BY <1>1 DEF TypeOK, RequestPacket
  <1>2. ASSUME NEW op \in Op, reply[op] # "none",
               p = [from |-> ipc[op].addr, kind |-> reply[op], op |-> op]
        PROVE  p \in AckPacket
    <2>1. ipc[op].addr \in Addr  BY DEF TypeOK, IpcTask
    <2>2. reply[op] \in Reply  BY <1>2 DEF TypeOK
    <2> QED  BY <1>2, <2>1, <2>2 DEF AckPacket
  <1> QED  BY <1>1, <1>2 DEF Datagrams

\* The types and, so that the attempts stay within theirs, AttemptsLeft.
TypeInv == TypeOK /\ AttemptsLeft

\* No step leaves the types.
LEMMA TypeStep == TypeInv /\ [Next]_vars => TypeInv'
  <1> SUFFICES ASSUME TypeInv, [Next]_vars PROVE TypeInv'
    OBVIOUS
  <1> USE DispatchAssumption
  <1>t. TypeOK /\ AttemptsLeft  BY DEF TypeInv
  <1>i. \A op \in Op : ipc[op] \in IpcTask  BY <1>t DEF TypeOK
  <1>r. \A op \in Op : task[op] \in RetransmitTask  BY <1>t DEF TypeOK
  <1>1. ASSUME NEW op \in Op, Resolve(op) PROVE TypeInv'
    <2>0. dev.addr \in Addr  BY <1>t DEF TypeOK
    <2>l. PICK large \in BOOLEAN :
            ipc' = [ipc EXCEPT ![op] =
                      IF dev.registered
                      THEN [ipc[op] EXCEPT !.pc = "enqueue", !.addr = dev.addr, !.large = large]
                      ELSE [ipc[op] EXCEPT !.pc = "done", !.answer = "unknown"]]
      BY <1>1 DEF Resolve
    <2>1. /\ [ipc[op] EXCEPT !.pc = "enqueue", !.addr = dev.addr, !.large = large] \in IpcTask
          /\ [ipc[op] EXCEPT !.pc = "done", !.answer = "unknown"] \in IpcTask
      BY <1>i, <2>0, <2>l DEF IpcTask
    <2>2. ipc' \in [Op -> IpcTask]
      BY <1>t, <2>l, <2>1 DEF TypeOK
    <2> QED  BY <1>t, <1>1, <2>2 DEF Resolve, TypeInv, TypeOK, AttemptsLeft, world
  <1>2. ASSUME NEW op \in Op, Enqueue(op) PROVE TypeInv'
    <2>1. chan' \in Seq(Op \cup {Ping}) /\ Len(chan') <= Capacity
      BY SMT, <1>t, <1>2 DEF Enqueue, TypeOK
    <2>2. [ipc[op] EXCEPT !.pc = "wait", !.left = IpcTimeout] \in IpcTask
      <3>1. IpcTimeout \in 0 .. IpcTimeout  BY SMT
      <3>2. ipc[op] \in IpcTask  BY <1>i
      <3> QED  BY <3>1, <3>2 DEF IpcTask
    <2>3. ipc' \in [Op -> IpcTask]
      BY <1>t, <1>2, <2>2 DEF Enqueue, TypeOK
    <2> QED  BY <1>t, <1>2, <2>1, <2>3 DEF Enqueue, TypeInv, TypeOK, AttemptsLeft, world
  <1>3. ASSUME NEW op \in Op, Answered(op) PROVE TypeInv'
    <2>0. result[op] \in Outcome  BY <1>t DEF TypeOK
    <2>1. [ipc[op] EXCEPT !.pc = "done", !.left = 0, !.answer = result[op]] \in IpcTask
      <3>1. 0 \in 0 .. IpcTimeout  BY SMT
      <3>2. ipc[op] \in IpcTask  BY <1>i
      <3> QED  BY <2>0, <3>1, <3>2 DEF IpcTask
    <2>2. ipc' \in [Op -> IpcTask]
      BY <1>t, <1>3, <2>1 DEF Answered, TypeOK
    <2> QED  BY <1>t, <1>3, <2>2 DEF Answered, TypeInv, TypeOK, AttemptsLeft, world
  <1>4. ASSUME NEW op \in Op, Deadline(op) PROVE TypeInv'
    <2>1. [ipc[op] EXCEPT !.pc = "done", !.answer = "deadline"] \in IpcTask
      BY <1>i DEF IpcTask
    <2>2. ipc' \in [Op -> IpcTask]
      BY <1>t, <1>4, <2>1 DEF Deadline, TypeOK
    <2> QED  BY <1>t, <1>4, <2>2 DEF Deadline, TypeInv, TypeOK, AttemptsLeft, world
  <1>5. ASSUME dispatch_op PROVE TypeInv'
    <2>1. chan' \in Seq(Op \cup {Ping}) /\ Len(chan') <= Capacity
      BY SMT, <1>t, <1>5 DEF dispatch_op, TypeOK
    <2>2. NewTask("send") \in RetransmitTask /\ NewTask("block") \in RetransmitTask
          /\ NewTask("send").attempts < MaxRetransmit /\ NewTask("block").pc = "block"
      BY SMT DEF RetransmitTask, NewTask
    <2> DEFINE typed == /\ in_flight' \subseteq Op /\ result' \in [Op -> Outcome]
                        /\ task' \in [Op -> RetransmitTask] /\ AttemptsLeft'
    <2>3. typed
      <3>1. CASE UNCHANGED <<in_flight, result, task>>
        BY <1>t, <3>1 DEF TypeOK, AttemptsLeft
      <3>2. ASSUME Head(chan) \in Op, dispatch_one(Head(chan)) PROVE typed
        <4>1. in_flight' \subseteq Op  BY <1>t, <3>2 DEF dispatch_one, TypeOK
        <4>2. result' \in [Op -> Outcome]
          BY <1>t, <3>2, SettleType DEF dispatch_one, TypeOK, Outcome
        <4>3. task' = [task EXCEPT ![Head(chan)] = NewTask("send")]  BY <3>2 DEF dispatch_one
        <4>4. task' \in [Op -> RetransmitTask]  BY <1>t, <2>2, <3>2, <4>3 DEF TypeOK
        <4>5. AttemptsLeft'  BY <1>t, <2>2, <3>2, <4>3 DEF TypeOK, AttemptsLeft
        <4> QED  BY <4>1, <4>2, <4>4, <4>5
      <3>3. ASSUME Head(chan) \in Op, dispatch_block(Head(chan)) PROVE typed
        <4>1. in_flight' \subseteq Op /\ result' \in [Op -> Outcome]
          BY <1>t, <3>3 DEF dispatch_block, TypeOK
        <4>2. task' = [task EXCEPT ![Head(chan)] = NewTask("block")]  BY <3>3 DEF dispatch_block
        <4>3. task' \in [Op -> RetransmitTask]  BY <1>t, <2>2, <3>3, <4>2 DEF TypeOK
        <4>4. AttemptsLeft'  BY <1>t, <2>2, <3>3, <4>2 DEF TypeOK, AttemptsLeft
        <4> QED  BY <4>1, <4>3, <4>4
      <3> QED  BY <1>t, <1>5, <3>1, <3>2, <3>3, DispatchCases
    <2> QED  BY <1>t, <1>5, <2>1, <2>3 DEF dispatch_op, TypeInv, TypeOK, world
  <1>6. ASSUME NEW op \in Op, Transmit(op) PROVE TypeInv'
    <2>0. \A t \in RetransmitTask :
            LET n == [t EXCEPT !.pc = "sleep", !.timer = t.timeout]
            IN  n \in RetransmitTask /\ n.attempts = t.attempts /\ n.pc = "sleep"
      BY DEF RetransmitTask
    <2>1. task' \in [Op -> RetransmitTask] /\ AttemptsLeft'
      BY ZenonT(60), <1>t, <1>r, <1>6, <2>0 DEF Transmit, TypeOK, AttemptsLeft
    <2> QED  BY <1>t, <1>6, <2>1 DEF Transmit, TypeInv, TypeOK
  <1>7. ASSUME NEW op \in Op, SendError(op) PROVE TypeInv'
    <2>1. task' \in [Op -> RetransmitTask] /\ AttemptsLeft'
      BY ZenonT(60), <1>t, <1>r, <1>7 DEF SendError, TypeOK, RetransmitTask, AttemptsLeft
    <2> QED  BY SMT, <1>t, <1>7, <2>1 DEF SendError, TypeInv, TypeOK
  <1>8. ASSUME NEW op \in Op, Wake(op) PROVE TypeInv'
    <2>1. task[op].attempts < MaxRetransmit  BY <1>t, <1>8 DEF Wake, AttemptsLeft
    <2>2. [task[op] EXCEPT !.pc = "done"] \in RetransmitTask
      BY <1>r DEF RetransmitTask
    <2>3. task' \in [Op -> RetransmitTask] /\ AttemptsLeft'
      <3>1. CASE is_in_flight(ipc[op].addr, op)
        <4>1. task' = [task EXCEPT ![op] = Retry(task[op])]  BY <1>8, <3>1 DEF Wake
        <4> QED  BY <1>t, <1>r, <2>1, <4>1, RetryType DEF TypeOK, AttemptsLeft
      <3>2. CASE ~is_in_flight(ipc[op].addr, op)
        <4>1. task' = [task EXCEPT ![op] = [task[op] EXCEPT !.pc = "done"]]
          BY <1>8, <3>2 DEF Wake
        <4>2. [task[op] EXCEPT !.pc = "done"].pc = "done"  BY <1>r DEF RetransmitTask
        <4> QED  BY <1>t, <1>r, <2>2, <4>1, <4>2 DEF TypeOK, AttemptsLeft
      <3> QED  BY <3>1, <3>2
    <2> QED  BY <1>t, <1>8, <2>3 DEF Wake, TypeInv, TypeOK, world
  <1>9. ASSUME NEW op \in Op, Final(op) PROVE TypeInv'
    <2>1. in_flight' \subseteq Op /\ result' \in [Op -> Outcome]
      BY <1>t, <1>9, CompleteType DEF Final, Outcome
    <2>2. task' \in [Op -> RetransmitTask] /\ AttemptsLeft'
      BY ZenonT(60), <1>t, <1>r, <1>9 DEF Final, TypeOK, RetransmitTask, AttemptsLeft
    <2> QED  BY <1>t, <1>9, <2>1, <2>2 DEF Final, TypeInv, TypeOK, world
  <1>10. ASSUME NEW op \in Op, MarkOffline(op) PROVE TypeInv'
    <2>0. \E q \in {"announce", "done"} : task' = [task EXCEPT ![op].pc = q]
      BY <1>10 DEF MarkOffline
    <2>1. task' \in [Op -> RetransmitTask] /\ AttemptsLeft'
      <3>1. PICK q \in {"announce", "done"} : task' = [task EXCEPT ![op].pc = q]  BY <2>0
      <3>2. [task[op] EXCEPT !.pc = q] \in RetransmitTask /\ [task[op] EXCEPT !.pc = q].pc = q
        BY <1>r DEF RetransmitTask
      <3> QED  BY <1>t, <3>1, <3>2 DEF TypeOK, AttemptsLeft
    <2>d. dev \in [registered : BOOLEAN, addr : Addr, online : BOOLEAN]  BY <1>t DEF TypeOK
    <2>e. dev' = dev \/ dev' = [dev EXCEPT !.online = FALSE]  BY <1>10 DEF MarkOffline
    <2>2. dev' \in [registered : BOOLEAN, addr : Addr, online : BOOLEAN]
      BY <2>d, <2>e
    <2> QED  BY <1>t, <1>10, <2>1, <2>2 DEF MarkOffline, TypeInv, TypeOK, world
  <1>11. ASSUME NEW op \in Op, AnnounceOffline(op) PROVE TypeInv'
    <2>1. task' \in [Op -> RetransmitTask] /\ AttemptsLeft'
      BY ZenonT(60), <1>t, <1>r, <1>11 DEF AnnounceOffline, TypeOK, RetransmitTask, AttemptsLeft
    <2> QED  BY <1>t, <1>11, <2>1 DEF AnnounceOffline, TypeInv, TypeOK, world
  <1>12. ASSUME NEW p \in Datagrams, Receive(p) PROVE TypeInv'
    <2>1. p \in AckPacket \cup RequestPacket  BY <1>t, DatagramType
    <2>d. dev \in [registered : BOOLEAN, addr : Addr, online : BOOLEAN]  BY <1>t DEF TypeOK
    <2>e. dev' = dev \/ dev' = [dev EXCEPT !.online = TRUE]  BY <1>12 DEF Receive
    <2>2. dev' \in [registered : BOOLEAN, addr : Addr, online : BOOLEAN]
      BY <2>d, <2>e
    <2>3. rx' \in [stage : {"announce", "handle"}, packet : AckPacket \cup RequestPacket]
      BY SMT, <1>12, <2>1 DEF Receive
    <2> QED  BY <1>t, <1>12, <2>2, <2>3 DEF Receive, TypeInv, TypeOK, AttemptsLeft, world
  <1>13. ASSUME AnnounceOnline PROVE TypeInv'
    <2>1. rx' \in [stage : {"announce", "handle"}, packet : AckPacket \cup RequestPacket]
      BY <1>t, <1>13, RxThere, RxType DEF AnnounceOnline
    <2> QED  BY <1>t, <1>13, <2>1 DEF AnnounceOnline, TypeInv, TypeOK, AttemptsLeft, world
  <1>14. ASSUME handle_ack PROVE TypeInv'
    <2> DEFINE op == rx.packet.op
    <2>1. op \in Op /\ rx.packet.kind \in Outcome
      BY <1>t, <1>14, RxThere, RxType DEF handle_ack, Outcome
    <2>2. /\ in_flight' \subseteq Op /\ result' \in [Op -> Outcome]
          /\ task' \in [Op -> RetransmitTask] /\ AttemptsLeft'
      <3>1. CASE complete_in_flight(rx.packet.from, op, rx.packet.kind) /\ UNCHANGED task
        <4>1. in_flight' \subseteq Op /\ result' \in [Op -> Outcome]
          BY <1>t, <2>1, <3>1, CompleteType
        <4> QED  BY <1>t, <3>1, <4>1 DEF TypeOK, AttemptsLeft
      <3>2. CASE complete_block(op, rx.packet.kind)
        <4>1. in_flight' \subseteq Op  BY <1>t, <3>2 DEF complete_block, TypeOK
        <4>2. result' \in [Op -> Outcome]  BY <1>t, <2>1, <3>2, SettleType DEF complete_block
        <4>3. task' = [task EXCEPT ![op] = [task[op] EXCEPT !.pc = "done"]]
          BY <3>2 DEF complete_block
        <4>4. [task[op] EXCEPT !.pc = "done"] \in RetransmitTask
              /\ [task[op] EXCEPT !.pc = "done"].pc = "done"
          BY <1>r, <2>1 DEF RetransmitTask
        <4>5. task' \in [Op -> RetransmitTask] /\ AttemptsLeft'
          BY <1>t, <2>1, <4>3, <4>4 DEF TypeOK, AttemptsLeft
        <4> QED  BY <4>1, <4>2, <4>5
      <3> QED  BY <1>14, <3>1, <3>2 DEF handle_ack
    <2> QED  BY <1>t, <1>14, <2>2 DEF handle_ack, TypeInv, TypeOK, world
  <1>15. ASSUME handle_registration PROVE TypeInv'
    <2>1. rx.packet.from \in Addr  BY <1>t, <1>15, RxThere, RxType DEF handle_registration
    <2>d. dev \in [registered : BOOLEAN, addr : Addr, online : BOOLEAN]  BY <1>t DEF TypeOK
    <2>e. \/ dev' = [dev EXCEPT !.addr = rx.packet.from]
          \/ dev' = [registered |-> TRUE, addr |-> rx.packet.from, online |-> TRUE]
      BY <1>15 DEF handle_registration
    <2>f. in_flight' \subseteq Op  BY <1>t, <1>15 DEF handle_registration, TypeOK
    <2>g. [dev EXCEPT !.addr = rx.packet.from]
            \in [registered : BOOLEAN, addr : Addr, online : BOOLEAN]
      BY <2>1, <2>d
    <2>h. [registered |-> TRUE, addr |-> rx.packet.from, online |-> TRUE]
            \in [registered : BOOLEAN, addr : Addr, online : BOOLEAN]
      BY <2>1
    <2>2. /\ dev' \in [registered : BOOLEAN, addr : Addr, online : BOOLEAN]
          /\ in_flight' \subseteq Op
      BY <2>e, <2>f, <2>g, <2>h
    <2> QED  BY <1>t, <1>15, <2>2 DEF handle_registration, TypeInv, TypeOK, AttemptsLeft, world
  <1>16. ASSUME handle_delete PROVE TypeInv'
    <2>1. /\ dev' \in [registered : BOOLEAN, addr : Addr, online : BOOLEAN]
          /\ in_flight' \subseteq Op
          /\ result' \in [Op -> Outcome]
      <3>1. CASE At(rx.packet.from)  BY <1>t, <1>16, <3>1, RemovedType DEF handle_delete
      <3>2. CASE ~At(rx.packet.from)  BY <1>t, <1>16, <3>2 DEF handle_delete, TypeOK
      <3> QED  BY <3>1, <3>2
    <2> QED  BY <1>t, <1>16, <2>1 DEF handle_delete, TypeInv, TypeOK, AttemptsLeft, world
  <1>17. ASSUME handle_other PROVE TypeInv'
    BY <1>t, <1>17 DEF handle_other, TypeInv, TypeOK, AttemptsLeft, world
  <1>18. ASSUME NEW expired \in BOOLEAN, Housekeeping(expired) PROVE TypeInv'
    <2>1. /\ dev' \in [registered : BOOLEAN, addr : Addr, online : BOOLEAN]
          /\ in_flight' \subseteq Op
          /\ result' \in [Op -> Outcome]
          /\ moves' \in 0 .. MaxMove
      <3>1. CASE expired
        <4>1. moves' \in 0 .. MaxMove  BY SMT, <1>t, <1>18, <3>1 DEF Housekeeping, TypeOK
        <4> QED  BY <1>t, <1>18, <3>1, <4>1, RemovedType DEF Housekeeping
      <3>2. CASE ~expired
        <4>1. Settle({op \in in_flight : ipc[op].age > SweepAge}, "timeout")
          BY <1>18, <3>2 DEF Housekeeping
        <4>2. result' \in [Op -> Outcome]  BY <1>t, <4>1, SettleType DEF Outcome
        <4>3. in_flight' \subseteq in_flight /\ dev' = dev /\ moves' = moves
          BY <1>18, <3>2 DEF Housekeeping
        <4> QED  BY <1>t, <4>2, <4>3 DEF TypeOK
      <3> QED  BY <3>1, <3>2
    <2>2. hk' \in [left : 0 .. SweepEvery, ping : BOOLEAN]
      <3>1. SweepEvery \in 0 .. SweepEvery  BY SMT
      <3>2. PICK p \in BOOLEAN : hk' = [left |-> SweepEvery, ping |-> p]
        BY <1>18 DEF Housekeeping, NextRun
      <3> QED  BY <3>1, <3>2
    <2> QED  BY <1>t, <1>18, <2>1, <2>2 DEF Housekeeping, TypeInv, TypeOK, AttemptsLeft
  <1>19. ASSUME NEW op \in Op, NEW r \in Reply, DeviceAnswers(op, r) PROVE TypeInv'
    BY <1>t, <1>19 DEF DeviceAnswers, TypeInv, TypeOK, AttemptsLeft, server
  <1>20. ASSUME NEW a \in Addr, DeviceMoves(a) PROVE TypeInv'
    BY SMT, <1>t, <1>20 DEF DeviceMoves, TypeInv, TypeOK, AttemptsLeft, server
  <1>21. ASSUME Tick PROVE TypeInv'
    <2>a. IpcTimeout \in Nat /\ SweepAge \in Nat /\ SweepEvery \in Nat /\ MaxRetransmit \in Nat
      OBVIOUS
    <2>b. ASSUME NEW op \in Op
          PROVE  [ipc[op] EXCEPT !.left = Sooner(ipc[op].left), !.age = Older(ipc[op])] \in IpcTask
      <3>1. ipc[op] \in IpcTask  BY <1>i
      <3>2. ipc[op].left \in 0 .. IpcTimeout /\ ipc[op].age \in 0 .. SweepAge + 1
        BY <3>1 DEF IpcTask
      <3>3. Sooner(ipc[op].left) \in 0 .. IpcTimeout  BY SMT, <2>a, <3>2 DEF Sooner
      <3>4. Older(ipc[op]) \in 0 .. SweepAge + 1  BY SMT, <2>a, <3>2 DEF Older
      <3> QED  BY <3>1, <3>3, <3>4 DEF IpcTask
    <2>1. ipc' \in [Op -> IpcTask]  BY <1>21, <2>b DEF Tick
    <2>c. ASSUME NEW op \in Op
          PROVE  /\ [task[op] EXCEPT !.timer = Sooner(task[op].timer)] \in RetransmitTask
                 /\ [task[op] EXCEPT !.timer = Sooner(task[op].timer)].pc = task[op].pc
                 /\ [task[op] EXCEPT !.timer = Sooner(task[op].timer)].attempts = task[op].attempts
      <3>1. task[op] \in RetransmitTask  BY <1>r
      <3>2. task[op].timer \in Nat  BY <3>1 DEF RetransmitTask
      <3>3. Sooner(task[op].timer) \in Nat  BY SMT, <3>2 DEF Sooner
      <3> QED  BY <3>1, <3>3 DEF RetransmitTask
    <2>2. task' \in [Op -> RetransmitTask] /\ AttemptsLeft'
      BY <1>t, <1>21, <2>c DEF Tick, AttemptsLeft
    <2>d. /\ hk \in [left : 0 .. SweepEvery, ping : BOOLEAN] /\ hk.left > 0
          /\ hk' = [hk EXCEPT !.left = hk.left - 1]
      BY <1>t, <1>21 DEF Tick, TypeOK
    <2>e. hk.left - 1 \in 0 .. SweepEvery  BY SMT, <2>a, <2>d
    <2>3. hk' \in [left : 0 .. SweepEvery, ping : BOOLEAN]  BY <2>d, <2>e
    <2> QED  BY <1>t, <1>21, <2>1, <2>2, <2>3 DEF Tick, TypeInv, TypeOK, world
  <1>22. ASSUME UNCHANGED vars PROVE TypeInv'
    BY <1>t, <1>22 DEF vars, TypeInv, TypeOK, AttemptsLeft
  <1>23. ASSUME NEW op \in Op, SendBlock(op) PROVE TypeInv'
    BY <1>t, <1>23 DEF SendBlock, TypeInv, TypeOK, AttemptsLeft, server
  <1>24. ASSUME NEW op \in Op, BlockFails(op) PROVE TypeInv'
    <2>1. result' \in [Op -> Outcome]  BY <1>t, <1>24, SettleType DEF BlockFails, Outcome
    <2>2. task' \in [Op -> RetransmitTask] /\ AttemptsLeft'
      BY ZenonT(60), <1>t, <1>r, <1>24 DEF BlockFails, TypeOK, RetransmitTask, AttemptsLeft
    <2> QED  BY <1>t, <1>24, <2>1, <2>2 DEF BlockFails, TypeInv, TypeOK, world
  <1>25. ASSUME SendPing PROVE TypeInv'
    <2>1. chan' \in Seq(Op \cup {Ping}) /\ Len(chan') <= Capacity
      BY SMT, <1>t, <1>25 DEF SendPing, TypeOK
    <2>2. hk' \in [left : 0 .. SweepEvery, ping : BOOLEAN]
      BY <1>t, <1>25 DEF SendPing, TypeOK
    <2> QED  BY <1>t, <1>25, <2>1, <2>2 DEF SendPing, TypeInv, TypeOK, AttemptsLeft, world
  <1> QED
    BY <1>1, <1>2, <1>3, <1>4, <1>5, <1>6, <1>7, <1>8, <1>9, <1>10, <1>11, <1>12, <1>13,
       <1>14, <1>15, <1>16, <1>17, <1>18, <1>19, <1>20, <1>21, <1>22, <1>23, <1>24, <1>25
    DEF Next, IpcStep, TaskStep, ServerStep

\* Every state of the dispatch machinery is well typed; in particular no task
\* transmits more than MAX_RETRANSMIT times (client.rs:127-166).
THEOREM TypeCorrect == Spec => []TypeOK
  <1>1. Init => TypeInv
    BY SMT, DispatchAssumption
    DEF Init, TypeInv, TypeOK, AttemptsLeft, RetransmitTask, NewTask, IpcTask, Outcome
  <1>2. TypeInv => TypeOK  BY DEF TypeInv
  <1> QED  BY <1>1, <1>2, TypeStep, PTL DEF Spec

-----------------------------------------------------------------------------
(* The safety half of RemoteCall.                                          *)

\* Answering operations with anything but "ok" keeps the results honest.
LEMMA SettleHonest ==
    ASSUME TypeOK, Honest, NEW O, NEW r \in Outcome, r # "ok", Settle(O, r)
    PROVE  \A op \in Op : result'[op] = "ok" => reply[op] = "ok"
  BY DEF TypeOK, Settle, Honest

\* So does answering one operation, with "ok" if the device said so.
LEMMA CompleteHonest ==
    ASSUME TypeOK, Honest, NEW a, NEW op \in Op, NEW r \in Outcome,
           r = "ok" => reply[op] = "ok", complete_in_flight(a, op, r)
    PROVE  \A o \in Op : result'[o] = "ok" => reply[o] = "ok"
  BY SMT DEF TypeOK, Honest, complete_in_flight, Settle

\* A reply the server sees as a 2.xx was sent as one, at every step.
LEMMA HonestStep == TypeOK /\ Honest /\ [Next]_vars => Honest'
  <1> SUFFICES ASSUME TypeOK, Honest, [Next]_vars PROVE Honest'
    OBVIOUS
  <1>i. \A op \in Op : ipc[op] \in IpcTask  BY DEF TypeOK
  <1>r. \A op \in Op : task[op] \in RetransmitTask  BY DEF TypeOK
  <1>1. ASSUME NEW op \in Op, Resolve(op) PROVE Honest'
    <2>1. \A o \in Op : /\ ipc'[o].answer = "ok" => ipc[o].answer = "ok"
                        /\ ipc'[o].pc = "idle" => ipc[o].pc = "idle"
      BY <1>1, ResolveFacts
    <2> QED  BY <1>1, <2>1 DEF Resolve, Honest, world
  <1>2. ASSUME NEW op \in Op, Enqueue(op) PROVE Honest'
    <2>1. \A o \in Op : /\ ipc'[o].answer = "ok" => ipc[o].answer = "ok"
                        /\ ipc'[o].pc = "idle" => ipc[o].pc = "idle" /\ o # op
      BY <1>i, <1>2 DEF Enqueue, TypeOK, IpcTask
    <2>2. \A i \in DOMAIN chan' : (i \in DOMAIN chan /\ chan'[i] = chan[i]) \/ chan'[i] = op
      BY SMT, <1>2 DEF Enqueue, TypeOK
    <2> QED  BY SMT, <1>2, <2>1, <2>2 DEF Enqueue, Honest, world
  <1>3. ASSUME NEW op \in Op, Answered(op) \/ Deadline(op) PROVE Honest'
    <2>1. \A o \in Op : /\ ipc'[o].answer = "ok" => ipc[o].answer = "ok" \/ result[o] = "ok"
                        /\ ipc'[o].pc = "idle" => ipc[o].pc = "idle"
      <3>1. CASE Answered(op)  BY <1>i, <3>1 DEF Answered, TypeOK, IpcTask
      <3>2. CASE Deadline(op)  BY SMT, <1>i, <3>2 DEF Deadline, TypeOK, IpcTask
      <3> QED  BY <1>3, <3>1, <3>2
    <2> QED  BY SMT, <1>3, <2>1 DEF Answered, Deadline, Honest, world
  <1>4. ASSUME dispatch_op PROVE Honest'
    <2>1. Head(chan) = chan[1] /\ 1 \in DOMAIN chan
      BY SMT, <1>4 DEF dispatch_op, TypeOK
    <2>2. \A i \in DOMAIN chan' : i + 1 \in DOMAIN chan /\ chan'[i] = chan[i + 1]
      BY SMT, <1>4 DEF dispatch_op, TypeOK
    <2>3. \A o \in Op : result'[o] = "ok" => reply[o] = "ok"
      <3>1. CASE UNCHANGED result  BY <3>1 DEF Honest
      <3>2. CASE Settle({Head(chan)}, "dropped")  BY <3>2, SettleHonest DEF Outcome
      <3> QED  BY <1>4, <3>1, <3>2, DispatchCases DEF dispatch_one, dispatch_block
    <2>4. \A o \in Op : o # Head(chan) => task'[o] = task[o]
      BY <1>4, DispatchCases DEF dispatch_one, dispatch_block, TypeOK
    <2>5. \A o \in Op : ipc[o].pc = "idle" =>
            task'[o].pc = "none" /\ \A i \in DOMAIN chan' : chan'[i] # o
      <3>1. ASSUME NEW o \in Op, ipc[o].pc = "idle"
            PROVE  task[o].pc = "none" /\ \A i \in DOMAIN chan : chan[i] # o
        BY <3>1 DEF Honest
      <3>2. ASSUME NEW o \in Op, ipc[o].pc = "idle" PROVE o # Head(chan)
        BY <2>1, <3>1, <3>2
      <3>3. ASSUME NEW o \in Op, ipc[o].pc = "idle", NEW i \in DOMAIN chan' PROVE chan'[i] # o
        BY <2>2, <3>1, <3>3
      <3> QED  BY <2>4, <3>1, <3>2, <3>3
    <2> QED  BY <1>4, <2>3, <2>5 DEF dispatch_op, Honest, world
  <1>5. ASSUME NEW op \in Op, TaskStep(op) PROVE Honest'
    <2>1. task[op].pc # "none"
      BY <1>5
      DEF TaskStep, Transmit, SendError, Wake, Final, SendBlock, BlockFails, MarkOffline,
          AnnounceOffline
    <2>2. ipc[op].pc # "idle"  BY <2>1 DEF Honest
    <2>3. \A o \in Op : o # op => task'[o] = task[o]
      BY <1>5
      DEF TaskStep, Transmit, SendError, Wake, Final, SendBlock, BlockFails, MarkOffline,
          AnnounceOffline, server, TypeOK
    <2>4. UNCHANGED <<ipc, chan, rx, reply>> /\ sent' \subseteq sent \cup {op}
      BY <1>5
      DEF TaskStep, Transmit, SendError, Wake, Final, SendBlock, BlockFails, MarkOffline,
          AnnounceOffline, server, world
    <2>5. \A o \in Op : result'[o] = "ok" => reply[o] = "ok"
      <3>1. CASE Final(op)  BY <3>1, CompleteHonest DEF Final, Outcome
      <3>2. CASE UNCHANGED result  BY <3>2 DEF Honest
      <3>3. CASE BlockFails(op)  BY <3>3, SettleHonest DEF BlockFails, Outcome
      <3> QED  BY <1>5, <3>1, <3>2, <3>3
               DEF TaskStep, Transmit, SendError, Wake, SendBlock, MarkOffline,
                   AnnounceOffline, server
    <2> QED  BY <2>2, <2>3, <2>4, <2>5 DEF Honest
  <1>6. ASSUME NEW p \in Datagrams, Receive(p) PROVE Honest'
    <2>1. rx'.packet = p  BY SMT, <1>6 DEF Receive
    <2>2. p.kind = "ok" => reply[p.op] = "ok"
      BY SMT DEF Datagrams
    <2> QED  BY <1>6, <2>1, <2>2 DEF Receive, Honest, world
  <1>7. ASSUME AnnounceOnline PROVE Honest'
    <2>1. rx # NoPacket /\ rx'.packet = rx.packet
      BY <1>7, RxThere, RxType DEF AnnounceOnline
    <2> QED  BY <1>7, <2>1 DEF AnnounceOnline, Honest, world
  <1>8. ASSUME handle_ack PROVE Honest'
    <2>1. rx # NoPacket /\ rx.packet.op \in Op /\ rx.packet.kind \in Outcome
      BY <1>8, RxThere, RxType DEF handle_ack, Outcome
    <2>2. rx.packet.kind = "ok" => reply[rx.packet.op] = "ok"  BY <2>1 DEF Honest
    <2>3. /\ \A o \in Op : result'[o] = "ok" => reply[o] = "ok"
          /\ \A o \in Op : task[o].pc = "none" => task'[o].pc = "none"
      <3>1. CASE complete_in_flight(rx.packet.from, rx.packet.op, rx.packet.kind) /\ UNCHANGED task
        BY <2>1, <2>2, <3>1, CompleteHonest
      <3>2. CASE complete_block(rx.packet.op, rx.packet.kind)
        <4>1. \A o \in Op : result'[o] = "ok" => reply[o] = "ok"
          BY <2>1, <2>2, <3>2 DEF complete_block, Settle, Honest
        <4>2. \A o \in Op : task[o].pc = "none" => task'[o].pc = "none"
          <5>1. task[rx.packet.op].pc # "none"  BY <3>2 DEF complete_block
          <5>2. \A o \in Op : o # rx.packet.op => task'[o] = task[o]
            BY <2>1, <3>2 DEF complete_block, TypeOK
          <5> QED  BY <5>1, <5>2
        <4> QED  BY <4>1, <4>2
      <3> QED  BY <1>8, <3>1, <3>2 DEF handle_ack
    <2> QED  BY <1>8, <2>3 DEF handle_ack, Honest, world
  <1>9. ASSUME handle_registration \/ handle_other PROVE Honest'
    BY SMT, <1>9 DEF handle_registration, handle_other, Honest, world
  <1>10. ASSUME handle_delete PROVE Honest'
    <2>1. \A o \in Op : result'[o] = "ok" => reply[o] = "ok"
      <3>1. CASE UNCHANGED result  BY <3>1 DEF Honest
      <3>2. CASE Removed  BY <3>2, SettleHonest DEF Removed, Outcome
      <3> QED  BY <1>10, <3>1, <3>2 DEF handle_delete
    <2> QED  BY <1>10, <2>1 DEF handle_delete, Honest, world
  <1>11. ASSUME NEW expired \in BOOLEAN, Housekeeping(expired) PROVE Honest'
    <2>1. \A o \in Op : result'[o] = "ok" => reply[o] = "ok"
      <3>1. PICK O : Settle(O, "timeout")  BY <1>11 DEF Housekeeping, Removed
      <3> QED  BY <3>1, SettleHonest DEF Outcome
    <2> QED  BY <1>11, <2>1 DEF Housekeeping, Honest
  <1>12. ASSUME NEW op \in Op, NEW r \in Reply, DeviceAnswers(op, r) PROVE Honest'
    <2>1. ipc[op].pc # "idle" /\ reply[op] = "none"  BY <1>12 DEF DeviceAnswers, Honest
    <2>2. \A o \in Op : reply'[o] # reply[o] => o = op
      BY <1>12 DEF DeviceAnswers, TypeOK
    <2>3. rx # NoPacket /\ rx.packet.kind = "ok" => rx.packet.op \in Op
      BY RxType DEF Reply
    <2>4. rx # NoPacket /\ rx.packet.kind = "ok" => reply'[rx.packet.op] = "ok"
      BY <2>1, <2>2, <2>3 DEF Honest
    <2> QED  BY <1>12, <2>1, <2>2, <2>4 DEF DeviceAnswers, Honest, server
  <1>13. ASSUME NEW a \in Addr, DeviceMoves(a) PROVE Honest'
    BY <1>13 DEF DeviceMoves, Honest, server
  <1>14. ASSUME Tick PROVE Honest'
    <2>1. \A op \in Op : ipc'[op].pc = ipc[op].pc /\ ipc'[op].answer = ipc[op].answer
      BY <1>14, <1>i DEF Tick, IpcTask
    <2>2. \A op \in Op : task'[op].pc = task[op].pc
      BY <1>14, <1>r DEF Tick, RetransmitTask
    <2>3. UNCHANGED <<chan, result, rx, sent, reply>>  BY <1>14 DEF Tick, world
    <2> QED  BY SMT, <2>1, <2>2, <2>3 DEF Honest
  <1>15. ASSUME UNCHANGED vars PROVE Honest'
    BY <1>15 DEF vars, Honest
  <1>16. ASSUME SendPing PROVE Honest'
    <2>1. \A i \in DOMAIN chan' : (i \in DOMAIN chan /\ chan'[i] = chan[i]) \/ chan'[i] = Ping
      BY SMT, <1>16 DEF SendPing, TypeOK
    <2>2. Ping \notin Op  BY DispatchAssumption
    <2> QED  BY SMT, <1>16, <2>1, <2>2 DEF SendPing, Honest, world
  <1> QED
    BY <1>1, <1>2, <1>3, <1>4, <1>5, <1>6, <1>7, <1>8, <1>9, <1>10, <1>11, <1>12, <1>13,
       <1>14, <1>15, <1>16
    DEF Next, IpcStep, ServerStep

\* Nothing has been answered at the start.
LEMMA HonestInit == Init => Honest
  BY SMT DEF Init, NewTask, Honest

\* A step that leaves the IPC tasks' progress and the device's replies alone is
\* a stuttering step of RemoteCall.
LEMMA CallStutter ==
    ASSUME \A op \in Op : ipc'[op].pc = ipc[op].pc /\ ipc'[op].answer = ipc[op].answer,
           reply' = reply
    PROVE  [op \in Op |-> CallOf(op)]' = [op \in Op |-> CallOf(op)] /\ executed' = executed
  <1>1. \A op \in Op : CallOf(op)' = CallOf(op)  BY DEF CallOf, success
  <1>2. executed' = executed  BY DEF executed
  <1> QED  BY <1>1, <1>2

\* A step that changes the IPC task of one operation changes that call only.
LEMMA CallOne ==
    ASSUME NEW op \in Op, \A o \in Op : o # op => ipc'[o] = ipc[o]
    PROVE  [o \in Op |-> CallOf(o)]' = [[o \in Op |-> CallOf(o)] EXCEPT ![op] = CallOf(op)']
  <1>1. \A o \in Op : o # op => CallOf(o)' = CallOf(o)  BY DEF CallOf, success
  <1> QED  BY <1>1

\* Every step is a step of RemoteCall, or none.
LEMMA RefineStep ==
    TypeOK /\ Honest /\ [Next]_vars => [Remote!Next]_(Remote!vars)
  <1> SUFFICES ASSUME TypeOK, Honest, [Next]_vars PROVE [Remote!Next]_(Remote!vars)
    OBVIOUS
  <1>i. \A op \in Op : ipc[op] \in IpcTask  BY DEF TypeOK
  <1> DEFINE stutter == [Remote!Next]_(Remote!vars)
  <1>0. ASSUME UNCHANGED <<ipc, reply>> PROVE stutter
    BY <1>0, CallStutter DEF Remote!vars
  <1>1. ASSUME NEW op \in Op, Resolve(op) PROVE stutter
    <2>1. \A o \in Op : o # op => ipc'[o] = ipc[o]  BY <1>1, ResolveFacts
    <2>2. CallOf(op) = "idle"  BY <1>1 DEF Resolve, CallOf
    <2>3. executed' = executed  BY <1>1 DEF Resolve, executed, world
    <2>4. CASE dev.registered
      <3>1. ipc'[op].pc = "enqueue"  BY <1>1, <2>4, ResolveFacts
      <3>2. CallOf(op)' = "pending"  BY <3>1 DEF CallOf
      <3>3. Remote!Start(op)  BY <2>1, <2>2, <2>3, <3>2, CallOne DEF Remote!Start
      <3> QED  BY <3>3 DEF Remote!Next
    <2>5. CASE ~dev.registered
      <3>1. ipc'[op].pc = "done" /\ ipc'[op].answer = "unknown"
        BY <1>1, <2>5, ResolveFacts
      <3>2. CallOf(op)' = "failure"  BY <3>1 DEF CallOf, success
      <3>3. Remote!Refuse(op)  BY <2>1, <2>2, <2>3, <3>2, CallOne DEF Remote!Refuse
      <3> QED  BY <3>3 DEF Remote!Next
    <2> QED  BY <2>4, <2>5
  <1>2. ASSUME NEW op \in Op, Enqueue(op) PROVE stutter
    <2>1. \A o \in Op : o # op => ipc'[o] = ipc[o]  BY <1>2 DEF Enqueue, TypeOK
    <2>2. CallOf(op) = "pending"  BY <1>2 DEF Enqueue, CallOf
    <2>3. ipc'[op].pc = "wait"  BY <1>2, <1>i DEF Enqueue, TypeOK, IpcTask
    <2>4. CallOf(op)' = "pending"  BY <2>3 DEF CallOf
    <2>5. executed' = executed  BY <1>2 DEF Enqueue, executed, world
    <2>6. [o \in Op |-> CallOf(o)]' = [o \in Op |-> CallOf(o)]
      BY <2>1, <2>2, <2>4, CallOne
    <2> QED  BY <2>5, <2>6 DEF Remote!vars
  <1>3. ASSUME NEW op \in Op, Answered(op) PROVE stutter
    <2>1. \A o \in Op : o # op => ipc'[o] = ipc[o]  BY <1>3 DEF Answered, TypeOK
    <2>2. CallOf(op) = "pending"  BY <1>3 DEF Answered, CallOf
    <2>3. ipc'[op].pc = "done" /\ ipc'[op].answer = result[op]
      BY <1>3, <1>i DEF Answered, TypeOK, IpcTask
    <2>4. executed' = executed  BY <1>3 DEF Answered, executed, world
    <2>5. CASE result[op] = "ok"
      <3>1. CallOf(op)' = "success"  BY <2>3, <2>5 DEF CallOf, success
      <3>2. op \in executed  BY <2>5 DEF Honest, executed
      <3>3. Remote!Succeed(op)  BY <2>1, <2>2, <2>4, <3>1, <3>2, CallOne DEF Remote!Succeed
      <3> QED  BY <3>3 DEF Remote!Next, Remote!Return
    <2>6. CASE result[op] # "ok"
      <3>1. CallOf(op)' = "failure"  BY <2>3, <2>6 DEF CallOf, success
      <3>2. Remote!Fail(op)  BY <2>1, <2>2, <2>4, <3>1, CallOne DEF Remote!Fail
      <3> QED  BY <3>2 DEF Remote!Next, Remote!Return
    <2> QED  BY <2>5, <2>6
  <1>4. ASSUME NEW op \in Op, Deadline(op) PROVE stutter
    <2>1. \A o \in Op : o # op => ipc'[o] = ipc[o]  BY <1>4 DEF Deadline, TypeOK
    <2>2. CallOf(op) = "pending"  BY <1>4 DEF Deadline, CallOf
    <2>3. ipc'[op].pc = "done" /\ ipc'[op].answer = "deadline"
      BY <1>4, <1>i DEF Deadline, TypeOK, IpcTask
    <2>4. executed' = executed  BY <1>4 DEF Deadline, executed, world
    <2>5. CallOf(op)' = "failure"  BY <2>3 DEF CallOf, success
    <2>6. Remote!Fail(op)  BY <2>1, <2>2, <2>4, <2>5, CallOne DEF Remote!Fail
    <2> QED  BY <2>6 DEF Remote!Next, Remote!Return
  <1>5. ASSUME NEW op \in Op, NEW r \in Reply, DeviceAnswers(op, r) PROVE stutter
    <2>1. ipc' = ipc /\ reply' = [reply EXCEPT ![op] = r] /\ reply[op] = "none"
      BY <1>5 DEF DeviceAnswers, server
    <2>2. [o \in Op |-> CallOf(o)]' = [o \in Op |-> CallOf(o)]
      BY SMT, <2>1 DEF CallOf, success
    <2>3. CallOf(op) # "idle"
      <3>1. ipc[op].pc # "idle"  BY <1>5 DEF DeviceAnswers, Honest
      <3>2. ipc[op].pc \in {"enqueue", "wait", "done"}  BY <1>i, <3>1 DEF IpcTask
      <3> QED  BY <3>2 DEF CallOf
    <2>4. CASE r = "ok"
      <3>1. \A o \in Op : reply'[o] = IF o = op THEN "ok" ELSE reply[o]
        BY <2>1, <2>4 DEF TypeOK
      <3>2. executed' = executed \cup {op}  BY SMT, <3>1 DEF executed
      <3>3. Remote!Execute(op)  BY <2>2, <2>3, <3>2 DEF Remote!Execute
      <3> QED  BY <3>3 DEF Remote!Next
    <2>5. CASE r # "ok"
      <3>1. executed' = executed  BY <2>1, <2>5 DEF executed, TypeOK
      <3> QED  BY <2>2, <3>1 DEF Remote!vars
    <2> QED  BY <2>4, <2>5
  <1>6. ASSUME Tick PROVE stutter
    <2>1. \A op \in Op : ipc'[op].pc = ipc[op].pc /\ ipc'[op].answer = ipc[op].answer
      BY <1>6, <1>i DEF Tick, IpcTask
    <2>2. reply' = reply  BY <1>6 DEF Tick, world
    <2> QED  BY <2>1, <2>2, CallStutter DEF Remote!vars
  <1>7. ASSUME NEW op \in Op, TaskStep(op) PROVE UNCHANGED <<ipc, reply>>
    BY <1>7
    DEF TaskStep, Transmit, SendError, Wake, Final, SendBlock, BlockFails, MarkOffline,
        AnnounceOffline, server, world
  <1>8. ASSUME ServerStep \/ dispatch_op \/ SendPing PROVE UNCHANGED <<ipc, reply>>
    BY <1>8
    DEF ServerStep, AnnounceOnline, handle_ack, handle_registration, handle_delete,
        handle_other, dispatch_op, SendPing, world
  <1>9. ASSUME NEW p \in Datagrams, Receive(p) PROVE UNCHANGED <<ipc, reply>>
    BY <1>9 DEF Receive, world
  <1>10. ASSUME NEW expired \in BOOLEAN, Housekeeping(expired) PROVE UNCHANGED <<ipc, reply>>
    BY <1>10 DEF Housekeeping
  <1>11. ASSUME NEW a \in Addr, DeviceMoves(a) PROVE UNCHANGED <<ipc, reply>>
    BY <1>11 DEF DeviceMoves, server
  <1>12. ASSUME UNCHANGED vars PROVE UNCHANGED <<ipc, reply>>
    BY <1>12 DEF vars
  <1> QED
    BY <1>0, <1>1, <1>2, <1>3, <1>4, <1>5, <1>6, <1>7, <1>8, <1>9, <1>10, <1>11, <1>12
    DEF Next, IpcStep

\* The command socket answers each operation once, and success only for one the
\* device carried out, whatever is lost, repeated, delayed or raced.
THEOREM RemoteCallSafe == Spec => ImplementsRemoteCallSafety
  <1>1. Init => Remote!Init
    BY SMT DEF Init, Remote!Init, CallOf, executed
  <1>2. Init => TypeInv
    BY SMT, DispatchAssumption
    DEF Init, TypeInv, TypeOK, AttemptsLeft, RetransmitTask, NewTask, IpcTask, Outcome
  <1>3. TypeInv => TypeOK  BY DEF TypeInv
  <1> QED
    BY <1>1, <1>2, <1>3, TypeStep, HonestInit, HonestStep, RefineStep, PTL
    DEF Spec, ImplementsRemoteCallSafety, Remote!Safety

-----------------------------------------------------------------------------
(* Ended tasks leave nothing behind.                                       *)

\* Where a datagram comes from.
LEMMA DatagramUsed ==
    ASSUME Attended, NEW p \in Datagrams
    PROVE  p.from \in used
  BY SMT DEF Attended, Datagrams

\* complete_in_flight only takes from the in_flight map.
LEMMA CompleteTakes ==
    ASSUME NEW a, NEW op, NEW r, complete_in_flight(a, op, r)
    PROVE  in_flight' \subseteq in_flight
  BY DEF complete_in_flight

\* A step that adds nothing to what is in flight, and moves no task, address or
\* failure, keeps every operation attended.
LEMMA AttendedKept ==
    ASSUME Attended, UNCHANGED <<home, used, errors, ipc, task>>,
           in_flight' \subseteq in_flight,
           dev'.addr \in used, in_flight' # {} => dev'.registered,
           rx' # NoPacket => rx'.packet.from \in used
    PROVE  Attended'
  BY DEF Attended, Disturbed

\* Every undisturbed operation in flight keeps a task that is looking after it.
LEMMA AttendedStep == TypeInv /\ Honest /\ QueueInv /\ Attended /\ [Next]_vars => Attended'
  <1> SUFFICES ASSUME TypeInv, Honest, QueueInv, Attended, [Next]_vars PROVE Attended'
    OBVIOUS
  <1>t. TypeOK /\ AttemptsLeft  BY DEF TypeInv
  <1>i. \A op \in Op : ipc[op] \in IpcTask  BY <1>t DEF TypeOK
  <1>r. \A op \in Op : task[op] \in RetransmitTask  BY <1>t DEF TypeOK
  <1>f. in_flight \subseteq Op  BY <1>t DEF TypeOK
  <1>d. dev \in [registered : BOOLEAN, addr : Addr, online : BOOLEAN]  BY <1>t DEF TypeOK
  <1>a. dev.addr \in used /\ (in_flight # {} => dev.registered)  BY DEF Attended
  <1>b. rx # NoPacket => rx.packet.from \in used  BY DEF Attended
  \* The IPC task: an address is only looked up before the operation is in flight.
  <1>1. ASSUME NEW op \in Op, Resolve(op) PROVE Attended'
    <2>1. \A o \in Op : o # op => ipc'[o] = ipc[o]  BY <1>1, <1>t, ResolveFacts
    <2>2. ipc'[op].addr \in used
      <3>1. ipc'[op].addr = dev.addr \/ ipc'[op].addr = ipc[op].addr
        BY <1>1, <1>t, ResolveFacts
      <3> QED  BY <3>1 DEF Attended
    <2>3. op \notin in_flight  BY <1>1 DEF Resolve, Attended
    <2>4. UNCHANGED <<home, used, errors, task, in_flight, dev, rx>>
      BY <1>1 DEF Resolve, world
    <2> QED  BY <1>f, <2>1, <2>2, <2>3, <2>4 DEF Attended, Disturbed
  <1>2. ASSUME NEW op \in Op, IpcStep(op) PROVE Attended'
    <2>1. \A o \in Op : (ipc'[o].addr = ipc[o].addr /\ ipc'[o].pc # "idle") \/ ipc'[o] = ipc[o]
      <3>1. CASE Enqueue(op)  BY SMT, <3>1, <1>t, <1>i DEF Enqueue, TypeOK, IpcTask
      <3>2. CASE Answered(op)  BY SMT, <3>2, <1>t, <1>i DEF Answered, TypeOK, IpcTask
      <3>3. CASE Deadline(op)  BY SMT, <3>3, <1>t, <1>i DEF Deadline, TypeOK, IpcTask
      <3> QED  BY <1>2, <3>1, <3>2, <3>3 DEF IpcStep
    <2>2. UNCHANGED <<home, used, errors, task, in_flight, dev, rx>>
      BY <1>2 DEF IpcStep, Enqueue, Answered, Deadline, world
    <2> QED  BY <1>f, <2>1, <2>2 DEF Attended, Disturbed
  \* A new operation comes with its task.
  <1>3. ASSUME dispatch_op PROVE Attended'
    <2>1. UNCHANGED <<home, used, errors, ipc, dev, rx>>
      BY <1>3 DEF dispatch_op, world
    <2>2. CASE UNCHANGED <<in_flight, task>>
      BY <1>a, <1>b, <2>1, <2>2, AttendedKept
    <2>3. ASSUME NEW op \in Op, op = Head(chan), dispatch_one(op) PROVE Attended'
      <3>1. op = chan[1] /\ 1 \in DOMAIN chan  BY SMT, <1>3, <1>t, <2>3 DEF dispatch_op, TypeOK
      <3>2. ipc[op].pc # "idle"  BY <3>1 DEF Honest
      <3>3. task'[op] = NewTask("send") /\ \A o \in Op : o # op => task'[o] = task[o]
        BY <1>t, <2>3 DEF dispatch_one, TypeOK
      <3>4. task'[op].pc = "send"  BY SMT, <3>3 DEF NewTask
      <3>5. /\ in_flight' \subseteq in_flight \cup {op}
            /\ in_flight' # in_flight => dev.registered
        BY <2>3 DEF dispatch_one, At
      <3> QED  BY <1>f, <1>a, <2>1, <3>2, <3>3, <3>4, <3>5 DEF Attended, Disturbed
    <2>4. ASSUME NEW op \in Op, op = Head(chan), dispatch_block(op) PROVE Attended'
      <3>1. op = chan[1] /\ 1 \in DOMAIN chan  BY SMT, <1>3, <1>t, <2>4 DEF dispatch_op, TypeOK
      <3>2. op \notin in_flight  BY <3>1 DEF QueueInv, Queued
      <3>3. in_flight' = in_flight /\ \A o \in Op : o # op => task'[o] = task[o]
        BY <1>t, <2>4 DEF dispatch_block, TypeOK
      <3> QED  BY <1>f, <1>a, <2>1, <3>2, <3>3 DEF Attended, Disturbed
    <2> QED  BY <1>3, <1>t, <2>2, <2>3, <2>4, DispatchCases
  \* The task gives an operation up only if it is not where it should be, or
  \* after it has taken it.
  <1>4. ASSUME NEW op \in Op, Transmit(op) PROVE Attended'
    <2>1. task'[op].pc = "sleep" /\ \A o \in Op : o # op => task'[o] = task[o]
      BY <1>4, <1>t, <1>r DEF Transmit, TypeOK, RetransmitTask
    <2>2. UNCHANGED <<home, used, errors, ipc, dev, rx, in_flight>>
      BY <1>4 DEF Transmit
    <2> QED  BY <1>f, <2>1, <2>2 DEF Attended, Disturbed
  <1>5. ASSUME NEW op \in Op, SendError(op) PROVE Attended'
    <2>1. errors' > 0  BY SMT, <1>5, <1>t, DispatchAssumption DEF SendError, TypeOK
    <2>2. UNCHANGED <<home, used, ipc, dev, rx, in_flight>>
      BY <1>5 DEF SendError
    <2> QED  BY <2>1, <2>2 DEF Attended, Disturbed
  <1>6. ASSUME NEW op \in Op, Wake(op) PROVE Attended'
    <2>1. \A o \in Op : o # op => task'[o] = task[o]  BY <1>6, <1>t DEF Wake, TypeOK
    <2>2. UNCHANGED <<home, used, errors, ipc, dev, rx, in_flight>>
      BY <1>6 DEF Wake, world
    <2>3. op \in in_flight /\ ~Disturbed(op) => task'[op].pc \in {"send", "sleep", "final"}
      <3> SUFFICES ASSUME op \in in_flight, ~Disturbed(op)
                   PROVE  task'[op].pc \in {"send", "sleep", "final"}
        OBVIOUS
      <3>1. dev.registered /\ dev.addr = ipc[op].addr  BY DEF Attended, Disturbed
      <3>2. is_in_flight(ipc[op].addr, op)  BY <3>1 DEF is_in_flight, At
      <3>3. task'[op] = Retry(task[op])  BY <1>6, <1>t, <3>2 DEF Wake, TypeOK
      <3>4. task[op].attempts < MaxRetransmit  BY <1>6, <1>t DEF Wake, AttemptsLeft
      <3> QED  BY <1>r, <3>3, <3>4, RetryType
    <2> QED  BY <1>f, <2>1, <2>2, <2>3 DEF Attended, Disturbed
  <1>7. ASSUME NEW op \in Op, Final(op) PROVE Attended'
    <2>1. \A o \in Op : o # op => task'[o] = task[o]  BY <1>7, <1>t DEF Final, TypeOK
    <2>2. UNCHANGED <<home, used, errors, ipc, dev, rx>>
      BY <1>7 DEF Final, world
    <2>3. in_flight' \subseteq in_flight  BY <1>7, CompleteTakes DEF Final
    <2>4. op \in in_flight' => Disturbed(op)
      <3> SUFFICES ASSUME op \in in_flight', ~Disturbed(op) PROVE FALSE
        OBVIOUS
      <3>1. op \in in_flight  BY <2>3
      <3>2. dev.registered /\ dev.addr = ipc[op].addr  BY <3>1 DEF Attended, Disturbed
      <3>3. is_in_flight(ipc[op].addr, op)  BY <3>1, <3>2 DEF is_in_flight, At
      <3> QED  BY <1>7, <3>3 DEF Final, complete_in_flight
    <2> QED  BY <1>f, <2>1, <2>2, <2>3, <2>4 DEF Attended, Disturbed
  <1>8. ASSUME NEW op \in Op, MarkOffline(op) \/ AnnounceOffline(op) PROVE Attended'
    <2>1. \A o \in Op : o # op => task'[o] = task[o]
      BY <1>8, <1>t DEF MarkOffline, AnnounceOffline, TypeOK
    <2>2. UNCHANGED <<home, used, errors, ipc, rx, in_flight>>
      BY <1>8 DEF MarkOffline, AnnounceOffline, world
    <2>3. task[op].pc \in {"mark", "announce"}  BY <1>8 DEF MarkOffline, AnnounceOffline
    <2>4. op \in in_flight => Disturbed(op)  BY <2>3 DEF Attended
    <2>5. dev' = dev \/ dev' = [dev EXCEPT !.online = FALSE]
      BY <1>8 DEF MarkOffline, AnnounceOffline
    <2>6. dev'.addr = dev.addr /\ dev'.registered = dev.registered  BY <1>d, <2>5
    <2> QED  BY <1>f, <2>1, <2>2, <2>4, <2>6 DEF Attended, Disturbed
  \* The server task: every packet comes from an address the device has used.
  <1>9. ASSUME NEW p \in Datagrams, Receive(p) PROVE Attended'
    <2>1. UNCHANGED <<home, used, errors, ipc, task, in_flight>>
      BY <1>9 DEF Receive, world
    <2>2. rx'.packet = p /\ p.from \in used  BY SMT, <1>9, DatagramUsed DEF Receive
    <2>3. dev' = dev \/ dev' = [dev EXCEPT !.online = TRUE]  BY <1>9 DEF Receive
    <2>4. dev'.addr = dev.addr /\ dev'.registered = dev.registered  BY <1>d, <2>3
    <2> QED  BY <1>a, <2>1, <2>2, <2>4, AttendedKept
  <1>10. ASSUME AnnounceOnline PROVE Attended'
    <2>1. UNCHANGED <<home, used, errors, ipc, task, in_flight, dev>>
      BY <1>10 DEF AnnounceOnline, world
    <2>2. rx # NoPacket /\ rx'.packet = rx.packet
      BY <1>10, <1>t, RxThere, RxType DEF AnnounceOnline
    <2> QED  BY <1>a, <1>b, <2>1, <2>2, AttendedKept
  <1>11. ASSUME handle_ack PROVE Attended'
    <2>1. UNCHANGED <<home, used, errors, ipc, dev>> /\ rx' = NoPacket
      BY <1>11 DEF handle_ack, world
    <2>2. in_flight' \subseteq in_flight
      BY <1>11, CompleteTakes DEF handle_ack, complete_block
    <2>3. CASE UNCHANGED task  BY <1>a, <2>1, <2>2, <2>3, AttendedKept
    <2>4. CASE complete_block(rx.packet.op, rx.packet.kind)
      <3>1. \A o \in Op : o # rx.packet.op => task'[o] = task[o]
        BY <1>t, <2>4 DEF complete_block, TypeOK
      <3>2. rx.packet.op \in in_flight => Disturbed(rx.packet.op)
        BY <2>4 DEF complete_block, Attended
      <3> QED  BY <1>f, <1>a, <2>1, <2>2, <3>1, <3>2 DEF Attended, Disturbed
    <2> QED  BY <1>11, <2>3, <2>4 DEF handle_ack
  <1>12. ASSUME handle_registration PROVE Attended'
    <2>1. UNCHANGED <<home, used, errors, ipc, task>> /\ rx' = NoPacket
      BY <1>12 DEF handle_registration, world
    <2>2. rx.packet.from \in used  BY <1>12, <1>b, RxThere DEF handle_registration
    <2>3. CASE dev.registered
      <3>1. dev' = [dev EXCEPT !.addr = rx.packet.from] /\ in_flight' = in_flight
        BY <1>12, <2>3 DEF handle_registration
      <3>2. dev'.addr = rx.packet.from /\ dev'.registered = dev.registered  BY <1>d, <3>1
      <3> QED  BY <2>1, <2>2, <2>3, <3>1, <3>2, AttendedKept
    <2>4. CASE ~dev.registered
      <3>1. dev'.addr = rx.packet.from /\ in_flight' = {}
        BY SMT, <1>12, <2>4 DEF handle_registration
      <3> QED  BY <2>1, <2>2, <3>1, AttendedKept
    <2> QED  BY <2>3, <2>4
  <1>13. ASSUME Removed PROVE in_flight' = {} /\ dev'.addr = dev.addr
    <2>1. in_flight' = {} /\ dev' = [dev EXCEPT !.registered = FALSE]  BY <1>13 DEF Removed
    <2> QED  BY <1>d, <2>1
  <1>14. ASSUME handle_delete PROVE Attended'
    <2>1. UNCHANGED <<home, used, errors, ipc, task>> /\ rx' = NoPacket
      BY <1>14 DEF handle_delete, world
    <2>2. Removed \/ UNCHANGED <<dev, in_flight>>  BY <1>14 DEF handle_delete
    <2> QED  BY <1>a, <1>13, <2>1, <2>2, AttendedKept
  <1>15. ASSUME handle_other PROVE Attended'
    <2>1. UNCHANGED <<home, used, errors, ipc, task, dev, in_flight>> /\ rx' = NoPacket
      BY <1>15 DEF handle_other, world
    <2> QED  BY <1>a, <2>1, AttendedKept
  <1>16. ASSUME NEW expired \in BOOLEAN, Housekeeping(expired) PROVE Attended'
    <2>1. UNCHANGED <<home, used, errors, ipc, task, rx>>  BY <1>16 DEF Housekeeping
    <2>2. Removed \/ (dev' = dev /\ in_flight' \subseteq in_flight)
      BY <1>16 DEF Housekeeping
    <2> QED  BY <1>a, <1>b, <1>13, <2>1, <2>2, AttendedKept
  \* The device and the clock.
  <1>17. ASSUME NEW op \in Op, NEW r \in Reply, DeviceAnswers(op, r) PROVE Attended'
    <2>1. UNCHANGED <<home, used, errors, ipc, task, dev, in_flight, rx>>
      BY <1>17 DEF DeviceAnswers, server
    <2> QED  BY <1>a, <1>b, <2>1, AttendedKept
  <1>18. ASSUME NEW a \in Addr, DeviceMoves(a) PROVE Attended'
    <2>1. UNCHANGED <<errors, ipc, task, dev, in_flight, rx>>
          /\ home' = a /\ used' = used \cup {a} /\ a # home
      BY <1>18 DEF DeviceMoves, server
    <2>2. \A op \in Op : Disturbed(op)'
      BY SMT, <2>1 DEF Attended, Disturbed
    <2> QED  BY <1>f, <2>1, <2>2 DEF Attended
  <1>19. ASSUME Tick PROVE Attended'
    <2>1. \A op \in Op : ipc'[op].pc = ipc[op].pc /\ ipc'[op].addr = ipc[op].addr
      BY <1>19, <1>i DEF Tick, IpcTask
    <2>2. \A op \in Op : task'[op].pc = task[op].pc
      BY <1>19, <1>r DEF Tick, RetransmitTask
    <2>3. UNCHANGED <<home, used, errors, dev, in_flight, rx>>  BY <1>19 DEF Tick, world
    <2> QED  BY <1>f, <2>1, <2>2, <2>3 DEF Attended, Disturbed
  <1>20. ASSUME UNCHANGED vars PROVE Attended'
    BY <1>20 DEF vars, Attended, Disturbed
  \* A block-wise task has nothing in flight, and pings touch nothing here.
  <1>21. ASSUME NEW op \in Op, BlockFails(op) PROVE Attended'
    <2>1. \A o \in Op : o # op => task'[o] = task[o]  BY <1>21, <1>t DEF BlockFails, TypeOK
    <2>2. UNCHANGED <<home, used, errors, ipc, dev, rx, in_flight>>
      BY <1>21 DEF BlockFails, world
    <2>3. op \in in_flight => Disturbed(op)  BY <1>21 DEF BlockFails, Attended
    <2> QED  BY <1>f, <2>1, <2>2, <2>3 DEF Attended, Disturbed
  <1>22. ASSUME SendPing \/ \E op \in Op : SendBlock(op) PROVE Attended'
    <2>1. UNCHANGED <<home, used, errors, ipc, task, dev, in_flight, rx>>
      BY <1>22 DEF SendPing, SendBlock, server, world
    <2> QED  BY <1>a, <1>b, <2>1, AttendedKept
  <1> QED
    BY <1>1, <1>2, <1>3, <1>4, <1>5, <1>6, <1>7, <1>8, <1>9, <1>10, <1>11, <1>12, <1>14,
       <1>15, <1>16, <1>17, <1>18, <1>19, <1>20, <1>21, <1>22
    DEF Next, TaskStep, ServerStep

-----------------------------------------------------------------------------
(* The retransmit task is done before the deadline.                        *)

\* The waits double, and twice a wait that is waited is within the deadline.
LEMMA BackoffFacts ==
    /\ Backoff[0] = 1
    /\ \A n \in 0 .. MaxRetransmit - 1 :
         /\ Backoff[n] \in Nat
         /\ Backoff[n + 1] = 2 * Backoff[n]
         /\ 2 * Backoff[n] <= IpcTimeout
  <1>1. Backoff \in [0 .. MaxRetransmit -> 1 .. IpcTimeout] /\ Doubles(Backoff)
    BY BackoffAssumption DEF Backoff
  <1>2. SUFFICES ASSUME NEW n \in 0 .. MaxRetransmit - 1
                 PROVE  /\ Backoff[n] \in Nat
                        /\ Backoff[n + 1] = 2 * Backoff[n]
                        /\ 2 * Backoff[n] <= IpcTimeout
    BY <1>1 DEF Doubles
  <1>3. n \in 0 .. MaxRetransmit /\ n + 1 \in 1 .. MaxRetransmit /\ (n + 1) - 1 = n
        /\ n + 1 \in 0 .. MaxRetransmit
    BY SMT, DispatchAssumption
  <1>4. Backoff[n] \in 1 .. IpcTimeout /\ Backoff[n + 1] \in 1 .. IpcTimeout
    BY <1>1, <1>3
  <1>5. Backoff[n + 1] = 2 * Backoff[n]
    BY <1>1, <1>3 DEF Doubles
  <1> QED  BY SMT, <1>4, <1>5, DispatchAssumption

\* Whatever leaves the in_flight map is answered, and nothing else is.
Takes ==
    /\ in_flight' \subseteq in_flight
    /\ \A o \in Op : IF o \in in_flight /\ o \notin in_flight'
                     THEN result'[o] # "none" ELSE result'[o] = result[o]

\* No task is spawned.
NoneStarted == \A o \in Op : task[o].pc = "none" => task'[o].pc = "none"

\* An operation that is completed is answered.
LEMMA CompleteAnswers ==
    ASSUME NEW a, NEW op, NEW r, r # "none", complete_in_flight(a, op, r)
    PROVE  Takes
  <1>1. CASE is_in_flight(a, op)
    BY <1>1 DEF complete_in_flight, Settle, Takes, is_in_flight
  <1>2. CASE ~is_in_flight(a, op)
    BY <1>2 DEF complete_in_flight, Takes
  <1> QED  BY <1>1, <1>2

\* When the device is removed all its operations are answered.
LEMMA RemovedAnswers ==
    ASSUME Removed
    PROVE  Takes
  BY DEF Removed, Settle, Takes

\* A step that answers what it takes, and leaves every task in step that it
\* touches, keeps the deadline.
LEMMA PromptKept ==
    ASSUME Prompt, Takes, UNCHANGED <<chan, ipc, used, errors>>, NoneStarted,
           \A o \in in_flight' : ipc[o].pc = "wait" /\ ~Disturbed(o) /\ InStep(o) => InStep(o)'
    PROVE  Prompt'
  <1>1. \A o \in Op : (Queued(o)' <=> Queued(o)) /\ (Disturbed(o)' <=> Disturbed(o))
    BY DEF Queued, Disturbed
  <1>2. QueueInv'
    <2>1. \A o \in Op : Queued(o) =>
            result'[o] = "none" /\ o \notin in_flight' /\ task'[o].pc = "none"
      BY DEF Prompt, QueueInv, Takes, NoneStarted
    <2>2. \A o \in Op : ipc[o].pc \in {"idle", "enqueue"} =>
            result'[o] = "none" /\ o \notin in_flight' /\ task'[o].pc = "none"
      BY ZenonT(60) DEF Prompt, QueueInv, Takes, NoneStarted
    <2> QED  BY <1>1, <2>1, <2>2 DEF Prompt, QueueInv
  <1>3. ASSUME NEW o \in Op, ipc'[o].pc = "wait", result'[o] = "none", ~Disturbed(o)',
               ~ipc'[o].large
        PROVE  Queued(o)' \/ (o \in in_flight' /\ InStep(o)')
    <2>1. result[o] = "none" /\ (o \in in_flight => o \in in_flight')
      BY <1>3 DEF Takes
    <2>2. Queued(o) \/ (o \in in_flight /\ InStep(o))
      BY <1>1, <1>3, <2>1 DEF Prompt
    <2> QED  BY <1>1, <1>3, <2>1, <2>2
  <1>4. \A o \in Op : ipc'[o].answer = "deadline" =>
          ipc'[o].pc = "done" /\ (Disturbed(o)' \/ ipc'[o].large)
    BY <1>1 DEF Prompt
  <1> QED  BY <1>2, <1>3, <1>4 DEF Prompt

\* A step that disturbs every operation keeps the deadline.
LEMMA PromptDisturbed ==
    ASSUME Prompt, UNCHANGED <<chan, ipc, result, in_flight>>, NoneStarted,
           \A o \in Op : Disturbed(o)'
    PROVE  Prompt'
  <1>1. \A o \in Op : Queued(o)' <=> Queued(o)  BY DEF Queued
  <1> QED  BY <1>1 DEF Prompt, QueueInv, NoneStarted

\* Only tasks that have been spawned take steps.
LEMMA TaskStepStarted ==
    ASSUME TypeOK, NEW op \in Op, TaskStep(op)
    PROVE  NoneStarted
  <1>1. task[op].pc # "none" /\ \A o \in Op : o # op => task'[o] = task[o]
    BY DEF TaskStep, Transmit, SendError, Wake, Final, SendBlock, BlockFails, MarkOffline,
           AnnounceOffline, server, TypeOK
  <1> QED  BY <1>1 DEF NoneStarted

\* A block-wise task that ends answers its operation, which is neither queued
\* nor waited for by the deadline.
LEMMA PromptBlock ==
    ASSUME Prompt, NEW op \in Op, task[op].pc = "block", NEW r, r # "none", Settle({op}, r),
           UNCHANGED <<chan, ipc, in_flight, used, errors>>,
           \A o \in Op : o # op => task'[o] = task[o]
    PROVE  Prompt'
  <1>1. \A o \in Op : (Queued(o)' <=> Queued(o)) /\ (Disturbed(o)' <=> Disturbed(o))
    BY DEF Queued, Disturbed
  <1>2. ~Queued(op) /\ ipc[op].pc \notin {"idle", "enqueue"}
    BY DEF Prompt, QueueInv
  <1>3. result'[op] = r /\ \A o \in Op : o # op => result'[o] = result[o]
    BY DEF Settle
  <1>4. QueueInv'
    <2>1. ASSUME NEW o \in Op, ipc[o].pc \in {"idle", "enqueue"} \/ Queued(o)
          PROVE  result'[o] = "none" /\ o \notin in_flight' /\ task'[o].pc = "none"
      <3>1. o # op  BY <1>2, <2>1
      <3>2. result[o] = "none" /\ o \notin in_flight /\ task[o].pc = "none"
        BY <2>1 DEF Prompt, QueueInv
      <3> QED  BY <1>3, <3>1, <3>2
    <2> QED  BY <1>1, <2>1 DEF Prompt, QueueInv
  <1>5. \A o \in Op : o # op => (InStep(o)' <=> InStep(o))  BY DEF InStep
  <1>6. ASSUME NEW o \in Op, ipc'[o].pc = "wait", result'[o] = "none", ~Disturbed(o)',
               ~ipc'[o].large
        PROVE  Queued(o)' \/ (o \in in_flight' /\ InStep(o)')
    <2>1. o # op  BY <1>3, <1>6
    <2>2. Queued(o) \/ (o \in in_flight /\ InStep(o))
      BY <1>1, <1>3, <1>6, <2>1 DEF Prompt
    <2> QED  BY <1>1, <1>5, <2>1, <2>2
  <1>7. \A o \in Op : ipc'[o].answer = "deadline" =>
          ipc'[o].pc = "done" /\ (Disturbed(o)' \/ ipc'[o].large)
    BY <1>1 DEF Prompt
  <1> QED  BY <1>4, <1>6, <1>7 DEF Prompt

\* Every step keeps an undisturbed operation ahead of its deadline.
LEMMA PromptStep == TypeInv /\ Attended /\ Prompt /\ [Next]_vars => Prompt'
  <1> SUFFICES ASSUME TypeInv, Attended, Prompt, [Next]_vars PROVE Prompt'
    OBVIOUS
  <1>t. TypeOK /\ AttemptsLeft  BY DEF TypeInv
  <1>i. \A op \in Op : ipc[op] \in IpcTask  BY <1>t DEF TypeOK
  <1>r. \A op \in Op : task[op] \in RetransmitTask  BY <1>t DEF TypeOK
  <1>f. in_flight \subseteq Op  BY <1>t DEF TypeOK
  <1>q. QueueInv  BY DEF Prompt
  <1>w. \A o \in Op : ipc[o].pc = "wait" /\ result[o] = "none" /\ ~Disturbed(o)
                         /\ ~ipc[o].large =>
            Queued(o) \/ (o \in in_flight /\ InStep(o))
    BY DEF Prompt
  <1>e. \A o \in Op : ipc[o].answer = "deadline" =>
          ipc[o].pc = "done" /\ (Disturbed(o) \/ ipc[o].large)
    BY DEF Prompt
  \* The IPC task.
  <1>1. ASSUME NEW op \in Op, Resolve(op) PROVE Prompt'
    <2>1. \A o \in Op : o # op => ipc'[o] = ipc[o]  BY <1>1, <1>t, ResolveFacts
    <2>2. ipc[op].pc = "idle" /\ UNCHANGED <<chan, result, in_flight, task, used, errors>>
      BY <1>1 DEF Resolve, world
    <2>3. ipc'[op].pc # "wait" /\ ipc'[op].answer \in {ipc[op].answer, "unknown"}
      BY <1>1, <1>t, ResolveFacts
    <2>4. ~Queued(op)  BY <1>q, <2>2 DEF QueueInv
    <2>5. ipc'[op].answer # "deadline"  BY <1>e, <2>2, <2>3
    <2>6. \A o \in Op : Queued(o)' <=> Queued(o)  BY <2>2 DEF Queued
    <2>7. \A o \in Op : o # op => (Disturbed(o)' <=> Disturbed(o)) /\ (InStep(o)' <=> InStep(o))
      BY <2>1, <2>2 DEF Disturbed, InStep
    <2>8. QueueInv'  BY <1>q, <2>1, <2>2, <2>4, <2>6 DEF QueueInv
    <2> QED  BY <1>w, <1>e, <2>1, <2>2, <2>3, <2>5, <2>6, <2>7, <2>8 DEF Prompt
  <1>2. ASSUME NEW op \in Op, Enqueue(op) PROVE Prompt'
    <2>1. \A o \in Op : o # op => ipc'[o] = ipc[o]  BY <1>2, <1>t DEF Enqueue, TypeOK
    <2>2. /\ ipc[op].pc = "enqueue" /\ chan' = Append(chan, op)
          /\ UNCHANGED <<result, in_flight, task, used, errors>>
      BY <1>2 DEF Enqueue, world
    <2>3. ipc'[op].pc = "wait" /\ ipc'[op].left = IpcTimeout /\ ipc'[op].answer = ipc[op].answer
      BY <1>2, <1>t, <1>i DEF Enqueue, TypeOK, IpcTask
    <2>4. ~Queued(op)  BY <1>q, <2>2 DEF QueueInv
    <2>5. /\ DOMAIN chan' = DOMAIN chan \cup {Len(chan) + 1}
          /\ chan'[Len(chan) + 1] = op
          /\ \A i \in DOMAIN chan : chan'[i] = chan[i]
      BY SMT, <1>t, <2>2 DEF TypeOK
    <2>6. \A o \in Op : Queued(o)' <=> Queued(o) \/ o = op  BY <2>5 DEF Queued
    <2>7. \A o \in Op : o # op => (Disturbed(o)' <=> Disturbed(o)) /\ (InStep(o)' <=> InStep(o))
      BY <2>1, <2>2 DEF Disturbed, InStep
    <2>8. \A i, j \in DOMAIN chan' : chan'[i] = chan'[j] /\ chan'[i] # Ping => i = j
      BY <1>q, <2>4, <2>5 DEF Queued, QueueInv
    <2>9. result[op] = "none" /\ op \notin in_flight /\ task[op].pc = "none"  BY <1>q, <2>2 DEF QueueInv
    <2>10. QueueInv'
      <3>1. ASSUME NEW o \in Op, Queued(o)'
            PROVE  ipc'[o].pc = "wait" /\ ipc'[o].left = IpcTimeout
        BY <1>q, <2>1, <2>3, <2>6, <3>1 DEF QueueInv
      <3>2. ASSUME NEW o \in Op, ipc'[o].pc \in {"idle", "enqueue"} \/ Queued(o)'
            PROVE  result'[o] = "none" /\ o \notin in_flight' /\ task'[o].pc = "none"
        BY <1>q, <2>1, <2>2, <2>6, <2>9, <3>2 DEF QueueInv
      <3> QED  BY <2>8, <3>1, <3>2 DEF QueueInv
    <2>11. ipc'[op].answer # "deadline"  BY <1>e, <2>2, <2>3
    <2> QED  BY <1>w, <1>e, <2>1, <2>2, <2>6, <2>7, <2>10, <2>11 DEF Prompt
  <1>3. ASSUME NEW op \in Op, Answered(op) PROVE Prompt'
    <2>1. \A o \in Op : o # op => ipc'[o] = ipc[o]  BY <1>3, <1>t DEF Answered, TypeOK
    <2>2. result[op] # "none" /\ UNCHANGED <<chan, result, in_flight, task, used, errors>>
      BY <1>3 DEF Answered, world
    <2>3. ipc'[op].pc = "done" /\ ipc'[op].answer = result[op]
      BY <1>3, <1>t, <1>i DEF Answered, TypeOK, IpcTask
    <2>4. ~Queued(op)  BY <1>q, <2>2 DEF QueueInv
    <2>5. ipc'[op].answer # "deadline"
      <3>1. result[op] \in Outcome  BY <1>t DEF TypeOK
      <3> QED  BY <2>3, <3>1 DEF Outcome, Reply
    <2>6. \A o \in Op : Queued(o)' <=> Queued(o)  BY <2>2 DEF Queued
    <2>7. \A o \in Op : o # op => (Disturbed(o)' <=> Disturbed(o)) /\ (InStep(o)' <=> InStep(o))
      BY <2>1, <2>2 DEF Disturbed, InStep
    <2>8. QueueInv'  BY <1>q, <2>1, <2>2, <2>3, <2>4, <2>6 DEF QueueInv
    <2> QED  BY <1>w, <1>e, <2>1, <2>2, <2>3, <2>5, <2>6, <2>7, <2>8 DEF Prompt
  \* The deadline itself passes only with the task out of step.
  <1>4. ASSUME NEW op \in Op, Deadline(op) PROVE Prompt'
    <2>1. \A o \in Op : o # op => ipc'[o] = ipc[o]  BY <1>4, <1>t DEF Deadline, TypeOK
    <2>2. /\ ipc[op].pc = "wait" /\ ipc[op].left = 0 /\ result[op] = "none"
          /\ UNCHANGED <<chan, result, in_flight, task, used, errors>>
      BY <1>4 DEF Deadline, world
    <2>3. ipc'[op].pc = "done" /\ ipc'[op].addr = ipc[op].addr /\ ipc'[op].large = ipc[op].large
      BY ZenonT(60), <1>4, <1>t, <1>i DEF Deadline, TypeOK, IpcTask
    <2>4. ~Queued(op)
      <3>1. IpcTimeout # 0  BY SMT, DispatchAssumption
      <3> QED  BY <1>q, <2>2, <3>1 DEF QueueInv
    <2>5. ~InStep(op)
      <3>1. SUFFICES ASSUME InStep(op) PROVE FALSE
        OBVIOUS
      <3>2. task[op].timeout \in Nat /\ task[op].timer \in Nat /\ task[op].attempts \in Nat
        BY SMT, <1>r, DispatchAssumption DEF RetransmitTask
      <3>3. task[op].pc \in {"send", "sleep"} => 2 * task[op].timeout <= IpcTimeout
        <4>1. SUFFICES ASSUME task[op].pc \in {"send", "sleep"}
                       PROVE  2 * task[op].timeout <= IpcTimeout
          OBVIOUS
        <4>2. task[op].timeout = Backoff[task[op].attempts]  BY <3>1, <4>1 DEF InStep
        <4>3. task[op].attempts < MaxRetransmit  BY <1>t, <4>1 DEF AttemptsLeft
        <4>4. task[op].attempts \in 0 .. MaxRetransmit - 1
          BY SMT, <3>2, <4>3, DispatchAssumption
        <4> QED  BY <4>2, <4>4, BackoffFacts
      <3> QED  BY SMT, <2>2, <3>1, <3>2, <3>3, DispatchAssumption DEF InStep
    <2>6. Disturbed(op) \/ ipc[op].large  BY <1>w, <2>2, <2>4, <2>5
    <2>7. \A o \in Op : (Queued(o)' <=> Queued(o)) /\ (Disturbed(o)' <=> Disturbed(o))
      BY <2>1, <2>2, <2>3 DEF Queued, Disturbed
    <2>8. \A o \in Op : o # op => (InStep(o)' <=> InStep(o))
      BY <2>1, <2>2 DEF InStep
    <2>9. QueueInv'  BY <1>q, <2>1, <2>2, <2>3, <2>4, <2>7 DEF QueueInv
    <2> QED  BY <1>w, <1>e, <2>1, <2>2, <2>3, <2>6, <2>7, <2>8, <2>9 DEF Prompt
  \* An operation that leaves the channel starts its task with the clock at zero.
  <1>5. ASSUME dispatch_op PROVE Prompt'
    <2>0. PICK op : op = Head(chan)  OBVIOUS
    <2>1. /\ op = chan[1] /\ 1 \in DOMAIN chan
          /\ \A i \in DOMAIN chan' : i + 1 \in DOMAIN chan /\ chan'[i] = chan[i + 1] /\ i + 1 # 1
          /\ \A i \in DOMAIN chan : i # 1 => i - 1 \in DOMAIN chan' /\ chan'[i - 1] = chan[i]
          /\ \A i, j \in DOMAIN chan' : i + 1 = j + 1 => i = j
      BY SMTT(30), <1>5, <1>t, <2>0 DEF dispatch_op, TypeOK
    <2>2. op \in Op => ipc[op].pc = "wait" /\ ipc[op].left = IpcTimeout
      BY <1>q, <2>1 DEF QueueInv, Queued
    <2>3. UNCHANGED <<ipc, used, errors>>  BY <1>5 DEF dispatch_op, world
    <2>4. \A o \in Op : Queued(o)' <=> Queued(o) /\ o # op
      <3>p. Ping \notin Op  BY DispatchAssumption
      <3>1. ASSUME NEW o \in Op, Queued(o)' PROVE Queued(o) /\ o # op
        <4>1. PICK i \in DOMAIN chan' : chan'[i] = o  BY <3>1 DEF Queued
        <4>2. i + 1 \in DOMAIN chan /\ chan[i + 1] = o /\ i + 1 # 1  BY <2>1, <4>1
        <4>3. chan[i + 1] # Ping  BY <3>p, <4>2
        <4>4. chan[i + 1] # chan[1]  BY <1>q, <2>1, <4>2, <4>3 DEF QueueInv
        <4>5. o # op  BY <2>1, <4>2, <4>4
        <4> QED  BY <4>2, <4>5 DEF Queued
      <3>2. ASSUME NEW o \in Op, Queued(o), o # op PROVE Queued(o)'
        BY ZenonT(60), <2>1, <3>2 DEF Queued
      <3> QED  BY <3>1, <3>2
    <2>5. ASSUME NEW i \in DOMAIN chan', NEW j \in DOMAIN chan', chan'[i] = chan'[j],
                 chan'[i] # Ping
          PROVE  i = j
      <3>1. i + 1 \in DOMAIN chan /\ j + 1 \in DOMAIN chan /\ chan[i + 1] = chan[j + 1]
            /\ chan[i + 1] # Ping
        BY <2>1, <2>5
      <3>2. i + 1 = j + 1  BY <1>q, <3>1 DEF QueueInv
      <3> QED  BY <2>1, <3>2
    <2>6. ASSUME NEW o \in Op, o # op
          PROVE  /\ result'[o] = result[o]
                 /\ o \in in_flight' <=> o \in in_flight
                 /\ task'[o] = task[o]
      <3>1. CASE UNCHANGED <<in_flight, result, task>>  BY <3>1
      <3>2. CASE op \in Op /\ dispatch_one(op)
        <4>1. task'[o] = task[o]  BY <1>t, <2>6, <3>2 DEF dispatch_one, TypeOK
        <4>2. CASE At(ipc[op].addr)
          BY <2>6, <3>2, <4>1, <4>2 DEF dispatch_one
        <4>3. CASE ~At(ipc[op].addr)
          BY <2>6, <3>2, <4>1, <4>3 DEF dispatch_one, Settle
        <4> QED  BY <4>2, <4>3
      <3>3. CASE op \in Op /\ dispatch_block(op)
        BY <1>t, <2>6, <3>3 DEF dispatch_block, TypeOK
      <3> QED  BY <1>5, <1>t, <2>0, <3>1, <3>2, <3>3, DispatchCases
    <2>7. ASSUME op \in Op, ~ipc[op].large
          PROVE  (result'[op] = "none" => op \in in_flight') /\ InStep(op)'
      <3>0. dispatch_one(op)
        <4>1. Ping \notin Op  BY DispatchAssumption
        <4> QED  BY <1>5, <1>t, <2>0, <2>7, <4>1, DispatchCases DEF dispatch_block
      <3>1. task'[op] = NewTask("send")  BY <1>t, <2>7, <3>0 DEF dispatch_one, TypeOK
      <3>2. task'[op].pc = "send" /\ task'[op].attempts = 0 /\ task'[op].timeout = 1
        BY SMT, <3>1 DEF NewTask
      <3>3. ipc'[op].left = IpcTimeout  BY <2>2, <2>3, <2>7
      <3>4. InStep(op)'  BY <3>2, <3>3, BackoffFacts DEF InStep
      <3>5. result'[op] = "none" => op \in in_flight'
        BY <2>7, <3>0 DEF dispatch_one, Settle
      <3> QED  BY <3>4, <3>5
    <2>8. ASSUME NEW o \in Op
          PROVE  (Disturbed(o)' <=> Disturbed(o)) /\ (o # op => (InStep(o)' <=> InStep(o)))
      <3>1. Disturbed(o)' <=> Disturbed(o)  BY <2>3 DEF Disturbed
      <3>2. ASSUME o # op PROVE InStep(o)' <=> InStep(o)
        <4>1. task'[o] = task[o] /\ ipc'[o] = ipc[o]  BY <2>3, <2>6, <3>2
        <4> QED  BY <4>1 DEF InStep
      <3> QED  BY <3>1, <3>2
    <2>9. QueueInv'
      <3>1. ASSUME NEW o \in Op, Queued(o)'
            PROVE  ipc'[o].pc = "wait" /\ ipc'[o].left = IpcTimeout
        BY <1>q, <2>3, <2>4, <3>1 DEF QueueInv
      <3>2. ASSUME NEW o \in Op, ipc'[o].pc \in {"idle", "enqueue"} \/ Queued(o)'
            PROVE  result'[o] = "none" /\ o \notin in_flight' /\ task'[o].pc = "none"
        <4>1. o # op  BY <2>2, <2>3, <2>4, <3>2
        <4> QED  BY <1>q, <2>3, <2>4, <2>6, <3>2, <4>1 DEF QueueInv
      <3> QED  BY <2>5, <3>1, <3>2 DEF QueueInv
    <2>10. ASSUME NEW o \in Op, ipc'[o].pc = "wait", result'[o] = "none", ~Disturbed(o)',
                  ~ipc'[o].large
           PROVE  Queued(o)' \/ (o \in in_flight' /\ InStep(o)')
      <3>1. CASE o = op  BY <2>3, <2>7, <2>10, <3>1
      <3>2. CASE o # op
        <4>1. ipc[o].pc = "wait" /\ result[o] = "none" /\ ~Disturbed(o) /\ ~ipc[o].large
          BY <2>3, <2>6, <2>8, <2>10, <3>2
        <4>2. Queued(o) \/ (o \in in_flight /\ InStep(o))  BY <1>w, <4>1
        <4> QED  BY <2>4, <2>6, <2>8, <3>2, <4>2
      <3> QED  BY <3>1, <3>2
    <2> QED  BY <1>e, <2>3, <2>8, <2>9, <2>10 DEF Prompt
  \* The retransmit task.
  <1>n. ASSUME NEW op \in Op, TaskStep(op) PROVE NoneStarted
    BY <1>n, <1>t, TaskStepStarted
  <1>6. ASSUME NEW op \in Op, Transmit(op) PROVE Prompt'
    <2>1. UNCHANGED <<chan, ipc, result, in_flight, used, errors>>  BY <1>6 DEF Transmit
    <2>2. \A o \in Op : o # op => task'[o] = task[o]  BY <1>6, <1>t DEF Transmit, TypeOK
    <2>3. /\ task'[op].pc = "sleep" /\ task'[op].timer = task[op].timeout
          /\ task'[op].timeout = task[op].timeout /\ task'[op].attempts = task[op].attempts
      BY <1>6, <1>t, <1>r DEF Transmit, TypeOK, RetransmitTask
    <2>4. InStep(op) => InStep(op)'
      <3>1. task[op].timeout \in Nat /\ ipc[op].left \in Nat
        BY SMT, <1>r, <1>i, DispatchAssumption DEF RetransmitTask, IpcTask
      <3>2. task[op].pc = "send"  BY <1>6 DEF Transmit
      <3> QED  BY SMT, <2>1, <2>3, <3>1, <3>2, DispatchAssumption DEF InStep
    <2>5. \A o \in Op : o # op => (InStep(o)' <=> InStep(o))  BY <2>1, <2>2 DEF InStep
    <2>6. Takes  BY <2>1 DEF Takes
    <2>n. NoneStarted  BY <1>6, <1>n DEF TaskStep
    <2> QED  BY <2>n, <1>f, <2>1, <2>4, <2>5, <2>6, PromptKept
  <1>7. ASSUME NEW op \in Op, SendError(op) PROVE Prompt'
    <2>1. errors' > 0  BY SMT, <1>7, <1>t, DispatchAssumption DEF SendError, TypeOK
    <2>2. UNCHANGED <<chan, ipc, result, in_flight>>  BY <1>7 DEF SendError
    <2>3. NoneStarted  BY <1>7, <1>n DEF TaskStep
    <2> QED  BY <2>1, <2>2, <2>3, PromptDisturbed DEF Disturbed
  <1>8. ASSUME NEW op \in Op, Wake(op) PROVE Prompt'
    <2>1. UNCHANGED <<chan, ipc, result, in_flight, used, errors>>  BY <1>8 DEF Wake, world
    <2>2. \A o \in Op : o # op => task'[o] = task[o]  BY <1>8, <1>t DEF Wake, TypeOK
    <2>3. ASSUME op \in in_flight, ~Disturbed(op), InStep(op) PROVE InStep(op)'
      <3>1. dev.registered /\ dev.addr = ipc[op].addr  BY <2>3 DEF Attended, Disturbed
      <3>2. is_in_flight(ipc[op].addr, op)  BY <2>3, <3>1 DEF is_in_flight, At
      <3>3. task'[op] = Retry(task[op])  BY <1>8, <1>t, <3>2 DEF Wake, TypeOK
      <3>4. task[op].pc = "sleep" /\ task[op].timer = 0  BY <1>8 DEF Wake
      <3>5. task[op].attempts < MaxRetransmit  BY <1>t, <3>4 DEF AttemptsLeft
      <3>6. task[op].attempts \in Nat /\ task[op].timeout \in Nat /\ ipc[op].left \in Nat
        BY SMT, <1>r, <1>i, DispatchAssumption DEF RetransmitTask, IpcTask
      <3>7. task[op].attempts \in 0 .. MaxRetransmit - 1
        BY SMT, <3>5, <3>6, DispatchAssumption
      <3>8. /\ task[op].timeout = Backoff[task[op].attempts]
            /\ ipc[op].left + 2 * task[op].timeout = IpcTimeout + 1 + task[op].timer
        BY <2>3, <3>4 DEF InStep
      <3>9. ipc[op].left + 2 * task[op].timeout = IpcTimeout + 1
        BY SMT, <3>4, <3>8, DispatchAssumption
      <3>10. /\ Backoff[task[op].attempts + 1] = 2 * task[op].timeout
             /\ 2 * task[op].timeout <= IpcTimeout
        BY <3>7, <3>8, BackoffFacts
      <3>11. CASE task[op].attempts + 1 >= MaxRetransmit
        <4>1. task'[op].pc = "final" /\ task'[op].timeout = task[op].timeout
          BY <1>r, <3>3, <3>11 DEF Retry, RetransmitTask
        <4> QED  BY <2>1, <3>9, <3>10, <4>1 DEF InStep
      <3>12. CASE ~(task[op].attempts + 1 >= MaxRetransmit)
        <4>1. /\ task'[op].pc = "send" /\ task'[op].timeout = 2 * task[op].timeout
              /\ task'[op].attempts = task[op].attempts + 1
          BY <1>r, <3>3, <3>12 DEF Retry, RetransmitTask
        <4> QED  BY <2>1, <3>9, <3>10, <4>1 DEF InStep
      <3> QED  BY <3>11, <3>12
    <2>4. \A o \in Op : o # op => (InStep(o)' <=> InStep(o))  BY <2>1, <2>2 DEF InStep
    <2>5. Takes  BY <2>1 DEF Takes
    <2>n. NoneStarted  BY <1>8, <1>n DEF TaskStep
    <2> QED  BY <2>n, <1>f, <2>1, <2>3, <2>4, <2>5, PromptKept
  \* What is taken at the end is answered.
  <1>9. ASSUME NEW op \in Op, Final(op) PROVE Prompt'
    <2>1. UNCHANGED <<chan, ipc, used, errors>>  BY <1>9 DEF Final, world
    <2>2. \A o \in Op : o # op => task'[o] = task[o]  BY <1>9, <1>t DEF Final, TypeOK
    <2>3. Takes  BY <1>9, CompleteAnswers DEF Final
    <2>4. op \in in_flight' => Disturbed(op)
      <3> SUFFICES ASSUME op \in in_flight', ~Disturbed(op) PROVE FALSE
        OBVIOUS
      <3>1. op \in in_flight  BY <2>3 DEF Takes
      <3>2. dev.registered /\ dev.addr = ipc[op].addr  BY <3>1 DEF Attended, Disturbed
      <3>3. is_in_flight(ipc[op].addr, op)  BY <3>1, <3>2 DEF is_in_flight, At
      <3> QED  BY <1>9, <3>3 DEF Final, complete_in_flight
    <2>5. in_flight' \subseteq Op  BY <1>f, <2>3 DEF Takes
    <2>6. \A o \in Op : o # op => (InStep(o)' <=> InStep(o))  BY <2>1, <2>2 DEF InStep
    <2>n. NoneStarted  BY <1>9, <1>n DEF TaskStep
    <2> QED  BY <2>n, <2>1, <2>3, <2>4, <2>5, <2>6, PromptKept
  <1>10. ASSUME NEW op \in Op, MarkOffline(op) \/ AnnounceOffline(op) PROVE Prompt'
    <2>1. UNCHANGED <<chan, ipc, result, in_flight, used, errors>>
      BY <1>10 DEF MarkOffline, AnnounceOffline, world
    <2>2. \A o \in Op : o # op => task'[o] = task[o]
      BY <1>10, <1>t DEF MarkOffline, AnnounceOffline, TypeOK
    <2>3. ~InStep(op)  BY <1>10 DEF MarkOffline, AnnounceOffline, InStep
    <2>4. Takes  BY <2>1 DEF Takes
    <2>5. \A o \in Op : o # op => (InStep(o)' <=> InStep(o))  BY <2>1, <2>2 DEF InStep
    <2>n. NoneStarted  BY <1>10, <1>n DEF TaskStep
    <2> QED  BY <2>n, <1>f, <2>1, <2>3, <2>4, <2>5, PromptKept
  \* The server task and housekeeping touch no task.
  <1>11. ASSUME Takes, UNCHANGED <<chan, ipc, task, used, errors>> PROVE Prompt'
    <2>1. \A o \in Op : InStep(o)' <=> InStep(o)  BY <1>11 DEF InStep
    <2>2. in_flight' \subseteq Op  BY <1>f, <1>11 DEF Takes
    <2>3. NoneStarted  BY <1>11 DEF NoneStarted
    <2> QED  BY <1>11, <2>1, <2>2, <2>3, PromptKept
  <1>12. ASSUME NEW p \in Datagrams, Receive(p) PROVE Prompt'
    <2>1. UNCHANGED <<chan, ipc, task, result, in_flight, used, errors>>
      BY <1>12 DEF Receive, world
    <2> QED  BY <1>11, <2>1 DEF Takes
  <1>13. ASSUME AnnounceOnline \/ handle_other PROVE Prompt'
    <2>1. UNCHANGED <<chan, ipc, task, result, in_flight, used, errors>>
      BY <1>13 DEF AnnounceOnline, handle_other, world
    <2> QED  BY <1>11, <2>1 DEF Takes
  <1>14. ASSUME handle_ack PROVE Prompt'
    <2>1. UNCHANGED <<chan, ipc, used, errors>>  BY <1>14 DEF handle_ack, world
    <2>2. rx.packet.kind # "none"  BY <1>14 DEF handle_ack, Reply
    <2>3. CASE complete_in_flight(rx.packet.from, rx.packet.op, rx.packet.kind) /\ UNCHANGED task
      <3>1. Takes  BY <2>2, <2>3, CompleteAnswers
      <3> QED  BY <1>11, <2>1, <2>3, <3>1
    <2>4. CASE complete_block(rx.packet.op, rx.packet.kind)
      <3>1. rx.packet.op \in Op  BY <1>t, <1>14, RxThere, RxType DEF handle_ack
      <3>2. \A o \in Op : o # rx.packet.op => task'[o] = task[o]
        BY <1>t, <2>4 DEF complete_block, TypeOK
      <3> QED  BY <2>1, <2>2, <2>4, <3>1, <3>2, PromptBlock DEF complete_block
    <2> QED  BY <1>14, <2>3, <2>4 DEF handle_ack
  <1>15. ASSUME handle_registration PROVE Prompt'
    <2>1. UNCHANGED <<chan, ipc, task, result, used, errors>>
      BY <1>15 DEF handle_registration, world
    <2>2. in_flight' = in_flight  BY <1>15 DEF handle_registration, Attended
    <2> QED  BY <1>11, <2>1, <2>2 DEF Takes
  <1>16. ASSUME handle_delete PROVE Prompt'
    <2>1. UNCHANGED <<chan, ipc, task, used, errors>>  BY <1>16 DEF handle_delete, world
    <2>2. Removed \/ UNCHANGED <<in_flight, result>>  BY <1>16 DEF handle_delete
    <2>3. Takes  BY <2>2, RemovedAnswers DEF Takes
    <2> QED  BY <1>11, <2>1, <2>3
  <1>17. ASSUME NEW expired \in BOOLEAN, Housekeeping(expired) PROVE Prompt'
    <2>1. UNCHANGED <<chan, ipc, task, used, errors>>  BY <1>17 DEF Housekeeping
    <2>2. CASE expired  BY <1>11, <1>17, <2>1, <2>2, RemovedAnswers DEF Housekeeping
    <2>3. CASE ~expired
      <3>1. Takes  BY <1>17, <2>3 DEF Housekeeping, Settle, Takes
      <3> QED  BY <1>11, <2>1, <3>1
    <2> QED  BY <2>2, <2>3
  <1>18. ASSUME NEW op \in Op, NEW r \in Reply, DeviceAnswers(op, r) PROVE Prompt'
    <2>1. UNCHANGED <<chan, ipc, task, result, in_flight, used, errors>>
      BY <1>18 DEF DeviceAnswers, server
    <2> QED  BY <1>11, <2>1 DEF Takes
  <1>19. ASSUME NEW a \in Addr, DeviceMoves(a) PROVE Prompt'
    <2>1. /\ UNCHANGED <<chan, ipc, result, in_flight, errors>>
          /\ used' = used \cup {a} /\ a # home
      BY <1>19 DEF DeviceMoves, server
    <2>2. \A op \in Op : Disturbed(op)'  BY SMT, <2>1 DEF Attended, Disturbed
    <2>3. NoneStarted  BY <1>19 DEF DeviceMoves, server, NoneStarted
    <2> QED  BY <2>1, <2>2, <2>3, PromptDisturbed
  \* A tick is one tick for both tasks.
  <1>20. ASSUME Tick PROVE Prompt'
    <2>1. UNCHANGED <<chan, result, in_flight, used, errors>>  BY <1>20 DEF Tick, world
    <2>2. \A o \in Op : ~Queued(o) /\ ~Queued(o)'
      <3>1. chan = <<>>  BY <1>20 DEF Tick
      <3>2. DOMAIN <<>> = {}  BY SMT
      <3> QED  BY <2>1, <3>1, <3>2 DEF Queued
    <2>3. \A o \in Op : /\ ipc'[o].pc = ipc[o].pc /\ ipc'[o].addr = ipc[o].addr
                        /\ ipc'[o].answer = ipc[o].answer /\ ipc'[o].large = ipc[o].large
                        /\ ipc'[o].left = Sooner(ipc[o].left)
      BY <1>20, <1>i DEF Tick, IpcTask
    <2>4. \A o \in Op : /\ task'[o].pc = task[o].pc /\ task'[o].timeout = task[o].timeout
                        /\ task'[o].attempts = task[o].attempts
                        /\ task'[o].timer = Sooner(task[o].timer)
      BY <1>20, <1>r DEF Tick, RetransmitTask
    <2>5. \A o \in Op : Disturbed(o)' <=> Disturbed(o)  BY <2>1, <2>3 DEF Disturbed
    <2>6. QueueInv'
      <3>1. chan' = chan  BY <1>20 DEF Tick
      <3>2. ASSUME NEW o \in Op, ipc'[o].pc \in {"idle", "enqueue"}
            PROVE  result'[o] = "none" /\ o \notin in_flight' /\ task'[o].pc = "none"
        <4>1. result[o] = "none" /\ o \notin in_flight /\ task[o].pc = "none"
          BY <1>q, <2>3, <3>2 DEF QueueInv
        <4> QED  BY <2>1, <2>4, <4>1
      <3>3. \A i, j \in DOMAIN chan' : chan'[i] = chan'[j] /\ chan'[i] # Ping => i = j
        BY <1>q, <3>1 DEF QueueInv
      <3> QED  BY <2>2, <3>2, <3>3 DEF QueueInv
    <2>7. ASSUME NEW o \in Op, ipc[o].pc = "wait", InStep(o) PROVE InStep(o)'
      <3>1. task[o].pc = "sleep" /\ task[o].timer > 0 /\ ipc[o].left > 0
        BY <1>20, <2>7 DEF Tick, InStep
      <3>2. /\ task[o].timeout = Backoff[task[o].attempts]
            /\ ipc[o].left + 2 * task[o].timeout = IpcTimeout + 1 + task[o].timer
        BY <2>7, <3>1 DEF InStep
      <3>3. task[o].timeout \in Nat /\ task[o].timer \in Nat /\ ipc[o].left \in Nat
        BY SMT, <1>r, <1>i, DispatchAssumption DEF RetransmitTask, IpcTask
      <3>4. Sooner(ipc[o].left) + 2 * task[o].timeout = IpcTimeout + 1 + Sooner(task[o].timer)
        BY SMT, <3>1, <3>2, <3>3, DispatchAssumption DEF Sooner
      <3> QED  BY <2>3, <2>4, <3>1, <3>2, <3>4 DEF InStep
    <2> QED  BY <1>w, <1>e, <2>1, <2>2, <2>3, <2>5, <2>6, <2>7 DEF Prompt
  <1>21. ASSUME UNCHANGED vars PROVE Prompt'
    <2>1. UNCHANGED <<chan, ipc, task, result, in_flight, used, errors>>
      BY <1>21 DEF vars
    <2> QED  BY <1>11, <2>1 DEF Takes
  \* Block-wise tasks and pings.
  <1>22. ASSUME NEW op \in Op, SendBlock(op) PROVE Prompt'
    <2>1. UNCHANGED <<chan, ipc, task, result, in_flight, used, errors>>
      BY <1>22 DEF SendBlock, server
    <2> QED  BY <1>11, <2>1 DEF Takes
  <1>23. ASSUME NEW op \in Op, BlockFails(op) PROVE Prompt'
    <2>1. UNCHANGED <<chan, ipc, in_flight, used, errors>>  BY <1>23 DEF BlockFails, world
    <2>2. \A o \in Op : o # op => task'[o] = task[o]  BY <1>23, <1>t DEF BlockFails, TypeOK
    <2>3. task[op].pc = "block" /\ Settle({op}, "timeout")  BY <1>23 DEF BlockFails
    <2>4. "timeout" # "none"  OBVIOUS
    <2> QED  BY <2>1, <2>2, <2>3, <2>4, PromptBlock
  <1>24. ASSUME SendPing PROVE Prompt'
    <2>1. chan' = Append(chan, Ping) /\ UNCHANGED <<ipc, task, result, in_flight, used, errors>>
      BY <1>24 DEF SendPing, world
    <2>2. /\ DOMAIN chan' = DOMAIN chan \cup {Len(chan) + 1}
          /\ chan'[Len(chan) + 1] = Ping
          /\ \A i \in DOMAIN chan : chan'[i] = chan[i]
      BY SMT, <1>t, <2>1 DEF TypeOK
    <2>3. Ping \notin Op  BY DispatchAssumption
    <2>4. \A o \in Op : Queued(o)' <=> Queued(o)  BY <2>2, <2>3 DEF Queued
    <2>5. \A o \in Op : (Disturbed(o)' <=> Disturbed(o)) /\ (InStep(o)' <=> InStep(o))
      BY <2>1 DEF Disturbed, InStep
    <2>6. \A i, j \in DOMAIN chan' : chan'[i] = chan'[j] /\ chan'[i] # Ping => i = j
      BY <1>q, <2>2 DEF QueueInv
    <2>7. QueueInv'  BY <1>q, <2>1, <2>4, <2>6 DEF QueueInv
    <2> QED  BY <1>w, <1>e, <2>1, <2>4, <2>5, <2>7 DEF Prompt
  <1> QED
    BY <1>1, <1>2, <1>3, <1>4, <1>5, <1>6, <1>7, <1>8, <1>9, <1>10, <1>12, <1>13, <1>14,
       <1>15, <1>16, <1>17, <1>18, <1>19, <1>20, <1>21, <1>22, <1>23, <1>24
    DEF Next, IpcStep, TaskStep, ServerStep

\* Both invariants hold throughout.
LEMMA PromptInvariant == Spec => [](Attended /\ Prompt)
  <1>1. Init => TypeInv
    BY SMT, DispatchAssumption
    DEF Init, TypeInv, TypeOK, AttemptsLeft, RetransmitTask, NewTask, IpcTask, Outcome
  <1>2. Init => Attended
    BY SMT DEF Init, Attended, NoPacket
  <1>3. Init => Prompt
    BY SMT DEF Init, NewTask, Prompt, QueueInv, Queued
  <1>4. TypeInv => TypeOK  BY DEF TypeInv
  <1>5. Prompt => QueueInv  BY DEF Prompt
  <1> QED
    BY <1>1, <1>2, <1>3, <1>4, <1>5, TypeStep, HonestInit, HonestStep, AttendedStep,
       PromptStep, PTL DEF Spec

\* A caller is told that the deadline passed only if a send failed, the device
\* changed its address, or the operation is a block-wise write: otherwise the
\* retransmit task has answered by then, however many packets are lost
\* (client.rs:127-166, command.rs:293).
THEOREM DeadlinesDisturbed == Spec => []DeadlineMeansDisturbed
  <1>1. Prompt => DeadlineMeansDisturbed
    BY DEF Prompt, DeadlineMeansDisturbed
  <1> QED
    BY <1>1, PromptInvariant, PTL

\* A retransmit task that has ended left its operation in flight only if a send
\* failed or the device changed its address (client.rs:127-166).
THEOREM DoneSettled == Spec => []DoneMeansSettled
  <1>1. Attended => DoneMeansSettled
    BY DEF Attended, DoneMeansSettled
  <1> QED
    BY <1>1, PromptInvariant, PTL

=============================================================================
