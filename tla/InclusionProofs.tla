-------------------------- MODULE InclusionProofs --------------------------
(***************************************************************************)
(* Proofs about Inclusion, for any endpoints, tasks and bounds: its type   *)
(* invariant, the consistency of its two pairs of indices, that a write    *)
(* phase was approved, and that an included device acknowledged every      *)
(* step of a write phase.                                                  *)
(***************************************************************************)
EXTENDS Inclusion, HashMapTheorems

\* Most leaves are first-order reasoning; the others name SMT.
USE Zenon

USE InclusionAssumption

\* A write phase that is doing something is a task.
LEMMA RunningType ==
    ASSUME TaskType, NEW k \in Phase, write[k] # NoWrite
    PROVE  write[k] \in WriteTask
  BY DEF TaskType

\* A write phase with a program counter other than "none" has been started.
LEMMA NotStarted ==
    ASSUME NEW k \in Phase, write[k].pc # "none"
    PROVE  write[k] # NoWrite
  BY SMT DEF NoWrite

\* While the server task handles a packet it knows the endpoint.
LEMMA RxType ==
    ASSUME TaskType, rx.pc # "idle"
    PROVE  /\ rx \in Requested \cup Delayed \cup Validating
           /\ rx.ep \in Endpoint
           /\ rx.pc \in {"check", "consume", "start", "cert", "begin"} => rx \in Requested
           /\ rx.pc = "get" => rx \in Delayed
           /\ rx.pc = "validate" => rx \in Validating
  <1>1. rx \in Requested \cup Delayed \cup Validating  BY SMT DEF TaskType, NoRx
  <1> QED  BY <1>1 DEF Requested, Delayed, Validating

\* Replacing the state of one write phase keeps their type.
LEMMA WriteUpdate ==
    ASSUME TaskType, NEW k \in Phase, NEW w \in WriteTask, write' = [write EXCEPT ![k] = w],
           UNCHANGED <<rx, exclusion>>
    PROVE  TaskType'
  BY DEF TaskType

\* The ids keep their type when one is made or removed.
LEMMA EnsureType ==
    ASSUME RegistryType, NEW e \in Endpoint, ensure_includable_id(e),
           UNCHANGED <<by_token, by_endpoint, cert_cache, approved, next_token>>
    PROVE  RegistryType'
  <1>1. CASE e \in DOMAIN includable_ids
    BY <1>1 DEF ensure_includable_id, RegistryType
  <1>2. CASE e \notin DOMAIN includable_ids
    <2>1. next_includable_id \in Id
      BY SMT, <1>2 DEF ensure_includable_id, RegistryType, Id
    <2>2. IsMap(includable_ids, Endpoint, Id) /\ IsMap(includable_by_id, Id, Endpoint)
      BY DEF RegistryType
    <2>3. IsMap(includable_ids', Endpoint, Id)
      BY <1>2, <2>1, <2>2, InsertType DEF ensure_includable_id
    <2>4. IsMap(includable_by_id', Id, Endpoint)
      BY <1>2, <2>1, <2>2, InsertType DEF ensure_includable_id
    <2>5. next_includable_id' \in 1 .. MaxId + 1
      BY SMT, <1>2, <2>1 DEF ensure_includable_id, Id
    <2> QED  BY <2>3, <2>4, <2>5 DEF RegistryType
  <1> QED  BY <1>1, <1>2

\* remove_includable_id keeps the types.
LEMMA RemoveIdType ==
    ASSUME RegistryType, NEW e, remove_includable_id(e),
           UNCHANGED <<by_token, by_endpoint, cert_cache, approved, next_includable_id, next_token>>
    PROVE  RegistryType'
  <1>1. CASE e \in DOMAIN includable_ids
    <2>1. IsMap(includable_ids, Endpoint, Id) /\ IsMap(includable_by_id, Id, Endpoint)
      BY DEF RegistryType
    <2>2. IsMap(includable_ids', Endpoint, Id) /\ IsMap(includable_by_id', Id, Endpoint)
      BY SMT, <1>1, <2>1, RemoveAllType DEF remove_includable_id, Remove
    <2> QED  BY <2>2 DEF RegistryType
  <1>2. CASE e \notin DOMAIN includable_ids
    BY <1>2 DEF remove_includable_id, RegistryType
  <1> QED  BY <1>1, <1>2

\* The list that a save takes is a list of endpoints.
LEMMA SpawnType ==
    ASSUME ListType, NEW by \in Saver, SpawnSave(by), UNCHANGED <<included, tmp, saved, announced>>
    PROVE  ListType'
  <1>1. [by |-> by, list |-> included, pc |-> "write"] \in Save
    BY DEF ListType, Save
  <1> QED  BY <1>1 DEF ListType, SpawnSave

\* A step of the server task keeps the types.
LEMMA ServerType ==
    ASSUME TypeOK, ServerStep
    PROVE  TypeOK'
  <1>0. RegistryType /\ TaskType /\ ListType /\ OutsideType  BY DEF TypeOK
  <1>1. CASE is_approved
    <2>1. rx \in Requested  BY <1>0, <1>1, RxType DEF is_approved
    <2>2. rx' \in Requested
      BY <1>1, <2>1 DEF is_approved, Requested
    <2> QED  BY <1>0, <1>1, <2>2 DEF is_approved, TypeOK, RegistryType, TaskType, ListType, OutsideType,
                registry, disk, outside, history
  <1>2. CASE consume_approval
    <2>1. rx \in Requested  BY <1>0, <1>2, RxType DEF consume_approval
    <2>2. rx' \in Requested
      BY <1>2, <2>1 DEF consume_approval, Requested
    <2> QED  BY <1>0, <1>2, <2>2 DEF consume_approval, TypeOK, RegistryType, TaskType, ListType, OutsideType,
                disk, outside, history
  <1>3. CASE has_cert
    <2>1. rx \in Requested  BY <1>0, <1>3, RxType DEF has_cert
    <2>2. rx' \in {NoRx} \cup Requested
      BY <1>3, <2>1 DEF has_cert, Requested
    <2> QED  BY <1>0, <1>3, <2>2 DEF has_cert, TypeOK, RegistryType, TaskType, ListType, OutsideType,
                registry, disk, outside, history
  <1>4. CASE begin
    <2>1. rx \in Requested /\ rx.ep \in Endpoint  BY <1>0, <1>4, RxType DEF begin
    <2>2. CASE rx.ep \in DOMAIN by_endpoint
      BY <1>0, <1>4, <2>2 DEF begin, TypeOK, RegistryType, TaskType, ListType, OutsideType,
         disk, outside, history
    <2>3. CASE rx.ep \notin DOMAIN by_endpoint
      <3>1. next_token \in Token  BY SMT, <1>0, <1>4, <2>3 DEF begin, RegistryType, Token
      <3>2. IsMap(by_token, Token, Endpoint) /\ IsMap(by_endpoint, Endpoint, Token)
        BY <1>0 DEF RegistryType
      <3>3. IsMap(by_token', Token, Endpoint)
        BY <1>4, <2>1, <2>3, <3>1, <3>2, InsertType DEF begin
      <3>4. IsMap(by_endpoint', Endpoint, Token)
        BY <1>4, <2>1, <2>3, <3>1, <3>2, InsertType DEF begin
      <3>5. next_token' \in 1 .. MaxToken + 1
        BY SMT, <1>4, <2>3, <3>1 DEF begin, Token
      <3>6. rx' \in Delayed
        BY SMT, <1>4, <2>1, <2>3, <3>1 DEF begin, Delayed
      <3>7. RegistryType'
        BY <1>0, <1>4, <3>3, <3>4, <3>5 DEF begin, RegistryType
      <3> QED  BY <1>0, <1>4, <3>6, <3>7 DEF begin, TypeOK, TaskType, ListType, OutsideType,
                  disk, outside, history
    <2> QED  BY <2>2, <2>3
  <1>5. CASE send_get
    <2>1. rx \in Delayed  BY <1>0, <1>5, RxType DEF send_get
    <2>2. rx.token \in Token /\ rx.ep \in Endpoint  BY <2>1 DEF Delayed
    <2>3. IsMap(got, Token, Endpoint)  BY <1>0 DEF OutsideType
    <2>4. IsMap(got', Token, Endpoint)  BY <1>5, <2>2, <2>3, InsertType DEF send_get
    <2> QED  BY <1>0, <1>5, <2>4 DEF send_get, TypeOK, RegistryType, TaskType, ListType, OutsideType,
                registry, disk, history
  <1>6. CASE reply_fails
    BY <1>0, <1>6 DEF reply_fails, TypeOK, RegistryType, TaskType, ListType, OutsideType,
       registry, disk, outside, history
  <1>7. CASE validate
    <2>1. IsMap(cert_cache, Endpoint, Payload)  BY <1>0 DEF RegistryType
    <2>2. IsMap(Remove(cert_cache, rx.ep), Endpoint, Payload)
      BY <2>1, RemoveAllType DEF Remove
    <2>3. IsMap(cert_cache', Endpoint, Payload)
      BY <1>7, <2>1, <2>2 DEF validate
    <2>4. RegistryType'  BY <1>0, <1>7, <2>3 DEF validate, RegistryType
    <2> QED  BY <1>0, <1>7, <2>4 DEF validate, TypeOK, TaskType, ListType, OutsideType,
                disk, outside, history
  <1>8. ASSUME NEW k \in Phase, start_write_phase(k)
        PROVE  TypeOK'
    <2>1. rx.ep \in Endpoint  BY <1>0, <1>8, RxType DEF start_write_phase
    <2>2. 1 \in 1 .. LastStep /\ 0 \in 0 .. MaxRetransmit  BY SMT
    <2>3. [s \in 1 .. LastStep |-> "none"] \in Replies  BY DEF Replies
    <2>4. NewWrite(rx.ep) \in WriteTask
      BY <2>1, <2>2, <2>3 DEF NewWrite, WriteTask, WritePc
    <2>5. TaskType'  BY <1>0, <1>8, <2>4 DEF start_write_phase, TaskType
    <2>6. phases' \in [Endpoint -> Nat]
      <3>1. phases \in [Endpoint -> Nat]  BY <1>0 DEF OutsideType
      <3>2. phases[rx.ep] + 1 \in Nat  BY SMT, <2>1, <3>1
      <3> QED  BY <1>8, <3>1, <3>2 DEF start_write_phase
    <2> QED  BY <1>0, <1>8, <2>5, <2>6 DEF start_write_phase, TypeOK, RegistryType, ListType, OutsideType,
                registry, disk, outside
  <1> QED  BY <1>1, <1>2, <1>3, <1>4, <1>5, <1>6, <1>7, <1>8 DEF ServerStep

\* A step of a write phase keeps the types.
LEMMA WriteStepType ==
    ASSUME TypeOK, NEW k \in Phase, WriteStep(k)
    PROVE  TypeOK'
  <1>0. RegistryType /\ TaskType /\ ListType /\ OutsideType  BY DEF TypeOK
  <1>1. CASE send_write(k)
    <2>1. write[k] \in WriteTask  BY <1>0, <1>1, RunningType, NotStarted DEF send_write
    <2>2. [write[k] EXCEPT !.pc = "wait", !.pending = write[k].pending \/ write[k].attempts = 0] \in WriteTask
      BY <2>1 DEF WriteTask, WritePc
    <2>3. TaskType'  BY <1>0, <1>1, <2>2, WriteUpdate DEF send_write
    <2> QED  BY <1>0, <1>1, <2>3 DEF send_write, TypeOK, RegistryType, ListType, OutsideType,
                registry, disk, outside, history
  <1>2. CASE send_write_fails(k)
    <2>1. write[k] \in WriteTask  BY <1>0, <1>2, RunningType, NotStarted DEF send_write_fails
    <2>2. [write[k] EXCEPT !.pc = "failed"] \in WriteTask
      BY <2>1 DEF WriteTask, WritePc
    <2>3. TaskType'  BY <1>0, <1>2, <2>2, WriteUpdate DEF send_write_fails
    <2> QED  BY <1>0, <1>2, <2>3 DEF send_write_fails, TypeOK, RegistryType, ListType, OutsideType,
                registry, disk, outside, history
  <1>3. CASE write_step_done(k)
    <2>1. write[k] \in WriteTask  BY <1>0, <1>3, RunningType, NotStarted DEF write_step_done
    <2>2. [write[k] EXCEPT !.pc = "failed"] \in WriteTask  BY <2>1 DEF WriteTask, WritePc
    <2>3. [write[k] EXCEPT !.pc = "announce"] \in WriteTask  BY <2>1 DEF WriteTask, WritePc
    <2>4. ASSUME write[k].step # LastStep
          PROVE  [write[k] EXCEPT !.pc = "send", !.step = write[k].step + 1, !.attempts = 0,
                                  !.ack = "none"] \in WriteTask
      <3>1. write[k].step \in 1 .. LastStep  BY <2>1 DEF WriteTask
      <3>2. write[k].step + 1 \in 1 .. LastStep  BY SMT, <2>4, <3>1
      <3>3. 0 \in 0 .. MaxRetransmit  BY SMT
      <3> QED  BY <2>1, <3>2, <3>3 DEF WriteTask, WritePc
    <2>5. TaskType'  BY <1>0, <1>3, <2>2, <2>3, <2>4, WriteUpdate DEF write_step_done
    <2> QED  BY <1>0, <1>3, <2>5 DEF write_step_done, TypeOK, RegistryType, ListType, OutsideType,
                registry, disk, outside, history
  <1>4. CASE write_step_timeout(k)
    <2>1. write[k] \in WriteTask  BY <1>0, <1>4, RunningType, NotStarted DEF write_step_timeout
    <2>2. [write[k] EXCEPT !.pc = "cancel"] \in WriteTask  BY <2>1 DEF WriteTask, WritePc
    <2>3. ASSUME write[k].attempts # MaxRetransmit
          PROVE  [write[k] EXCEPT !.pc = "send", !.attempts = write[k].attempts + 1] \in WriteTask
      <3>1. write[k].attempts \in 0 .. MaxRetransmit  BY <2>1 DEF WriteTask
      <3>2. write[k].attempts + 1 \in 0 .. MaxRetransmit  BY SMT, <2>3, <3>1
      <3> QED  BY <2>1, <3>2 DEF WriteTask, WritePc
    <2>4. TaskType'  BY <1>0, <1>4, <2>2, <2>3, WriteUpdate DEF write_step_timeout
    <2> QED  BY <1>0, <1>4, <2>4 DEF write_step_timeout, TypeOK, RegistryType, ListType, OutsideType,
                registry, disk, outside, history
  <1>5. CASE cancel_write_ack(k)
    <2>1. write[k] \in WriteTask  BY <1>0, <1>5, RunningType, NotStarted DEF cancel_write_ack
    <2>2. [write[k] EXCEPT !.pc = "failed", !.pending = FALSE] \in WriteTask
      BY <2>1 DEF WriteTask, WritePc
    <2>3. TaskType'  BY <1>0, <1>5, <2>2, WriteUpdate DEF cancel_write_ack
    <2> QED  BY <1>0, <1>5, <2>3 DEF cancel_write_ack, TypeOK, RegistryType, ListType, OutsideType,
                registry, disk, outside, history
  <1>6. CASE write_failed(k)
    <2>1. write[k] \in WriteTask  BY <1>0, <1>6, RunningType, NotStarted DEF write_failed
    <2>2. [write[k] EXCEPT !.pc = "done"] \in WriteTask
      BY <2>1 DEF WriteTask, WritePc
    <2>3. TaskType'  BY <1>0, <1>6, <2>2, WriteUpdate DEF write_failed
    <2>4. RegistryType'  BY <1>0, <1>6, RemoveIdType DEF write_failed
    <2> QED  BY <1>0, <1>6, <2>3, <2>4 DEF write_failed, TypeOK, ListType, OutsideType,
                disk, outside, history
  <1>7. CASE announce_included(k)
    <2>1. write[k] \in WriteTask  BY <1>0, <1>7, RunningType, NotStarted DEF announce_included
    <2>2. [write[k] EXCEPT !.pc = "forget"] \in WriteTask
      BY <2>1 DEF WriteTask, WritePc
    <2>3. TaskType'  BY <1>0, <1>7, <2>2, WriteUpdate DEF announce_included
    <2>4. write[k].ep \in Endpoint  BY <2>1 DEF WriteTask
    <2>5. ListType'  BY <1>0, <1>7, <2>4 DEF announce_included, ListType, disk
    <2> QED  BY <1>0, <1>7, <2>3, <2>5 DEF announce_included, TypeOK, RegistryType, OutsideType,
                registry, outside, history
  <1>8. CASE forget_includable(k)
    <2>1. write[k] \in WriteTask  BY <1>0, <1>8, RunningType, NotStarted DEF forget_includable
    <2>2. [write[k] EXCEPT !.pc = "mark"] \in WriteTask
      BY <2>1 DEF WriteTask, WritePc
    <2>3. TaskType'  BY <1>0, <1>8, <2>2, WriteUpdate DEF forget_includable
    <2>4. RegistryType'  BY <1>0, <1>8, RemoveIdType DEF forget_includable
    <2> QED  BY <1>0, <1>8, <2>3, <2>4 DEF forget_includable, TypeOK, ListType, OutsideType,
                disk, outside, history
  <1>9. CASE mark_included(k)
    <2>1. write[k] \in WriteTask  BY <1>0, <1>9, RunningType, NotStarted DEF mark_included
    <2>2. [write[k] EXCEPT !.pc = "list"] \in WriteTask
      BY <2>1 DEF WriteTask, WritePc
    <2>3. TaskType'  BY <1>0, <1>9, <2>2, WriteUpdate DEF mark_included
    <2>4. write[k].ep \in Endpoint  BY <2>1 DEF WriteTask
    <2>5. ListType'  BY <1>0, <1>9, <2>4 DEF mark_included, ListType, disk
    <2> QED  BY <1>0, <1>9, <2>3, <2>5 DEF mark_included, TypeOK, RegistryType, OutsideType,
                registry, outside, history
  <1>10. CASE list_included(k)
    <2>1. write[k] \in WriteTask  BY <1>0, <1>10, RunningType, NotStarted DEF list_included
    <2>2. [write[k] EXCEPT !.pc = "done"] \in WriteTask
      BY <2>1 DEF WriteTask, WritePc
    <2>3. TaskType'  BY <1>0, <1>10, <2>2, WriteUpdate DEF list_included
    <2>4. write[k].ep \in Endpoint  BY <2>1 DEF WriteTask
    <2>5. ListType'  BY <1>0, <1>10, <2>4, SpawnType DEF list_included, Saver
    <2> QED  BY <1>0, <1>10, <2>3, <2>5 DEF list_included, TypeOK, RegistryType, OutsideType,
                registry, outside, history
  <1> QED  BY <1>1, <1>2, <1>3, <1>4, <1>5, <1>6, <1>7, <1>8, <1>9, <1>10 DEF WriteStep

\* The device's answers, and their arrival, keep the types.
LEMMA AnswerType ==
    ASSUME TypeOK, NEW k \in Phase,
           complete_write_ack(k) \/ \E r \in Reply : DeviceAnswers(k, r)
    PROVE  TypeOK'
  <1>0. RegistryType /\ TaskType /\ ListType /\ OutsideType  BY DEF TypeOK
  <1>1. write[k] \in WriteTask
    BY <1>0, RunningType, NotStarted DEF complete_write_ack, DeviceAnswers, Awaited
  <1>2. write[k].step \in 1 .. LastStep /\ write[k].replies \in Replies /\ write[k].ep \in Endpoint
    BY <1>1 DEF WriteTask
  <1>3. CASE complete_write_ack(k)
    <2>1. Fired(write[k].replies[write[k].step]) \in {"none", "true", "false"}  BY DEF Fired
    <2>2. [write[k] EXCEPT !.pending = FALSE, !.ack = Fired(write[k].replies[write[k].step])]
             \in WriteTask
      BY <1>1, <2>1 DEF WriteTask
    <2>3. TaskType'  BY <1>0, <1>3, <2>2, WriteUpdate DEF complete_write_ack
    <2> QED  BY <1>0, <1>3, <2>3 DEF complete_write_ack, TypeOK, RegistryType, ListType, OutsideType,
                registry, disk, outside, history
  <1>4. ASSUME NEW r \in Reply, DeviceAnswers(k, r)
        PROVE  TypeOK'
    <2>1. [write[k].replies EXCEPT ![write[k].step] = r] \in Replies
      BY <1>2 DEF Replies
    <2>2. [write[k] EXCEPT !.replies = [write[k].replies EXCEPT ![write[k].step] = r]] \in WriteTask
      BY <1>1, <2>1 DEF WriteTask
    <2>3. TaskType'  BY <1>0, <1>4, <2>2, WriteUpdate DEF DeviceAnswers
    <2>4. device' \in [Endpoint -> {"factory", "ready"}]
      BY <1>0, <1>2, <1>4 DEF DeviceAnswers, OutsideType
    <2> QED  BY <1>0, <1>4, <2>3, <2>4 DEF DeviceAnswers, TypeOK, RegistryType, ListType, OutsideType,
                registry, disk, history
  <1> QED  BY <1>3, <1>4

\* Every step keeps the types.
LEMMA TypeStep ==
    ASSUME TypeOK, [Next]_vars
    PROVE  TypeOK'
  <1>0. RegistryType /\ TaskType /\ ListType /\ OutsideType  BY DEF TypeOK
  <1>1. ASSUME NEW e \in Endpoint, handle_bootstrap(e)
        PROVE  TypeOK'
    <2>1. RegistryType'  BY <1>0, <1>1, EnsureType DEF handle_bootstrap
    <2>2. [pc |-> "check", ep |-> e] \in Requested  BY DEF Requested
    <2>3. TaskType'  BY <1>0, <1>1, <2>2 DEF handle_bootstrap, TaskType
    <2> QED  BY <1>0, <1>1, <2>1, <2>3 DEF handle_bootstrap, TypeOK, ListType, OutsideType,
                disk, outside, history
  <1>2. ASSUME NEW e \in Endpoint, handle_registration(e)
        PROVE  TypeOK'
    BY <1>0, <1>2 DEF handle_registration, TypeOK, RegistryType, TaskType, ListType, OutsideType,
       registry, disk, history
  <1>3. ASSUME NEW e \in Endpoint, DeviceResets(e)
        PROVE  TypeOK'
    BY <1>0, <1>3 DEF DeviceResets, TypeOK, RegistryType, TaskType, ListType, OutsideType,
       registry, disk, history
  <1>4. CASE ServerStep  BY <1>4, ServerType
  <1>5. ASSUME NEW t \in Token, expire_stale(t)
        PROVE  TypeOK'
    <2>1. IsMap(by_token, Token, Endpoint) /\ IsMap(by_endpoint, Endpoint, Token)
      BY <1>0 DEF RegistryType
    <2>2. IsMap(by_token', Token, Endpoint) /\ IsMap(by_endpoint', Endpoint, Token)
      BY <1>5, <2>1, RemoveAllType DEF expire_stale
    <2>3. RegistryType'  BY <1>0, <1>5, <2>2 DEF expire_stale, RegistryType
    <2> QED  BY <1>0, <1>5, <2>3 DEF expire_stale, TypeOK, TaskType, ListType, OutsideType,
                disk, outside, history
  <1>6. ASSUME NEW t \in Token, NEW p \in Payload, complete(t, p)
        PROVE  TypeOK'
    <2>1. /\ IsMap(by_token, Token, Endpoint)
          /\ IsMap(by_endpoint, Endpoint, Token)
          /\ IsMap(cert_cache, Endpoint, Payload)
      BY <1>0 DEF RegistryType
    <2>2. by_token[t] \in Endpoint  BY <1>6, <2>1, ValueType DEF complete
    <2>3. IsMap(by_token', Token, Endpoint) /\ IsMap(by_endpoint', Endpoint, Token)
      BY <1>6, <2>1, RemoveAllType DEF complete, Remove
    <2>4. IsMap(cert_cache', Endpoint, Payload)
      BY <1>6, <2>1, <2>2, InsertType DEF complete
    <2>5. RegistryType'  BY <1>0, <1>6, <2>3, <2>4 DEF complete, RegistryType
    <2>6. [pc |-> "validate", ep |-> by_token[t], payload |-> p] \in Validating
      BY <2>2 DEF Validating
    <2>7. TaskType'  BY <1>0, <1>6, <2>6 DEF complete, TaskType
    <2> QED  BY <1>0, <1>6, <2>5, <2>7 DEF complete, TypeOK, ListType, OutsideType,
                disk, outside, history
  <1>7. ASSUME NEW k \in Phase, WriteStep(k)
        PROVE  TypeOK'
    BY <1>7, WriteStepType
  <1>8. ASSUME NEW k \in Phase, complete_write_ack(k) \/ \E r \in Reply : DeviceAnswers(k, r)
        PROVE  TypeOK'
    BY <1>8, AnswerType
  <1>9. ASSUME NEW s \in saves, write_tmp(s)
        PROVE  TypeOK'
    <2>1. s \in Save  BY <1>0 DEF ListType
    <2>2. [s EXCEPT !.pc = "rename"] \in Save /\ s.list \in SUBSET Endpoint  BY <2>1 DEF Save
    <2>3. ListType'  BY <1>0, <1>9, <2>2 DEF write_tmp, ListType
    <2> QED  BY <1>0, <1>9, <2>3 DEF write_tmp, TypeOK, RegistryType, TaskType, OutsideType,
                registry, outside, history
  <1>10. ASSUME NEW s \in saves, rename_tmp(s)
         PROVE  TypeOK'
    BY <1>0, <1>10 DEF rename_tmp, TypeOK, RegistryType, TaskType, ListType, OutsideType,
       registry, outside, history
  <1>11. ASSUME NEW id \in Id, approve_inclusion(id)
         PROVE  TypeOK'
    <2>1. includable_by_id[id] \in Endpoint
      BY <1>0, <1>11, ValueType DEF approve_inclusion, RegistryType
    <2>2. approvals \in [Endpoint -> 0 .. MaxApproval]  BY <1>0 DEF OutsideType
    <2>3. approvals[includable_by_id[id]] + 1 \in 0 .. MaxApproval
      BY SMT, <1>11, <2>1, <2>2 DEF approve_inclusion
    <2>4. approvals' \in [Endpoint -> 0 .. MaxApproval]
      BY <1>11, <2>2, <2>3 DEF approve_inclusion
    <2>5. RegistryType'  BY <1>0, <1>11, <2>1 DEF approve_inclusion, RegistryType
    <2> QED  BY <1>0, <1>11, <2>4, <2>5 DEF approve_inclusion, TypeOK, TaskType, ListType, OutsideType,
                disk, outside
  <1>12. ASSUME NEW x \in Exclusion, NEW e \in Endpoint, handle_exclusion(x, e)
         PROVE  TypeOK'
    <2>1. [pc |-> "unmark", ep |-> e] \in ExclusionTask  BY DEF ExclusionTask
    <2>2. TaskType'  BY <1>0, <1>12, <2>1 DEF handle_exclusion, TaskType
    <2> QED  BY <1>0, <1>12, <2>2 DEF handle_exclusion, TypeOK, RegistryType, ListType, OutsideType,
                registry, disk, history
  <1>13. ASSUME NEW x \in Exclusion, unmark_included(x)
         PROVE  TypeOK'
    <2>1. exclusion[x] \in ExclusionTask
      BY SMT, <1>0, <1>13 DEF unmark_included, TaskType, NoExclusion
    <2>2. [exclusion[x] EXCEPT !.pc = "list"] \in ExclusionTask  BY <2>1 DEF ExclusionTask
    <2>3. TaskType'  BY <1>0, <1>13, <2>2 DEF unmark_included, TaskType
    <2> QED  BY <1>0, <1>13, <2>3 DEF unmark_included, TypeOK, RegistryType, ListType, OutsideType,
                registry, disk, outside, history
  <1>14. ASSUME NEW x \in Exclusion, list_excluded(x)
         PROVE  TypeOK'
    <2>1. exclusion[x] \in ExclusionTask
      BY SMT, <1>0, <1>14 DEF list_excluded, TaskType, NoExclusion
    <2>2. [exclusion[x] EXCEPT !.pc = "done"] \in ExclusionTask  BY <2>1 DEF ExclusionTask
    <2>3. TaskType'  BY <1>0, <1>14, <2>2 DEF list_excluded, TaskType
    <2>4. ListType'  BY <1>0, <1>14, SpawnType DEF list_excluded, Saver
    <2> QED  BY <1>0, <1>14, <2>3, <2>4 DEF list_excluded, TypeOK, RegistryType, OutsideType,
                registry, outside, history
  <1>15. CASE restart
    <2>1. RegistryType'
      <3>1. 1 \in 1 .. MaxId + 1  BY SMT
      <3> QED  BY <1>0, <1>15, <3>1, EmptyMapType DEF restart, RegistryType
    <2>2. \A k \in Phase : write[k] # NoWrite => [write[k] EXCEPT !.pc = "done"] \in WriteTask
      BY <1>0, RunningType DEF WriteTask, WritePc
    <2>3. \A x \in Exclusion : exclusion[x] # NoExclusion =>
             [exclusion[x] EXCEPT !.pc = "done"] \in ExclusionTask
      BY <1>0 DEF TaskType, ExclusionTask
    <2>4. TaskType'  BY <1>0, <1>15, <2>2, <2>3 DEF restart, TaskType
    <2>5. restarts' \in 0 .. MaxRestart  BY SMT, <1>0, <1>15 DEF restart, OutsideType
    <2> QED  BY <1>0, <1>15, <2>1, <2>4, <2>5 DEF restart, TypeOK, ListType, OutsideType, outside
  <1>16. CASE UNCHANGED vars
    BY <1>0, <1>16 DEF vars, TypeOK, RegistryType, TaskType, ListType, OutsideType
  <1> QED
    BY <1>1, <1>2, <1>3, <1>4, <1>5, <1>6, <1>7, <1>8, <1>9, <1>10, <1>11, <1>12, <1>13, <1>14,
       <1>15, <1>16
       DEF Next, SaveStep, ExclusionStep

\* Type correctness: with any number of devices, write phases and exclusions,
\* crashes included, no step is transmitted more than MaxRetransmit + 1 times
\* and every index holds what it says.
THEOREM TypeCorrect == Spec => []TypeOK
  <1>1. Init => TypeOK
    <2> SUFFICES ASSUME Init PROVE TypeOK  OBVIOUS
    <2>1. 1 \in 1 .. MaxId + 1 /\ 1 \in 1 .. MaxToken + 1  BY SMT
    <2>2. RegistryType  BY <2>1, EmptyMapType DEF Init, RegistryType
    <2>3. TaskType  BY DEF Init, TaskType
    <2>4. ListType  BY DEF Init, ListType
    <2>5. 0 \in 0 .. MaxApproval /\ 0 \in 0 .. MaxRestart  BY SMT
    <2>6. OutsideType  BY <2>5, EmptyMapType DEF Init, OutsideType
    <2> QED  BY <2>2, <2>3, <2>4, <2>6 DEF TypeOK
  <1> QED  BY <1>1, TypeStep, PTL DEF Spec

-----------------------------------------------------------------------------
(* The two pairs of indices.  Each invariant is inductive with the types.  *)

\* remove_includable_id takes an id out of both indices.
LEMMA RemoveIdConsistent ==
    ASSUME IdsConsistent, NEW e, remove_includable_id(e), UNCHANGED next_includable_id
    PROVE  IdsConsistent'
  <1>1. CASE e \in DOMAIN includable_ids
    <2>1. /\ includable_ids' = Remove(includable_ids, e)
          /\ includable_by_id' = Remove(includable_by_id, includable_ids[e])
      BY <1>1 DEF remove_includable_id
    <2> QED  BY <1>1, <2>1 DEF IdsConsistent, Remove, RemoveAll
  <1>2. CASE e \notin DOMAIN includable_ids
    BY <1>2 DEF remove_includable_id, IdsConsistent
  <1> QED  BY <1>1, <1>2

\* ensure_includable_id enters a new id, larger than all others, in both.
LEMMA EnsureConsistent ==
    ASSUME RegistryType, IdsConsistent, NEW e, ensure_includable_id(e)
    PROVE  IdsConsistent'
  <1>1. CASE e \in DOMAIN includable_ids
    BY <1>1 DEF ensure_includable_id, IdsConsistent
  <1>2. CASE e \notin DOMAIN includable_ids
    <2>1. /\ includable_ids' = Insert(includable_ids, e, next_includable_id)
          /\ includable_by_id' = Insert(includable_by_id, next_includable_id, e)
          /\ next_includable_id' = next_includable_id + 1
      BY <1>2 DEF ensure_includable_id
    <2>2. next_includable_id \in Int  BY SMT DEF RegistryType
    <2>3. \A f \in DOMAIN includable_ids : includable_ids[f] \in Int
      BY SMT DEF RegistryType, IsMap, Id
    <2>4. next_includable_id \notin DOMAIN includable_by_id
      BY SMT, <2>2, <2>3 DEF IdsConsistent
    <2>5. \A f \in DOMAIN includable_ids : includable_ids[f] # next_includable_id
      BY SMT, <2>2, <2>3 DEF IdsConsistent
    <2>6. \A f \in DOMAIN includable_ids : includable_ids[f] < next_includable_id + 1
      BY SMT, <2>2, <2>3 DEF IdsConsistent
    <2>7. next_includable_id < next_includable_id + 1  BY SMT, <2>2
    <2>8. ASSUME NEW f \in DOMAIN includable_ids'
          PROVE  /\ includable_ids'[f] \in DOMAIN includable_by_id'
                 /\ includable_by_id'[includable_ids'[f]] = f
                 /\ includable_ids'[f] < next_includable_id'
      <3>1. CASE f = e  BY <2>1, <2>7, <3>1 DEF Insert
      <3>2. CASE f # e
        <4>1. f \in DOMAIN includable_ids /\ includable_ids'[f] = includable_ids[f]
          BY <2>1, <2>8, <3>2 DEF Insert
        <4>2. /\ includable_ids[f] \in DOMAIN includable_by_id
              /\ includable_by_id[includable_ids[f]] = f
          BY <4>1 DEF IdsConsistent
        <4> QED  BY <2>1, <2>5, <2>6, <4>1, <4>2 DEF Insert
      <3> QED  BY <3>1, <3>2
    <2>9. ASSUME NEW i \in DOMAIN includable_by_id'
          PROVE  /\ includable_by_id'[i] \in DOMAIN includable_ids'
                 /\ includable_ids'[includable_by_id'[i]] = i
      <3>1. CASE i = next_includable_id  BY <2>1, <3>1 DEF Insert
      <3>2. CASE i # next_includable_id
        <4>1. i \in DOMAIN includable_by_id /\ includable_by_id'[i] = includable_by_id[i]
          BY <2>1, <2>9, <3>2 DEF Insert
        <4>2. /\ includable_by_id[i] \in DOMAIN includable_ids
              /\ includable_ids[includable_by_id[i]] = i
          BY <4>1 DEF IdsConsistent
        <4>3. includable_by_id[i] # e  BY <1>2, <4>2
        <4> QED  BY <2>1, <4>1, <4>2, <4>3 DEF Insert
      <3> QED  BY <3>1, <3>2
    <2> QED  BY <2>8, <2>9 DEF IdsConsistent
  <1> QED  BY <1>1, <1>2

\* Every step keeps the ids consistent.
LEMMA IdsStep ==
    ASSUME TypeOK, IdsConsistent, [Next]_vars
    PROVE  IdsConsistent'
  <1>1. ASSUME NEW e \in Endpoint, handle_bootstrap(e)
        PROVE  IdsConsistent'
    BY <1>1, EnsureConsistent DEF handle_bootstrap, TypeOK
  <1>2. ASSUME NEW k \in Phase, write_failed(k) \/ forget_includable(k)
        PROVE  IdsConsistent'
    BY <1>2, RemoveIdConsistent DEF write_failed, forget_includable
  <1>3. CASE restart
    BY <1>3 DEF restart, IdsConsistent, EmptyMap
  <1>4. ASSUME UNCHANGED <<includable_ids, includable_by_id, next_includable_id>>
        PROVE  IdsConsistent'
    BY <1>4 DEF IdsConsistent
  <1> QED
    BY <1>1, <1>2, <1>3, <1>4
       DEF Next, ServerStep, WriteStep, SaveStep, ExclusionStep, vars, registry,
           handle_registration, DeviceResets, is_approved, consume_approval, has_cert, begin,
           send_get, reply_fails, validate, start_write_phase, expire_stale, complete, send_write,
           send_write_fails, write_step_done, write_step_timeout, cancel_write_ack,
           announce_included, mark_included, list_included, complete_write_ack, DeviceAnswers,
           write_tmp, rename_tmp, approve_inclusion, handle_exclusion, unmark_included,
           list_excluded

\* The includable ids are consistent in every reachable state, with any number
\* of devices asking, being approved, failing and succeeding at once.
THEOREM IdsSafe == Spec => []IdsConsistent
  <1>1. Init => IdsConsistent  BY DEF Init, IdsConsistent, EmptyMap
  <1> QED  BY <1>1, IdsStep, TypeCorrect, PTL DEF Spec

\* begin enters a new token, larger than all others, in both indices.
LEMMA BeginConsistent ==
    ASSUME RegistryType, SessionsConsistent, begin
    PROVE  SessionsConsistent'
  <1>1. CASE rx.ep \in DOMAIN by_endpoint
    BY <1>1 DEF begin, SessionsConsistent
  <1>2. CASE rx.ep \notin DOMAIN by_endpoint
    <2> DEFINE e == rx.ep
    <2>1. /\ by_endpoint' = Insert(by_endpoint, e, next_token)
          /\ by_token' = Insert(by_token, next_token, e)
          /\ next_token' = next_token + 1
      BY <1>2 DEF begin
    <2>2. next_token \in Int  BY SMT DEF RegistryType
    <2>3. \A f \in DOMAIN by_endpoint : by_endpoint[f] \in Int
      BY SMT DEF RegistryType, IsMap, Token
    <2>4. \A f \in DOMAIN by_endpoint :
             by_endpoint[f] # next_token /\ by_endpoint[f] < next_token + 1
      BY SMT, <2>2, <2>3 DEF SessionsConsistent
    <2>5. next_token < next_token + 1  BY SMT, <2>2
    <2>6. e \notin DOMAIN by_endpoint  BY <1>2
    <2> HIDE DEF e
    <2>7. ASSUME NEW f \in DOMAIN by_endpoint'
          PROVE  /\ by_endpoint'[f] \in DOMAIN by_token'
                 /\ by_token'[by_endpoint'[f]] = f
                 /\ by_endpoint'[f] < next_token'
      <3>1. CASE f = e  BY <2>1, <2>5, <3>1 DEF Insert
      <3>2. CASE f # e
        <4>1. f \in DOMAIN by_endpoint /\ by_endpoint'[f] = by_endpoint[f]
          BY <2>1, <2>7, <3>2 DEF Insert
        <4>2. by_endpoint[f] \in DOMAIN by_token /\ by_token[by_endpoint[f]] = f
          BY <4>1 DEF SessionsConsistent
        <4> QED  BY <2>1, <2>4, <4>1, <4>2 DEF Insert
      <3> QED  BY <3>1, <3>2
    <2>8. ASSUME NEW t \in DOMAIN by_token'
          PROVE  /\ by_token'[t] \in DOMAIN by_endpoint'
                 /\ by_endpoint'[by_token'[t]] = t
      <3>1. CASE t = next_token  BY <2>1, <3>1 DEF Insert
      <3>2. CASE t # next_token
        <4>1. t \in DOMAIN by_token /\ by_token'[t] = by_token[t]
          BY <2>1, <2>8, <3>2 DEF Insert
        <4>2. by_token[t] \in DOMAIN by_endpoint /\ by_endpoint[by_token[t]] = t
          BY <4>1 DEF SessionsConsistent
        <4>3. by_token[t] # e  BY <2>6, <4>2
        <4> QED  BY <2>1, <4>1, <4>2, <4>3 DEF Insert
      <3> QED  BY <3>1, <3>2
    <2> QED  BY <2>7, <2>8 DEF SessionsConsistent
  <1> QED  BY <1>1, <1>2

\* Removing sessions from both indices keeps the rest consistent.
LEMMA EndConsistent ==
    ASSUME SessionsConsistent, NEW S \in SUBSET DOMAIN by_token,
           by_token' = RemoveAll(by_token, S),
           by_endpoint' = RemoveAll(by_endpoint, {by_token[u] : u \in S}),
           UNCHANGED next_token
    PROVE  SessionsConsistent'
  <1>1. ASSUME NEW f \in DOMAIN by_endpoint'
        PROVE  /\ by_endpoint'[f] \in DOMAIN by_token'
               /\ by_token'[by_endpoint'[f]] = f
               /\ by_endpoint'[f] < next_token'
    <2>1. f \in DOMAIN by_endpoint /\ by_endpoint'[f] = by_endpoint[f]
      BY <1>1 DEF RemoveAll
    <2>2. f \notin {by_token[u] : u \in S}  BY <1>1 DEF RemoveAll
    <2>3. by_endpoint[f] \in DOMAIN by_token /\ by_token[by_endpoint[f]] = f
          /\ by_endpoint[f] < next_token
      BY <2>1 DEF SessionsConsistent
    <2>4. by_endpoint[f] \notin S  BY <2>2, <2>3
    <2> QED  BY <2>1, <2>3, <2>4 DEF RemoveAll
  <1>2. ASSUME NEW t \in DOMAIN by_token'
        PROVE  /\ by_token'[t] \in DOMAIN by_endpoint'
               /\ by_endpoint'[by_token'[t]] = t
    <2>1. t \in DOMAIN by_token /\ t \notin S /\ by_token'[t] = by_token[t]
      BY <1>2 DEF RemoveAll
    <2>2. by_token[t] \in DOMAIN by_endpoint /\ by_endpoint[by_token[t]] = t
      BY <2>1 DEF SessionsConsistent
    <2>3. \A u \in S : by_endpoint[by_token[u]] = u  BY DEF SessionsConsistent
    <2>4. by_token[t] \notin {by_token[u] : u \in S}  BY <2>1, <2>2, <2>3
    <2> QED  BY <2>1, <2>2, <2>4 DEF RemoveAll
  <1> QED  BY <1>1, <1>2 DEF SessionsConsistent

\* Every step keeps the sessions consistent.
LEMMA SessionsStep ==
    ASSUME TypeOK, SessionsConsistent, [Next]_vars
    PROVE  SessionsConsistent'
  <1>1. CASE begin  BY <1>1, BeginConsistent DEF TypeOK
  <1>2. ASSUME NEW t \in Token, NEW p \in Payload, complete(t, p)
        PROVE  SessionsConsistent'
    <2>1. {t} \in SUBSET DOMAIN by_token  BY <1>2 DEF complete
    <2>2. by_token' = RemoveAll(by_token, {t})  BY <1>2 DEF complete, Remove
    <2>3. {by_token[u] : u \in {t}} = {by_token[t]}  OBVIOUS
    <2>4. by_endpoint' = RemoveAll(by_endpoint, {by_token[u] : u \in {t}})
      BY <1>2, <2>3 DEF complete, Remove
    <2> QED  BY <1>2, <2>1, <2>2, <2>4, EndConsistent DEF complete
  <1>3. ASSUME NEW t \in Token, expire_stale(t)
        PROVE  SessionsConsistent'
    <2> DEFINE stale == {u \in DOMAIN by_token : u <= t}
    <2>1. stale \in SUBSET DOMAIN by_token  OBVIOUS
    <2>2. /\ by_token' = RemoveAll(by_token, stale)
          /\ by_endpoint' = RemoveAll(by_endpoint, {by_token[u] : u \in stale})
          /\ UNCHANGED next_token
      BY <1>3 DEF expire_stale
    <2> HIDE DEF stale
    <2> QED  BY <2>1, <2>2, EndConsistent
  <1>4. CASE restart
    BY <1>4 DEF restart, SessionsConsistent, EmptyMap
  <1>5. ASSUME UNCHANGED <<by_token, by_endpoint, next_token>>
        PROVE  SessionsConsistent'
    BY <1>5 DEF SessionsConsistent
  <1> QED
    BY <1>1, <1>2, <1>3, <1>4, <1>5
       DEF Next, ServerStep, WriteStep, SaveStep, ExclusionStep, vars, registry,
           handle_bootstrap, handle_registration, DeviceResets, is_approved, consume_approval,
           has_cert, send_get, reply_fails, validate, start_write_phase, send_write,
           send_write_fails, write_step_done, write_step_timeout, cancel_write_ack, write_failed,
           announce_included, forget_includable, mark_included, list_included, complete_write_ack,
           DeviceAnswers, write_tmp, rename_tmp, approve_inclusion, handle_exclusion,
           unmark_included, list_excluded

\* The GET /0/0 sessions are consistent in every reachable state.
THEOREM SessionsSafe == Spec => []SessionsConsistent
  <1>1. Init => SessionsConsistent  BY DEF Init, SessionsConsistent, EmptyMap
  <1> QED  BY <1>1, SessionsStep, TypeCorrect, PTL DEF Spec

-----------------------------------------------------------------------------
(* Approvals.                                                              *)

\* Every step keeps the account of the approvals.
LEMMA ApprovalStep ==
    ASSUME TypeOK, ApprovalInv, [Next]_vars
    PROVE  ApprovalInv'
  <1>0. TaskType /\ OutsideType  BY DEF TypeOK
  <1>a. \A e \in Endpoint : phases[e] \in Nat /\ approvals[e] \in Nat
    BY SMT, <1>0 DEF OutsideType
  <1>1. ASSUME UNCHANGED <<approved, approvals, phases>>,
               rx' = rx \/ rx'.pc \notin {"consume", "start"}
        PROVE  ApprovalInv'
    BY SMT, <1>a, <1>1 DEF ApprovalInv
  <1>2. CASE is_approved
    <2>1. rx \in Requested  BY <1>0, <1>2, RxType DEF is_approved
    <2>2. rx'.ep = rx.ep /\ rx'.pc \in {"consume", "cert"}
          /\ (rx'.pc = "consume" => rx.ep \in approved)
      BY <1>2, <2>1 DEF is_approved, Requested
    <2> QED  BY SMT, <1>a, <1>2, <2>2 DEF is_approved, ApprovalInv, registry, history
  <1>3. CASE consume_approval
    <2>1. rx \in Requested  BY <1>0, <1>3, RxType DEF consume_approval
    <2>2. rx'.ep = rx.ep /\ rx'.pc = "start"
      BY <1>3, <2>1 DEF consume_approval, Requested
    <2>3. rx.pc = "consume" /\ rx.ep \in approved /\ approved' = approved \ {rx.ep}
          /\ UNCHANGED <<approvals, phases>>
      BY <1>3 DEF consume_approval, ApprovalInv, history
    <2> QED  BY SMT, <1>a, <2>2, <2>3 DEF ApprovalInv
  <1>4. ASSUME NEW k \in Phase, start_write_phase(k)
        PROVE  ApprovalInv'
    <2>1. rx.ep \in Endpoint /\ rx.pc = "start"  BY <1>0, <1>4, RxType DEF start_write_phase
    <2>2. phases \in [Endpoint -> Nat]  BY <1>0 DEF OutsideType
    <2>3. \A e \in Endpoint : phases'[e] = IF e = rx.ep THEN phases[e] + 1 ELSE phases[e]
      BY <1>4, <2>2 DEF start_write_phase
    <2>4. rx'.pc = "idle" /\ UNCHANGED <<approved, approvals>>
      BY <1>4 DEF start_write_phase, NoRx, registry
    <2> QED  BY SMT, <1>a, <2>1, <2>3, <2>4 DEF ApprovalInv
  <1>5. ASSUME NEW id \in Id, approve_inclusion(id)
        PROVE  ApprovalInv'
    <2> DEFINE e == includable_by_id[id]
    <2>1. e \in Endpoint  BY <1>5, ValueType DEF approve_inclusion, TypeOK, RegistryType
    <2>2. approvals \in [Endpoint -> 0 .. MaxApproval]  BY <1>0 DEF OutsideType
    <2>3. \A f \in Endpoint : approvals'[f] = IF f = e THEN approvals[f] + 1 ELSE approvals[f]
      BY <1>5, <2>2 DEF approve_inclusion
    <2>4. approved' = approved \cup {e} /\ UNCHANGED <<rx, phases>>
      BY <1>5 DEF approve_inclusion
    <2> HIDE DEF e
    <2> QED  BY SMT, <1>a, <2>1, <2>3, <2>4 DEF ApprovalInv
  <1>6. CASE restart
    <2>1. approved' = {} /\ rx'.pc = "idle" /\ UNCHANGED <<approvals, phases>>
      BY <1>6 DEF restart, NoRx
    <2> QED  BY SMT, <1>a, <2>1 DEF ApprovalInv
  <1>7. ASSUME NEW e \in Endpoint, handle_bootstrap(e)
        PROVE  ApprovalInv'
    <2>1. rx'.pc = "check" /\ UNCHANGED <<approved, approvals, phases>>
      BY <1>7 DEF handle_bootstrap, history
    <2> QED  BY <1>1, <2>1
  <1>8. CASE has_cert \/ begin \/ send_get \/ reply_fails \/ validate
    <2>1. rx.pc = "cert" => rx \in Requested  BY <1>0, RxType
    <2>2. rx'.pc \notin {"consume", "start"}
      BY SMT, <1>8, <2>1 DEF has_cert, begin, send_get, reply_fails, validate, NoRx, Requested
    <2>3. UNCHANGED <<approved, approvals, phases>>
      BY <1>8 DEF has_cert, begin, send_get, reply_fails, validate, registry, history
    <2> QED  BY <1>1, <2>2, <2>3
  <1>9. ASSUME NEW t \in Token, NEW p \in Payload, complete(t, p)
        PROVE  ApprovalInv'
    <2>1. rx'.pc = "validate" /\ UNCHANGED <<approved, approvals, phases>>
      BY <1>9 DEF complete, history
    <2> QED  BY <1>1, <2>1
  <1>10. ASSUME UNCHANGED <<approved, approvals, phases, rx>>
         PROVE  ApprovalInv'
    BY <1>1, <1>10
  <1> QED
    BY <1>2, <1>3, <1>4, <1>5, <1>6, <1>7, <1>8, <1>9, <1>10
       DEF Next, ServerStep, WriteStep, SaveStep, ExclusionStep, vars, registry, history,
           handle_registration, DeviceResets, expire_stale, send_write, send_write_fails,
           write_step_done, write_step_timeout, cancel_write_ack, write_failed,
           announce_included, forget_includable, mark_included, list_included,
           complete_write_ack, DeviceAnswers, write_tmp, rename_tmp, handle_exclusion,
           unmark_included, list_excluded

\* No device is given a write phase its user did not approve, however the
\* handler, the client and running write phases interleave.
THEOREM PhasesApproved == Spec => []PhaseApproved
  <1>1. Init => ApprovalInv  BY SMT DEF Init, ApprovalInv, NoRx
  <1>2. TypeOK /\ ApprovalInv => PhaseApproved
    <2> SUFFICES ASSUME TypeOK, ApprovalInv, NEW e \in Endpoint
                 PROVE  phases[e] <= approvals[e]
      BY DEF PhaseApproved
    <2>1. phases[e] \in Nat /\ approvals[e] \in Nat  BY SMT DEF TypeOK, OutsideType
    <2> QED  BY SMT, <2>1 DEF ApprovalInv
  <1> QED  BY <1>1, <1>2, ApprovalStep, TypeCorrect, PTL DEF Spec

-----------------------------------------------------------------------------
(* Completion.                                                             *)

\* What a step may do to the state w of a write phase: it keeps the endpoint,
\* and the answers once there is one to every step; and it keeps w sound.
Forward(w, v) ==
    /\ v \in WriteTask
    /\ v.ep = w.ep
    /\ (\A s \in 1 .. LastStep : w.replies[s] \in {"ok", "error"}) => v.replies = w.replies
    /\ Sound(w) => Sound(v)

\* Every step of a write phase takes it forward and leaves the others alone.
LEMMA WriteForward ==
    ASSUME TypeOK, NEW k \in Phase,
           WriteStep(k) \/ complete_write_ack(k) \/ \E r \in Reply : DeviceAnswers(k, r)
    PROVE  /\ write[k] \in WriteTask
           /\ Forward(write[k], write'[k])
           /\ \A j \in Phase \ {k} : write'[j] = write[j]
  <1>0. TaskType /\ write \in [Phase -> {NoWrite} \cup WriteTask]  BY DEF TypeOK, TaskType
  <1>1. write[k] \in WriteTask
    BY <1>0, RunningType, NotStarted
       DEF WriteStep, send_write, send_write_fails, write_step_done, write_step_timeout,
           cancel_write_ack, write_failed, announce_included, forget_includable, mark_included,
           list_included, complete_write_ack, DeviceAnswers, Awaited
  <1>2. TypeOK'  BY WriteStepType, AnswerType
  <1> DEFINE w == write[k]
             v == write'[k]
  <1>3. /\ w.pc \in WritePc /\ w.step \in 1 .. LastStep /\ w.replies \in Replies
        /\ w.ack \in {"none", "true", "false"}
    BY <1>1 DEF WriteTask
  <1>4. \A j \in Phase \ {k} : write'[j] = write[j]
    BY <1>0 DEF WriteStep, send_write, send_write_fails, write_step_done, write_step_timeout,
           cancel_write_ack, write_failed, announce_included, forget_includable, mark_included,
           list_included, complete_write_ack, DeviceAnswers
  <1>5. CASE \E r \in Reply : DeviceAnswers(k, r)
    <2> PICK r \in Reply : DeviceAnswers(k, r)  BY <1>5
    <2>1. v = [w EXCEPT !.replies = [w.replies EXCEPT ![w.step] = r]]
      BY <1>0 DEF DeviceAnswers
    <2>2. [w.replies EXCEPT ![w.step] = r] \in Replies  BY <1>3 DEF Replies
    <2>3. v \in WriteTask  BY <1>1, <2>1, <2>2 DEF WriteTask
    <2>4. /\ v.ep = w.ep /\ v.step = w.step /\ v.ack = w.ack /\ v.pc = w.pc
          /\ v.replies = [w.replies EXCEPT ![w.step] = r]
      BY <1>1, <2>1 DEF WriteTask
    <2>5. w.replies[w.step] = "none"  BY DEF DeviceAnswers
    <2>6. \A s \in 1 .. LastStep : s # w.step => v.replies[s] = w.replies[s]
      BY <1>3, <2>4 DEF Replies
    <2>7. Sound(w) => Sound(v)
      <3> SUFFICES ASSUME Sound(w) PROVE Sound(v)  OBVIOUS
      <3>1. w.ack # "true"  BY <2>5 DEF Sound
      <3>2. \A s \in 1 .. LastStep : s < w.step => v.replies[s] \in {"ok", "error"}
        <4> TAKE s \in 1 .. LastStep
        <4> HAVE s < w.step
        <4>1. w.replies[s] \in {"ok", "error"}  BY DEF Sound
        <4>2. s # w.step  BY SMT, <1>3
        <4> QED  BY <2>6, <4>1, <4>2
      <3> QED  BY <2>4, <3>1, <3>2 DEF Sound
    <2> QED  BY <1>1, <1>3, <1>4, <2>3, <2>4, <2>5, <2>7 DEF Forward
  <1>6. ASSUME WriteStep(k) \/ complete_write_ack(k)
        PROVE  /\ v.ep = w.ep /\ v.replies = w.replies /\ v.pc \in WritePc
               /\ \/ v.step = w.step /\ v.ack = w.ack /\ v.pc \notin {"announce", "forget", "mark"}
                  \/ v.step = w.step /\ v.ack = w.ack
                     /\ v.pc \in {"announce"} /\ w.ack = "true" /\ w.step = LastStep
                  \/ v.step = w.step /\ v.ack = w.ack
                     /\ w.pc \in {"announce", "forget", "mark"}
                  \/ v.step = w.step /\ v.pc = w.pc /\ v.pc \in {"send", "wait", "cancel"}
                     /\ w.replies[w.step] # "none" /\ v.ack = Fired(w.replies[w.step])
                  \/ v.step = w.step + 1 /\ v.ack = "none" /\ w.ack = "true" /\ v.pc = "send"
    <2>1. CASE complete_write_ack(k)
      <3>1. v = [w EXCEPT !.pending = FALSE, !.ack = Fired(w.replies[w.step])]
        BY <1>0, <2>1 DEF complete_write_ack
      <3> QED  BY SMT, <1>1, <2>1, <3>1 DEF complete_write_ack, Awaited, WriteTask
    <2>2. CASE send_write(k)
      <3>1. v = [w EXCEPT !.pc = "wait", !.pending = w.pending \/ w.attempts = 0]
        BY <1>0, <2>2 DEF send_write
      <3> QED  BY <1>1, <3>1 DEF WriteTask, WritePc
    <2>3. CASE send_write_fails(k)
      <3>1. v = [w EXCEPT !.pc = "failed"]  BY <1>0, <2>3 DEF send_write_fails
      <3> QED  BY <1>1, <3>1 DEF WriteTask, WritePc
    <2>4. CASE write_step_done(k)
      <3>1. CASE w.ack = "false"
        <4>1. v = [w EXCEPT !.pc = "failed"]  BY <1>0, <2>4, <3>1 DEF write_step_done
        <4> QED  BY <1>1, <4>1 DEF WriteTask, WritePc
      <3>2. CASE w.ack = "true" /\ w.step = LastStep
        <4>1. v = [w EXCEPT !.pc = "announce"]  BY <1>0, <2>4, <3>2 DEF write_step_done
        <4> QED  BY <1>1, <3>2, <4>1 DEF WriteTask, WritePc
      <3>3. CASE w.ack = "true" /\ w.step # LastStep
        <4>1. v = [w EXCEPT !.pc = "send", !.step = w.step + 1, !.attempts = 0, !.ack = "none"]
          BY <1>0, <2>4, <3>3 DEF write_step_done
        <4> QED  BY <1>1, <3>3, <4>1 DEF WriteTask, WritePc
      <3> QED  BY <1>3, <2>4, <3>1, <3>2, <3>3 DEF write_step_done
    <2>5. CASE write_step_timeout(k)
      <3>1. \/ v = [w EXCEPT !.pc = "cancel"]
            \/ v = [w EXCEPT !.pc = "send", !.attempts = w.attempts + 1]
        BY <1>0, <2>5 DEF write_step_timeout
      <3> QED  BY <1>1, <3>1 DEF WriteTask, WritePc
    <2>6. CASE cancel_write_ack(k)
      <3>1. v = [w EXCEPT !.pc = "failed", !.pending = FALSE]  BY <1>0, <2>6 DEF cancel_write_ack
      <3> QED  BY <1>1, <3>1 DEF WriteTask, WritePc
    <2>7. CASE write_failed(k) \/ list_included(k)
      <3>1. v = [w EXCEPT !.pc = "done"]  BY <1>0, <2>7 DEF write_failed, list_included
      <3> QED  BY <1>1, <3>1 DEF WriteTask, WritePc
    <2>8. CASE announce_included(k)
      <3>1. v = [w EXCEPT !.pc = "forget"] /\ w.pc = "announce"
        BY <1>0, <2>8 DEF announce_included
      <3> QED  BY <1>1, <3>1 DEF WriteTask, WritePc
    <2>9. CASE forget_includable(k)
      <3>1. v = [w EXCEPT !.pc = "mark"] /\ w.pc = "forget"
        BY <1>0, <2>9 DEF forget_includable
      <3> QED  BY <1>1, <3>1 DEF WriteTask, WritePc
    <2>10. CASE mark_included(k)
      <3>1. v = [w EXCEPT !.pc = "list"] /\ w.pc = "mark"
        BY <1>0, <2>10 DEF mark_included
      <3> QED  BY <1>1, <3>1 DEF WriteTask, WritePc
    <2> QED
      BY <1>6, <2>1, <2>2, <2>3, <2>4, <2>5, <2>6, <2>7, <2>8, <2>9, <2>10 DEF WriteStep
  <1>7. ASSUME WriteStep(k) \/ complete_write_ack(k), Sound(w)
        PROVE  Sound(v)
    <2>1. /\ \A s \in 1 .. LastStep : s < w.step => w.replies[s] \in {"ok", "error"}
          /\ w.ack = "true" => w.replies[w.step] \in {"ok", "error"}
          /\ w.pc \in {"announce", "forget", "mark"} => w.step = LastStep /\ w.ack = "true"
      BY <1>7 DEF Sound
    <2>2. \A s \in 1 .. LastStep : w.replies[s] \in Reply \cup {"none"}  BY <1>3 DEF Replies
    <2>3. v.replies = w.replies  BY <1>6, <1>7
    <2>4. CASE v.step = w.step /\ v.ack = w.ack
      <3>1. v.pc \in {"announce", "forget", "mark"} => w.step = LastStep /\ w.ack = "true"
        BY <1>3, <1>6, <1>7, <2>1, <2>4
      <3> QED  BY <2>1, <2>3, <2>4, <3>1 DEF Sound
    <2>5. CASE v.step = w.step /\ v.pc \in {"send", "wait", "cancel"}
               /\ w.replies[w.step] # "none" /\ v.ack = Fired(w.replies[w.step])
      BY <1>3, <2>1, <2>2, <2>3, <2>5 DEF Sound, Fired, Reply
    <2>6. CASE v.step = w.step + 1 /\ v.ack = "none" /\ w.ack = "true" /\ v.pc = "send"
      <3>1. \A s \in 1 .. LastStep : s < w.step + 1 => w.replies[s] \in {"ok", "error"}
        <4> TAKE s \in 1 .. LastStep
        <4> HAVE s < w.step + 1
        <4>1. s < w.step \/ s = w.step  BY SMT, <1>3
        <4> QED  BY <2>1, <2>6, <4>1
      <3> QED  BY <2>3, <2>6, <3>1 DEF Sound
    <2> QED  BY <1>6, <1>7, <2>4, <2>5, <2>6
  <1>8. v \in WriteTask
    <2>1. write' \in [Phase -> {NoWrite} \cup WriteTask]  BY <1>2 DEF TypeOK, TaskType
    <2>2. ASSUME WriteStep(k) \/ complete_write_ack(k)
          PROVE  v # NoWrite
      <3>1. v.pc \in WritePc  BY <1>6, <2>2
      <3>2. v.pc # "none"  BY <3>1 DEF WritePc
      <3> HIDE DEF v
      <3> QED  BY SMT, <3>2 DEF NoWrite
    <2>3. ASSUME \E r \in Reply : DeviceAnswers(k, r)
          PROVE  v \in WriteTask
      BY <1>5, <2>3 DEF Forward
    <2> QED  BY <2>1, <2>2, <2>3
  <1> QED  BY <1>1, <1>4, <1>5, <1>6, <1>7, <1>8 DEF Forward

\* In every step each write phase is left alone, goes forward or is started.
LEMMA PhaseForward ==
    ASSUME TypeOK, [Next]_vars, NEW j \in Phase
    PROVE  \/ write'[j] = write[j]
           \/ write[j] \in WriteTask /\ Forward(write[j], write'[j])
           \/ write[j] = NoWrite /\ \E e \in Endpoint : write'[j] = NewWrite(e)
  <1>0. TaskType /\ write \in [Phase -> {NoWrite} \cup WriteTask]  BY DEF TypeOK, TaskType
  <1>1. ASSUME NEW k \in Phase,
               WriteStep(k) \/ complete_write_ack(k) \/ \E r \in Reply : DeviceAnswers(k, r)
        PROVE  write'[j] = write[j] \/ (write[j] \in WriteTask /\ Forward(write[j], write'[j]))
    BY <1>1, WriteForward
  <1>2. ASSUME NEW k \in Phase, start_write_phase(k)
        PROVE  \/ write'[j] = write[j]
               \/ write[j] = NoWrite /\ \E e \in Endpoint : write'[j] = NewWrite(e)
    <2>1. rx.ep \in Endpoint  BY <1>0, <1>2, RxType DEF start_write_phase
    <2> QED  BY <1>0, <1>2, <2>1 DEF start_write_phase
  <1>3. CASE restart
    <2>1. CASE write[j] = NoWrite  BY <1>3, <2>1 DEF restart
    <2>2. CASE write[j] # NoWrite
      <3>1. write[j] \in WriteTask  BY <1>0, <2>2
      <3>2. write'[j] = [write[j] EXCEPT !.pc = "done"]  BY <1>3, <2>2 DEF restart
      <3>3. /\ write'[j] \in WriteTask
            /\ write'[j].ep = write[j].ep
            /\ write'[j].replies = write[j].replies
            /\ write'[j].step = write[j].step
            /\ write'[j].ack = write[j].ack
            /\ write'[j].pc = "done"
        BY <3>1, <3>2 DEF WriteTask, WritePc
      <3>4. Sound(write[j]) => Sound(write'[j])  BY <3>3 DEF Sound
      <3> QED  BY <3>1, <3>3, <3>4 DEF Forward
    <2> QED  BY <2>1, <2>2
  <1>4. CASE UNCHANGED write  BY <1>4
  <1> QED
    BY <1>1, <1>2, <1>3, <1>4
       DEF Next, ServerStep, SaveStep, ExclusionStep, vars, handle_bootstrap,
           handle_registration, DeviceResets, is_approved, consume_approval, has_cert, begin,
           send_get, reply_fails, validate, expire_stale, complete, write_tmp, rename_tmp,
           approve_inclusion, handle_exclusion, unmark_included, list_excluded

\* A device that completed a write phase has completed it for good.
LEMMA CompletedStable ==
    ASSUME TypeOK, [Next]_vars, NEW e, Completed(e)
    PROVE  Completed(e)'
  <1> PICK k \in Phase : write[k] # NoWrite /\ write[k].ep = e /\ Acknowledged(k)
    BY DEF Completed
  <1>1. CASE write'[k] = write[k]  BY <1>1 DEF Completed, Acknowledged
  <1>2. CASE Forward(write[k], write'[k])
    <2>1. write'[k].ep = e /\ write'[k].replies = write[k].replies /\ write'[k] \in WriteTask
      BY <1>2 DEF Forward, Acknowledged
    <2>2. write'[k].pc # "none"
      <3>1. \A t \in WriteTask : t.pc # "none"  BY DEF WriteTask, WritePc
      <3> QED  BY <2>1, <3>1
    <2>3. write'[k] # NoWrite  BY SMT, <2>2 DEF NoWrite
    <2>4. Acknowledged(k)'  BY <2>1 DEF Acknowledged
    <2> QED  BY <2>1, <2>3, <2>4 DEF Completed
  <1> QED  BY <1>1, <1>2, PhaseForward

\* Every step keeps the write phases sound.
LEMMA SoundStep ==
    ASSUME TypeOK, [Next]_vars, NEW j \in Phase, write[j] # NoWrite => Sound(write[j]),
           write'[j] # NoWrite
    PROVE  Sound(write'[j])
  <1>1. CASE write'[j] = write[j]  BY <1>1
  <1>2. CASE write[j] \in WriteTask /\ Forward(write[j], write'[j])
    <2>1. write[j].pc # "none"  BY <1>2 DEF WriteTask, WritePc
    <2>2. write[j] # NoWrite  BY SMT, <2>1 DEF NoWrite
    <2> QED  BY <1>2, <2>2 DEF Forward
  <1>3. ASSUME NEW e \in Endpoint, write'[j] = NewWrite(e)
        PROVE  Sound(write'[j])
    <2>1. NewWrite(e).step = 1 /\ NewWrite(e).ack = "none" /\ NewWrite(e).pc = "send"
      BY DEF NewWrite
    <2>2. \A s \in 1 .. LastStep : ~(s < 1)  BY SMT, InclusionAssumption
    <2>3. Sound(NewWrite(e))
      <3> HIDE DEF NewWrite
      <3> QED  BY <2>1, <2>2 DEF Sound
    <2> QED  BY <1>3, <2>3
  <1> QED  BY <1>1, <1>2, <1>3, PhaseForward

\* Every step keeps the completion invariant.
LEMMA CompletionStep ==
    ASSUME TypeOK, CompletionInv, [Next]_vars
    PROVE  CompletionInv'
  <1>0. \A e : Completed(e) => Completed(e)'  BY CompletedStable
  <1>1. \A j \in Phase : write'[j] # NoWrite => Sound(write'[j])
    BY SoundStep DEF CompletionInv
  <1>2. /\ \A e \in included \cup saved \cup announced : Completed(e)'
        /\ \A s \in saves : \A e \in s.list : Completed(e)'
        /\ tmp # NoTmp => \A e \in tmp : Completed(e)'
    BY <1>0 DEF CompletionInv, IncludedCompleted
  <1>3. ASSUME NEW k \in Phase, write[k].pc \in {"announce", "mark"}
        PROVE  \A e : e = write[k].ep => Completed(e)'
    <2>1. write[k] # NoWrite /\ Sound(write[k])
      BY <1>3, NotStarted DEF CompletionInv
    <2>2. write[k] \in WriteTask  BY <2>1, RunningType DEF TypeOK
    <2>3. write[k].step = LastStep /\ write[k].replies[LastStep] \in {"ok", "error"}
      BY <1>3, <2>1 DEF Sound
    <2>4. \A s \in 1 .. LastStep : s < LastStep => write[k].replies[s] \in {"ok", "error"}
      BY <2>1, <2>3 DEF Sound
    <2>5. Acknowledged(k)
      <3> SUFFICES ASSUME NEW s \in 1 .. LastStep
                   PROVE  write[k].replies[s] \in {"ok", "error"}
        BY DEF Acknowledged
      <3>1. s = LastStep \/ s < LastStep  BY SMT
      <3> QED  BY <2>3, <2>4, <3>1
    <2>6. Completed(write[k].ep)  BY <2>1, <2>5 DEF Completed
    <2> QED  BY <1>0, <2>6
  <1>3a. ASSUME NEW k \in Phase, mark_included(k)
         PROVE  IncludedCompleted'
    <2>1. \A e : e = write[k].ep => Completed(e)'  BY <1>3, <1>3a DEF mark_included
    <2> QED  BY <1>2, <1>3a, <2>1 DEF mark_included, IncludedCompleted, disk
  <1>3b. ASSUME NEW k \in Phase, announce_included(k)
         PROVE  IncludedCompleted'
    <2>1. \A e : e = write[k].ep => Completed(e)'  BY <1>3, <1>3b DEF announce_included
    <2> QED  BY <1>2, <1>3b, <2>1 DEF announce_included, IncludedCompleted, disk
  <1>4. ASSUME NEW by, SpawnSave(by), UNCHANGED <<included, tmp, saved, announced>>
        PROVE  IncludedCompleted'
    <2>1. saves' = saves \cup {[by |-> by, list |-> included, pc |-> "write"]}
      BY <1>4 DEF SpawnSave
    <2> QED  BY SMT, <1>2, <1>4, <2>1 DEF IncludedCompleted
  <1>5. ASSUME NEW s \in saves, write_tmp(s)
        PROVE  IncludedCompleted'
    <2>1. s \in Save  BY DEF TypeOK, ListType
    <2>2. [s EXCEPT !.pc = "rename"].list = s.list  BY <2>1 DEF Save
    <2> QED  BY <1>2, <1>5, <2>2 DEF write_tmp, IncludedCompleted
  <1>6. ASSUME NEW s \in saves, rename_tmp(s)
        PROVE  IncludedCompleted'
    BY <1>2, <1>6 DEF rename_tmp, IncludedCompleted
  <1>7. ASSUME NEW x \in Exclusion, unmark_included(x)
        PROVE  IncludedCompleted'
    BY <1>2, <1>7 DEF unmark_included, IncludedCompleted, disk
  <1>8. ASSUME restart PROVE IncludedCompleted'
    <2>1. included' = saved /\ saves' = {} /\ UNCHANGED <<tmp, saved, announced>>  BY <1>8 DEF restart
    <2> QED  BY <1>2, <2>1 DEF IncludedCompleted
  <1>9. ASSUME UNCHANGED <<included, saves, tmp, saved, announced>>
        PROVE  IncludedCompleted'
    BY <1>2, <1>9 DEF IncludedCompleted
  <1>10. ASSUME NEW k \in Phase, WriteStep(k)
         PROVE  IncludedCompleted'
    <2>1. CASE mark_included(k)  BY <1>3a, <2>1
    <2>4. CASE announce_included(k)  BY <1>3b, <2>4
    <2>2. CASE list_included(k)  BY <1>4, <2>2 DEF list_included
    <2>3. ASSUME ~ mark_included(k), ~ list_included(k), ~ announce_included(k)
          PROVE  UNCHANGED <<included, saves, tmp, saved, announced>>
      BY <1>10, <2>3
         DEF WriteStep, disk, send_write, send_write_fails, write_step_done, write_step_timeout,
             cancel_write_ack, write_failed, forget_includable
    <2> QED  BY <1>9, <2>1, <2>2, <2>3, <2>4
  <1>11. ASSUME NEW x \in Exclusion, ExclusionStep(x)
         PROVE  IncludedCompleted'
    BY <1>4, <1>7, <1>11 DEF ExclusionStep, list_excluded
  <1>12. ASSUME SaveStep PROVE IncludedCompleted'
    BY <1>5, <1>6, <1>12 DEF SaveStep
  <1>13. ASSUME ServerStep PROVE IncludedCompleted'
    <2>1. UNCHANGED <<included, saves, tmp, saved, announced>>
      BY <1>13 DEF ServerStep, disk, is_approved, consume_approval, has_cert, begin, send_get,
         reply_fails, validate, start_write_phase
    <2> QED  BY <1>9, <2>1
  <1>14. ASSUME \/ \E e \in Endpoint : \/ handle_bootstrap(e) \/ handle_registration(e)
                                      \/ DeviceResets(e)
                \/ \E t \in Token : expire_stale(t) \/ \E p \in Payload : complete(t, p)
                \/ \E k \in Phase : complete_write_ack(k) \/ \E r \in Reply : DeviceAnswers(k, r)
                \/ \E id \in Id : approve_inclusion(id)
                \/ \E x \in Exclusion, e \in Endpoint : handle_exclusion(x, e)
                \/ UNCHANGED vars
         PROVE  UNCHANGED <<included, saves, tmp, saved, announced>>
    BY <1>14 DEF vars, disk, handle_bootstrap, handle_registration, DeviceResets, expire_stale,
       complete, complete_write_ack, DeviceAnswers, approve_inclusion, handle_exclusion
  <1>15. IncludedCompleted'
    BY <1>8, <1>9, <1>10, <1>11, <1>12, <1>13, <1>14 DEF Next
  <1> QED  BY <1>1, <1>15 DEF CompletionInv

\* An endpoint announced as included, or in the list, acknowledged every
\* step of one write phase, whatever timeouts, late answers, crashes, reordered
\* saves and exclusions came in between.
THEOREM InclusionComplete == Spec => []IncludedCompleted
  <1>1. Init => CompletionInv  BY DEF Init, CompletionInv, IncludedCompleted
  <1>2. CompletionInv => IncludedCompleted  BY DEF CompletionInv
  <1> QED  BY <1>1, <1>2, CompletionStep, TypeCorrect, PTL DEF Spec

=============================================================================
