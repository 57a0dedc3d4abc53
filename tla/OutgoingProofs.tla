--------------------------- MODULE OutgoingProofs ---------------------------
(***************************************************************************)
(* What the clients of the event socket know of the device, for any number *)
(* of tasks and of clients.                                                *)
(***************************************************************************)
EXTENDS Outgoing, TLAPS

\* Most leaves are first-order reasoning; the others name SMT.
USE Zenon

-----------------------------------------------------------------------------
(* Sequences of calls.                                                     *)

\* What a task may start with.
Fresh(s) == Tidy(s) /\ (s # <<>> => s[1].call # "broadcast")

\* What is left after the first call is fresh.
LEMMA TailTidy ==
    ASSUME NEW s, Tidy(s), s # <<>>
    PROVE  Fresh(Tail(s))
<1>1. s \in Seq(Call) /\ Len(s) \in Nat /\ Len(s) > 0
  BY SMT DEF Tidy
<1>2. Tail(s) \in Seq(Call) /\ Len(Tail(s)) = Len(s) - 1
  BY SMT, <1>1
<1>3. \A i \in 1 .. Len(s) - 1 : Tail(s)[i] = s[i + 1]
  BY SMT, <1>1
<1>4. Tidy(Tail(s))
  <2> SUFFICES ASSUME NEW i \in 2 .. Len(Tail(s))
               PROVE  Tail(s)[i].call # "broadcast"
    BY <1>2 DEF Tidy
  <2>1. i + 1 \in 2 .. Len(s) /\ i \in 1 .. Len(s) - 1
    BY SMT, <1>1, <1>2
  <2>2. Tail(s)[i] = s[i + 1]
    BY SMT, <1>1, <1>3, <2>1
  <2> QED
    BY <2>1, <2>2 DEF Tidy
<1>5. Tail(s) # <<>> => 2 \in 2 .. Len(s) /\ Tail(s)[1] = s[2]
  BY SMT, <1>1, <1>2, <1>3
<1> QED
  BY <1>4, <1>5 DEF Tidy, Fresh

\* A tidy sequence followed by a fresh one is tidy.
LEMMA ConcatTidy ==
    ASSUME NEW s, NEW r, Tidy(s), Fresh(r)
    PROVE  Tidy(s \o r) /\ (Fresh(s) => Fresh(s \o r))
<1>1. s \in Seq(Call) /\ r \in Seq(Call) /\ Len(s) \in Nat /\ Len(r) \in Nat
  BY SMT DEF Fresh, Tidy
<1>2. s \o r \in Seq(Call) /\ Len(s \o r) = Len(s) + Len(r)
  BY SMT, <1>1
<1>3. \A i \in 1 .. Len(s) + Len(r) : (s \o r)[i] = IF i <= Len(s) THEN s[i] ELSE r[i - Len(s)]
  BY SMT, <1>1
<1>4. ASSUME NEW i \in 2 .. Len(s \o r)
      PROVE  (s \o r)[i].call # "broadcast"
  <2>0. i \in 1 .. Len(s) + Len(r)
    BY SMT, <1>1, <1>2
  <2>1. CASE i <= Len(s)
    <3>1. (s \o r)[i] = s[i] /\ i \in 2 .. Len(s)
      BY SMT, <1>1, <1>3, <2>0, <2>1
    <3> QED
      BY <3>1 DEF Tidy
  <2>2. CASE i = Len(s) + 1
    <3>1. (s \o r)[i] = r[1] /\ r # <<>>
      BY SMT, <1>1, <1>2, <1>3, <2>0, <2>2
    <3> QED
      BY <3>1 DEF Fresh
  <2>3. CASE i > Len(s) + 1
    <3>1. /\ (s \o r)[i] = r[i - Len(s)]
          /\ i - Len(s) \in 2 .. Len(r)
      BY SMT, <1>1, <1>2, <1>3, <2>0, <2>3
    <3> QED
      BY <3>1 DEF Fresh, Tidy
  <2> QED
    BY SMT, <1>1, <2>0, <2>1, <2>2, <2>3
<1>5. Tidy(s \o r)
  BY <1>2, <1>4 DEF Tidy
<1>6. ASSUME Fresh(s), s \o r # <<>> PROVE (s \o r)[1].call # "broadcast"
  <2>0. 1 \in 1 .. Len(s) + Len(r)
    BY SMT, <1>1, <1>2, <1>6
  <2>1. CASE s = <<>>
    <3>1. (s \o r)[1] = r[1] /\ r # <<>>
      BY SMT, <1>1, <1>2, <1>3, <1>6, <2>0, <2>1
    <3> QED
      BY <3>1 DEF Fresh
  <2>2. CASE s # <<>>
    <3>1. (s \o r)[1] = s[1]
      BY SMT, <1>1, <1>3, <2>0, <2>2
    <3> QED
      BY <1>6, <2>2, <3>1 DEF Fresh
  <2> QED
    BY <2>1, <2>2
<1> QED
  BY <1>5, <1>6 DEF Fresh

\* A single call is tidy, and fresh if it is not the broadcast of an event.
LEMMA OneCall ==
    ASSUME NEW c \in Call
    PROVE  /\ Tidy(<<c>>)
           /\ Head(<<c>>) = c
           /\ c.call # "broadcast" => Fresh(<<c>>)
BY SMT DEF Tidy, Fresh

\* What the tasks are given to do.
LEMMA CallsFresh ==
    /\ Fresh(<<>>)
    /\ \A c \in Class : Fresh(send_packet(c)) /\ Fresh(confirmable(c))
    /\ \A k \in Kind : Fresh(send_event(k))
    /\ \A c \in {"register", "remove_by_addr", "set_device_offline", "send_device_data", "spawn"} :
         Fresh(<<[call |-> c]>>)
    /\ \A n \in 0 .. Writes : Fresh(<<[call |-> "bootstrap_write_phase", left |-> n]>>)
<1>1. Fresh(<<>>)
  BY SMT DEF Fresh, Tidy
<1>2. \A c \in Class : Fresh(send_packet(c))
  BY SMT DEF Fresh, Tidy, send_packet, Call
<1>3. \A c \in Class : Fresh(<<[call |-> "await", class |-> c]>>)
  BY OneCall DEF Call
<1>4. \A c \in Class : Fresh(confirmable(c))
  BY <1>2, <1>3, ConcatTidy DEF Fresh, confirmable
<1>5. \A k \in Kind : Fresh(send_event(k))
  BY OneCall DEF Call, send_event
<1>6. \A c \in {"register", "remove_by_addr", "set_device_offline", "send_device_data", "spawn"} :
         Fresh(<<[call |-> c]>>)
  BY OneCall DEF Call
<1>7. \A n \in 0 .. Writes : Fresh(<<[call |-> "bootstrap_write_phase", left |-> n]>>)
  BY OneCall DEF Call
<1> QED
  BY <1>1, <1>2, <1>4, <1>5, <1>6, <1>7

\* handler gives the server task whole packets and whole events.
LEMMA HandlerFresh == \A p \in Packet : Fresh(handler(p))
<1>0. {"plain", "encrypted"} = Class /\ "other" \in Kind
  BY DEF Class, Kind
<1>1. Fresh(handler("none")) /\ Fresh(handler("answer")) /\ Fresh(handler("bs_bad"))
  BY <1>0, CallsFresh DEF handler
<1>2. Fresh(handler("rd"))
  BY <1>0, CallsFresh, ConcatTidy DEF handler, Fresh
<1>3. Fresh(handler("dp"))
  BY <1>0, CallsFresh, ConcatTidy DEF handler, Fresh
<1>4. Fresh(handler("delete"))
  BY <1>0, CallsFresh, ConcatTidy DEF handler, Fresh
<1>5. Fresh(send_event("other") \o send_packet("plain"))
  BY <1>0, CallsFresh, ConcatTidy DEF Fresh
<1>6. Fresh(handler("bs")) /\ Fresh(handler("bs_again"))
  BY <1>0, <1>5, CallsFresh DEF handler
<1>7. Fresh(send_event("other") \o send_packet("plain") \o <<[call |-> "spawn"]>>)
  BY <1>5, CallsFresh, ConcatTidy DEF Fresh
<1>8. Fresh(handler("bs_approved"))
  BY <1>7 DEF handler
<1> QED
  BY <1>1, <1>2, <1>3, <1>4, <1>6, <1>8 DEF Packet

-----------------------------------------------------------------------------
(* Steps.                                                                  *)

\* A step after which the tasks of A have tidy calls to make.
Restarts(A) ==
    /\ todo' \in [Actor -> Seq(Call)]
    /\ \A b \in A : Tidy(todo'[b])
    /\ \A b \in Actor \ A : todo'[b] = todo[b]
    /\ UNCHANGED <<tclass, seq>>

LEMMA RestartStep ==
    ASSUME CallsInv, NEW A \in SUBSET Actor, Restarts(A)
    PROVE  CallsInv'
BY DEF Restarts, CallsInv

\* set_tclass
LEMMA SetClassStep ==
    ASSUME CallsInv, NEW a \in Actor, set_tclass(a)
    PROVE  CallsInv'
<1> DEFINE s == todo[a]
<1>0. Tidy(s) /\ s # <<>> /\ s[1].call = "set_tclass" /\ s[1] \in Call /\ Head(s) = s[1]
  BY SMT DEF CallsInv, Tidy, set_tclass, At
<1>1. todo' = [todo EXCEPT ![a] = Tail(s)] /\ tclass' \in {s[1].class, tclass} /\ seq' = seq
  BY <1>0 DEF set_tclass, Done, Goes
<1>2. Tidy(Tail(s)) /\ Tail(s) \in Seq(Call)
  BY <1>0, TailTidy DEF Fresh, Tidy
<1>3. todo' \in [Actor -> Seq(Call)] /\ \A b \in Actor : Tidy(todo'[b])
  BY <1>1, <1>2 DEF CallsInv
<1>4. tclass' \in Class
  BY <1>0, <1>1 DEF Call, CallsInv
<1> QED
  BY <1>1, <1>3, <1>4 DEF CallsInv

\* fetch_add: the broadcast comes next.
LEMMA FetchAddStep ==
    ASSUME CallsInv, NEW a \in Actor, fetch_add(a)
    PROVE  CallsInv'
<1> DEFINE s == todo[a]
           h == [call |-> "broadcast", kind |-> Head(s).kind, seq |-> seq]
<1>0. Tidy(s) /\ s # <<>> /\ s[1].call = "fetch_add" /\ s[1] \in Call /\ Head(s) = s[1]
  BY SMT DEF CallsInv, Tidy, fetch_add, At
<1>1. todo' = [todo EXCEPT ![a] = <<h>> \o Tail(s)] /\ seq' = (seq + 1) % SeqMod /\ tclass' = tclass
  BY DEF fetch_add, Goes
<1>2. h \in Call
  BY <1>0 DEF Call, CallsInv
<1> HIDE DEF h
<1>3. Tidy(<<h>> \o Tail(s))
  BY <1>0, <1>2, TailTidy, OneCall, ConcatTidy
<1>4. todo' \in [Actor -> Seq(Call)] /\ \A b \in Actor : Tidy(todo'[b])
  BY <1>1, <1>3 DEF CallsInv, Tidy
<1>5. seq' \in Seqs
  BY SMT, <1>1, OutgoingAssumption DEF Seqs, CallsInv
<1> QED
  BY <1>1, <1>4, <1>5 DEF CallsInv

\* Every other call of a task, and whatever sets a task going.
LEMMA OtherSteps ==
    ASSUME CallsInv, NEW a \in Actor,
           \/ broadcast(a) \/ send_to(a) \/ send_fails(a) \/ retransmit(a) \/ answered(a) \/ give_up(a)
           \/ register(a) \/ remove_by_addr(a) \/ set_device_offline(a) \/ send_device_data(a)
           \/ bootstrap_write_phase(a) \/ \E t \in Task : spawn(a, t)
           \/ a = Server /\ \E p \in Packet : handle_packet(p)
           \/ a \in Task /\ dispatch_op(a)
    PROVE  \E A \in SUBSET Actor : Restarts(A)
<1> DEFINE s == todo[a]
<1>0. Tidy(s) /\ s \in Seq(Call) /\ (s # <<>> => Head(s) = s[1] /\ s[1] \in Call)
  BY SMT DEF CallsInv, Tidy
<1>c. {"plain", "encrypted"} = Class /\ {"online", "offline", "other"} \subseteq Kind
  BY DEF Class, Kind, Status
<1>g. ASSUME NEW r, Fresh(r), Goes(a, r), UNCHANGED <<tclass, seq>>
      PROVE  \E A \in SUBSET Actor : Restarts(A)
  <2>1. r \in Seq(Call) /\ todo' = [todo EXCEPT ![a] = r]
    BY <1>g DEF Fresh, Tidy, Goes
  <2>2. Restarts({a})
    BY <1>g, <2>1 DEF Restarts, CallsInv, Fresh
  <2> QED
    BY <2>2
<1>d. ASSUME s # <<>>, Done(a), UNCHANGED <<tclass, seq>>
      PROVE  \E A \in SUBSET Actor : Restarts(A)
  <2>1. Fresh(Tail(s))
    BY <1>0, <1>d, TailTidy
  <2> QED
    BY <1>0, <1>d, <1>g, <2>1 DEF Done, At
<1>1. CASE broadcast(a) \/ send_to(a) \/ answered(a) \/ register(a) \/ remove_by_addr(a)
  BY <1>0, <1>1, <1>d DEF broadcast, send_to, answered, register, remove_by_addr, At
<1>2. CASE send_fails(a) \/ give_up(a)
  BY <1>2, <1>g, CallsFresh DEF send_fails, give_up, At
<1>3. CASE retransmit(a)
  <2>1. Head(s).class \in Class /\ Fresh(s)
    BY <1>0, <1>3 DEF retransmit, At, Call, Fresh
  <2>2. Fresh(send_packet(Head(s).class) \o s)
    BY <2>1, CallsFresh, ConcatTidy DEF Fresh
  <2> QED
    BY <1>3, <1>g, <2>2 DEF retransmit, At
<1>4. CASE set_device_offline(a)
  <2>1. CASE Done(a)
    BY <1>0, <1>4, <1>d, <2>1 DEF set_device_offline, At
  <2>2. CASE Goes(a, send_event("offline"))
    BY <1>4, <1>c, <1>g, <2>2, CallsFresh DEF set_device_offline, At
  <2> QED
    BY <1>4, <2>1, <2>2 DEF set_device_offline
<1>5. CASE bootstrap_write_phase(a)
  <2>1. Head(s).left \in 0 .. Writes
    BY <1>0, <1>5 DEF bootstrap_write_phase, At, Call
  <2>2. Fresh(send_event("online") \o send_event("other"))
    BY <1>c, CallsFresh, ConcatTidy DEF Fresh
  <2>3. Head(s).left # 0 => Fresh(confirmable("plain") \o
                               <<[call |-> "bootstrap_write_phase", left |-> Head(s).left - 1]>>)
    <3> SUFFICES ASSUME Head(s).left # 0
                 PROVE  Fresh(confirmable("plain") \o
                               <<[call |-> "bootstrap_write_phase", left |-> Head(s).left - 1]>>)
      OBVIOUS
    <3>1. Head(s).left - 1 \in 0 .. Writes
      BY SMT, <2>1, OutgoingAssumption
    <3> QED
      BY <1>c, <3>1, CallsFresh, ConcatTidy DEF Fresh
  <2> QED
    BY <1>5, <1>g, <2>2, <2>3 DEF bootstrap_write_phase, At
<1>6. ASSUME a = Server, NEW p \in Packet, handle_packet(p) PROVE \E A \in SUBSET Actor : Restarts(A)
  <2>1. Fresh(handler(p)) /\ Fresh(send_event("online") \o handler(p))
    BY <1>c, HandlerFresh, CallsFresh, ConcatTidy DEF Fresh
  <2> QED
    BY <1>6, <1>g, <2>1 DEF handle_packet, At
<1>7. CASE a \in Task /\ dispatch_op(a)
  BY <1>7, <1>c, <1>g, CallsFresh DEF dispatch_op, At
<1>8. CASE send_device_data(a)
  <2>1. CASE Done(a)
    BY <1>0, <1>8, <1>d, <2>1 DEF send_device_data, At
  <2>2. CASE Goes(a, send_event("other"))
    BY <1>8, <1>c, <1>g, <2>2, CallsFresh DEF send_device_data, At
  <2> QED
    BY <1>8, <2>1, <2>2 DEF send_device_data
<1>9. ASSUME NEW t \in Task, spawn(a, t) PROVE \E A \in SUBSET Actor : Restarts(A)
  <2> DEFINE r == send_event("other") \o <<[call |-> "bootstrap_write_phase", left |-> Writes]>>
  <2>1. Fresh(r)
    BY SMT, <1>c, CallsFresh, ConcatTidy, OutgoingAssumption DEF Fresh
  <2>2. Fresh(Tail(s))
    BY <1>0, <1>9, TailTidy DEF spawn, At
  <2>3. t \in Actor /\ t # a
    BY <1>9 DEF spawn, At, Actor
  <2>4. /\ todo' = [todo EXCEPT ![a] = Tail(s), ![t] = r]
        /\ UNCHANGED <<tclass, seq>>
    BY <1>9 DEF spawn, At
  <2>5. r \in Seq(Call) /\ Tail(s) \in Seq(Call)
    BY <2>1, <2>2 DEF Fresh, Tidy
  <2> HIDE DEF r
  <2>6. Restarts({a, t})
    BY <2>1, <2>2, <2>3, <2>4, <2>5 DEF Restarts, CallsInv, Fresh
  <2> QED
    BY <2>3, <2>6
<1> QED
  BY <1>1, <1>2, <1>3, <1>4, <1>5, <1>6, <1>7, <1>8, <1>9

-----------------------------------------------------------------------------
\* The calls of the tasks stay tidy.
THEOREM CallsInvariant == Spec => []CallsInv
<1>1. Init => CallsInv
  <2> SUFFICES ASSUME Init PROVE CallsInv
    OBVIOUS
  <2>1. \A a \in Actor : todo[a] = <<>>
    BY DEF Init
  <2>2. \A a \in Actor : Tidy(todo[a]) /\ todo[a] \in Seq(Call)
    <3>1. Tidy(<<>>) /\ <<>> \in Seq(Call)
      BY SMT DEF Tidy
    <3> QED
      BY <2>1, <3>1
  <2>3. 0 \in Seqs
    BY SMT, OutgoingAssumption DEF Seqs
  <2> QED
    BY <2>2, <2>3 DEF Init, CallsInv, Class
<1>2. CallsInv /\ [Next]_vars => CallsInv'
  <2> SUFFICES ASSUME CallsInv, [Next]_vars PROVE CallsInv'
    OBVIOUS
  <2>1. ASSUME NEW a \in Actor, Step(a) PROVE CallsInv'
    BY <2>1, SetClassStep, FetchAddStep, OtherSteps, RestartStep DEF Step
  <2>2. ASSUME NEW p \in Packet, handle_packet(p) PROVE CallsInv'
    BY <2>2, OtherSteps, RestartStep DEF Actor
  <2>3. ASSUME NEW t \in Task, dispatch_op(t) PROVE CallsInv'
    BY <2>3, OtherSteps, RestartStep DEF Actor
  <2>4. ASSUME UNCHANGED <<todo, tclass, seq>> PROVE CallsInv'
    BY <2>4 DEF CallsInv
  <2>5. CASE \/ \E c \in Client : accept(c) \/ relay_to_client(c) \/ disconnect(c)
             \/ removed \/ UNCHANGED vars
    BY <2>4, <2>5 DEF accept, relay_to_client, disconnect, removed, vars
  <2> QED
    BY <2>1, <2>2, <2>3, <2>5 DEF Next
<1> QED
  BY <1>1, <1>2, PTL DEF Spec

-----------------------------------------------------------------------------
(* The queue of a relay.                                                   *)

\* Passing on the first message: when it is the last connection_status event, it
\* is the last there was.
LEMMA TailEnds ==
    ASSUME NEW q \in Seq(Kind), q # <<>>, NEW x, EndsWith(q, x)
    PROVE  /\ Tail(q) \in Seq(Kind) /\ Len(Tail(q)) = Len(q) - 1
           /\ Head(q) \in Kind
           /\ EndsWith(Tail(q), x)
           /\ Silent(Tail(q)) /\ Head(q) \in Status => Head(q) = x
           /\ Silent(Tail(q)) /\ Head(q) \notin Status => Silent(q)
<1>1. /\ Len(q) \in Nat /\ Len(q) > 0 /\ Tail(q) \in Seq(Kind) /\ Len(Tail(q)) = Len(q) - 1
      /\ Head(q) = q[1] /\ Head(q) \in Kind
  BY SMT
<1>2. \A i \in 1 .. Len(q) - 1 : Tail(q)[i] = q[i + 1]
  BY SMT
<1>3. EndsWith(Tail(q), x)
  <2> SUFFICES ASSUME NEW i \in 1 .. Len(q) - 1, Tail(q)[i] \in Status,
                      \A j \in 1 .. Len(q) - 1 : j > i => Tail(q)[j] \notin Status
               PROVE  Tail(q)[i] = x
    BY <1>1 DEF EndsWith
  <2>1. i + 1 \in 1 .. Len(q) /\ q[i + 1] \in Status
    BY SMT, <1>1, <1>2
  <2>2. ASSUME NEW j \in 1 .. Len(q), j > i + 1 PROVE q[j] \notin Status
    <3>1. j - 1 \in 1 .. Len(q) - 1 /\ j - 1 > i /\ (j - 1) + 1 = j
      BY SMT, <1>1, <2>2
    <3> QED
      BY <1>2, <3>1
  <2> QED
    BY <1>2, <2>1, <2>2 DEF EndsWith
<1>4. ASSUME Silent(Tail(q)), NEW j \in 1 .. Len(q), j > 1 PROVE q[j] \notin Status
  <2>1. j - 1 \in 1 .. Len(q) - 1 /\ (j - 1) + 1 = j
    BY SMT, <1>1, <1>4
  <2> QED
    BY <1>1, <1>2, <1>4, <2>1 DEF Silent
<1>5. 1 \in 1 .. Len(q) /\ \A j \in 1 .. Len(q) : j = 1 \/ j > 1
  BY SMT, <1>1
<1>6. Silent(Tail(q)) /\ Head(q) \in Status => Head(q) = x
  BY <1>1, <1>4, <1>5 DEF EndsWith
<1>7. Silent(Tail(q)) /\ Head(q) \notin Status => Silent(q)
  BY <1>1, <1>4, <1>5 DEF Silent
<1> QED
  BY <1>1, <1>3, <1>6, <1>7

\* A new message at the end.
LEMMA AppendEnds ==
    ASSUME NEW q \in Seq(Kind), NEW k \in Kind, NEW x, EndsWith(q, x)
    PROVE  /\ Append(q, k) \in Seq(Kind) /\ Len(Append(q, k)) = Len(q) + 1
           /\ EndsWith(Append(q, k), IF k \in Status THEN k ELSE x)
           /\ Silent(Append(q, k)) => Silent(q) /\ k \notin Status
<1> DEFINE n == Len(q) + 1
<1>1. /\ Len(q) \in Nat /\ Append(q, k) \in Seq(Kind) /\ Len(Append(q, k)) = n
      /\ Append(q, k)[n] = k /\ n \in 1 .. n
      /\ \A i \in 1 .. Len(q) : Append(q, k)[i] = q[i] /\ i \in 1 .. n /\ n > i
  BY SMT
<1>2. \A i \in 1 .. n : i = n \/ i \in 1 .. Len(q)
  BY SMT, <1>1
<1> HIDE DEF n
<1>3. EndsWith(Append(q, k), IF k \in Status THEN k ELSE x)
  <2> SUFFICES ASSUME NEW i \in 1 .. n, Append(q, k)[i] \in Status,
                      \A j \in 1 .. n : j > i => Append(q, k)[j] \notin Status
               PROVE  Append(q, k)[i] = IF k \in Status THEN k ELSE x
    BY <1>1 DEF EndsWith
  <2>1. CASE i = n
    BY <1>1, <2>1
  <2>2. CASE i \in 1 .. Len(q)
    <3>1. k \notin Status
      BY <1>1, <2>2
    <3>2. \A j \in 1 .. Len(q) : j > i => q[j] \notin Status
      BY <1>1
    <3> QED
      BY <1>1, <2>2, <3>1, <3>2 DEF EndsWith
  <2> QED
    BY <1>2, <2>1, <2>2
<1>4. Silent(Append(q, k)) => Silent(q) /\ k \notin Status
  BY <1>1 DEF Silent
<1> QED
  BY <1>1, <1>3, <1>4 DEF n

\* The channel: a relay gets the event, and drops the oldest if it must.
LEMMA PushKnows ==
    ASSUME NEW r \in Relay, Len(r.queue) <= Capacity, NEW k \in Kind, NEW x, Knows(r, x)
    PROVE  /\ Push(r, k) \in Relay /\ Len(Push(r, k).queue) <= Capacity
           /\ Knows(Push(r, k), IF k \in Status THEN k ELSE x)
<1> DEFINE q == r.queue
           y == IF k \in Status THEN k ELSE x
<1>0. q \in Seq(Kind) /\ r.told \in Status \cup {"none"} /\ r.lagged \in BOOLEAN /\ r.open = TRUE
  BY DEF Relay
<1>1. Len(q) \in Nat /\ Capacity \in Nat \ {0}
  BY SMT, <1>0, OutgoingAssumption
<1>2. CASE Len(q) < Capacity
  <2>1. Push(r, k) = [r EXCEPT !.queue = Append(q, k)]
    BY <1>2 DEF Push
  <2>2. /\ Push(r, k).queue = Append(q, k) /\ Push(r, k).told = r.told
        /\ Push(r, k).lagged = r.lagged
    BY SMT, <2>1 DEF Relay
  <2>3. /\ Append(q, k) \in Seq(Kind) /\ Len(Append(q, k)) = Len(q) + 1
        /\ EndsWith(Append(q, k), y)
        /\ Silent(Append(q, k)) => Silent(q) /\ k \notin Status
    BY <1>0, AppendEnds DEF Knows
  <2>4. Push(r, k) \in Relay
    BY <2>1, <2>3 DEF Relay
  <2>5. Len(Append(q, k)) <= Capacity
    BY SMT, <1>1, <1>2, <2>3
  <2>6. Knows(Push(r, k), y)
    BY <2>2, <2>3 DEF Knows
  <2> QED
    BY <2>2, <2>4, <2>5, <2>6
<1>3. CASE ~(Len(q) < Capacity)
  <2>1. Push(r, k) = [r EXCEPT !.queue = Append(Tail(q), k), !.lagged = TRUE]
    BY <1>3 DEF Push
  <2>2. Push(r, k).queue = Append(Tail(q), k) /\ Push(r, k).lagged = TRUE
    BY SMT, <2>1 DEF Relay
  <2>3. q # <<>>
    BY SMT, <1>0, <1>1, <1>3
  <2>4. Tail(q) \in Seq(Kind) /\ Len(Tail(q)) = Len(q) - 1 /\ EndsWith(Tail(q), x)
    BY <1>0, <2>3, TailEnds DEF Knows
  <2>5. /\ Append(Tail(q), k) \in Seq(Kind) /\ Len(Append(Tail(q), k)) = Len(Tail(q)) + 1
        /\ EndsWith(Append(Tail(q), k), y)
    BY <2>4, AppendEnds
  <2>6. Push(r, k) \in Relay
    BY <2>1, <2>5 DEF Relay
  <2>7. Len(Append(Tail(q), k)) <= Capacity
    BY SMT, <1>1, <2>4, <2>5
  <2>8. Knows(Push(r, k), y)
    BY <2>2, <2>5 DEF Knows
  <2> QED
    BY <2>2, <2>6, <2>7, <2>8
<1> QED
  BY <1>2, <1>3

\* What relay_to_client makes of its relay.
PassOn(r) ==
    LET k == Head(r.queue)
    IN  [r EXCEPT !.queue = Tail(r.queue), !.told = IF k \in Status THEN k ELSE r.told,
                  !.lagged = r.lagged /\ k \notin Status]

\* What the client is told is what it knows.
LEMMA PassOnKnows ==
    ASSUME NEW r \in Relay, r.queue # <<>>, NEW x, Knows(r, x)
    PROVE  PassOn(r) \in Relay /\ Len(PassOn(r).queue) = Len(r.queue) - 1 /\ Knows(PassOn(r), x)
<1> DEFINE k == Head(r.queue)
           w == PassOn(r)
<1>0. r.queue \in Seq(Kind) /\ r.told \in Status \cup {"none"} /\ r.lagged \in BOOLEAN
  BY DEF Relay
<1>1. /\ w.queue = Tail(r.queue) /\ w.told = (IF k \in Status THEN k ELSE r.told)
      /\ w.lagged = (r.lagged /\ k \notin Status)
  BY DEF PassOn, Relay
<1>2. /\ Tail(r.queue) \in Seq(Kind) /\ Len(Tail(r.queue)) = Len(r.queue) - 1
      /\ k \in Kind
      /\ EndsWith(Tail(r.queue), x)
      /\ Silent(Tail(r.queue)) /\ k \in Status => k = x
      /\ Silent(Tail(r.queue)) /\ k \notin Status => Silent(r.queue)
  BY <1>0, TailEnds DEF Knows
<1>3. w \in Relay
  BY <1>0, <1>2 DEF PassOn, Relay
<1>4. Knows(w, x)
  BY <1>1, <1>2 DEF Knows
<1> QED
  BY <1>1, <1>2, <1>3, <1>4

-----------------------------------------------------------------------------
(* Connection_status events in the calls of a task.                        *)

\* What a task may do next without announcing a status.
NoNews(s) ==
    /\ StatusFirst(s)
    /\ s # <<>> /\ s[1].call \in {"fetch_add", "broadcast"} => s[1].kind = "other"

\* What is left after the first call.
LEMMA TailNews ==
    ASSUME NEW s, Tidy(s), s # <<>>, StatusFirst(s)
    PROVE  NoNews(Tail(s))
<1>1. s \in Seq(Call) /\ Len(s) \in Nat /\ Len(s) > 0
  BY SMT DEF Tidy
<1>2. Len(Tail(s)) = Len(s) - 1 /\ \A i \in 1 .. Len(s) - 1 : Tail(s)[i] = s[i + 1]
  BY SMT, <1>1
<1>3. StatusFirst(Tail(s))
  <2> SUFFICES ASSUME NEW i \in 2 .. Len(s) - 1, Tail(s)[i].call = "fetch_add"
               PROVE  Tail(s)[i].kind = "other"
    BY <1>2 DEF StatusFirst
  <2>1. i \in 1 .. Len(s) - 1 /\ i + 1 \in 2 .. Len(s)
    BY SMT, <1>1
  <2> QED
    BY <1>2, <2>1 DEF StatusFirst
<1>4. Tail(s) # <<>> => 2 \in 2 .. Len(s) /\ Tail(s)[1] = s[2]
  BY SMT, <1>1, <1>2
<1> QED
  BY <1>3, <1>4 DEF NoNews, StatusFirst, Tidy

\* One sequence of calls after another.
LEMMA ConcatNews ==
    ASSUME NEW s \in Seq(Call), NEW r \in Seq(Call), StatusFirst(s), NoNews(r)
    PROVE  StatusFirst(s \o r) /\ (NoNews(s) => NoNews(s \o r))
<1>1. /\ Len(s) \in Nat /\ Len(r) \in Nat /\ Len(s \o r) = Len(s) + Len(r)
      /\ \A i \in 1 .. Len(s) + Len(r) : (s \o r)[i] = IF i <= Len(s) THEN s[i] ELSE r[i - Len(s)]
      /\ s # <<>> => Len(s) > 0
      /\ s = <<>> => s \o r = r
      /\ \A i \in 1 .. Len(r) : r # <<>>
  BY SMT
<1>2. StatusFirst(s \o r)
  <2> SUFFICES ASSUME NEW i \in 2 .. Len(s) + Len(r), (s \o r)[i].call = "fetch_add"
               PROVE  (s \o r)[i].kind = "other"
    BY <1>1 DEF StatusFirst
  <2>1. CASE i <= Len(s)
    <3>1. i \in 2 .. Len(s) /\ (s \o r)[i] = s[i]
      BY SMT, <1>1, <2>1
    <3> QED
      BY <3>1 DEF StatusFirst
  <2>2. CASE ~(i <= Len(s))
    <3>1. i - Len(s) \in 1 .. Len(r) /\ (s \o r)[i] = r[i - Len(s)]
      BY SMT, <1>1, <2>2
    <3>2. i - Len(s) = 1 \/ i - Len(s) \in 2 .. Len(r)
      BY SMT, <1>1, <3>1
    <3> QED
      BY <1>1, <3>1, <3>2 DEF NoNews, StatusFirst
  <2> QED
    BY <2>1, <2>2
<1>3. s # <<>> => (s \o r)[1] = s[1]
  BY SMT, <1>1
<1> QED
  BY <1>1, <1>2, <1>3 DEF NoNews

\* A single call.
LEMMA OneNews ==
    ASSUME NEW c \in Call
    PROVE  /\ <<c>> \in Seq(Call)
           /\ StatusFirst(<<c>>)
           /\ c.call \notin {"fetch_add", "broadcast"} \/ c.kind = "other" => NoNews(<<c>>)
BY SMT DEF StatusFirst, NoNews

\* What the tasks are given to do.
LEMMA CallsNews ==
    /\ NoNews(<<>>)
    /\ \A c \in Class : NoNews(send_packet(c)) /\ NoNews(confirmable(c))
    /\ \A k \in Kind : StatusFirst(send_event(k))
    /\ NoNews(send_event("other"))
    /\ \A c \in {"register", "remove_by_addr", "set_device_offline", "send_device_data", "spawn"} :
         NoNews(<<[call |-> c]>>)
    /\ \A n \in 0 .. Writes : NoNews(<<[call |-> "bootstrap_write_phase", left |-> n]>>)
<1>0. \A k \in Kind : [call |-> "fetch_add", kind |-> k] \in Call
  BY DEF Call
<1>1. NoNews(<<>>)
  BY SMT DEF NoNews, StatusFirst
<1>2. \A c \in Class : NoNews(send_packet(c)) /\ send_packet(c) \in Seq(Call)
  BY SMT DEF NoNews, StatusFirst, send_packet, Call
<1>3. \A c \in Class : /\ NoNews(<<[call |-> "await", class |-> c]>>)
                       /\ <<[call |-> "await", class |-> c]>> \in Seq(Call)
  BY OneNews DEF Call
<1>4. \A c \in Class : NoNews(confirmable(c))
  BY <1>2, <1>3, ConcatNews DEF NoNews, confirmable
<1>5. \A k \in Kind : StatusFirst(send_event(k))
  BY <1>0, OneNews DEF send_event
<1>6. NoNews(send_event("other"))
  BY <1>0, OneNews DEF send_event, Kind
<1>7. \A c \in {"register", "remove_by_addr", "set_device_offline", "send_device_data", "spawn"} :
         NoNews(<<[call |-> c]>>)
  BY OneNews DEF Call
<1>8. \A n \in 0 .. Writes : NoNews(<<[call |-> "bootstrap_write_phase", left |-> n]>>)
  BY OneNews DEF Call
<1> QED
  BY <1>1, <1>2, <1>4, <1>5, <1>6, <1>7, <1>8

\* handler announces no status.
LEMMA HandlerNews == \A p \in Packet : NoNews(handler(p))
<1>0. /\ {"plain", "encrypted"} = Class /\ "other" \in Kind
      /\ \A s : Fresh(s) => s \in Seq(Call)
      /\ \A s : NoNews(s) => StatusFirst(s)
  BY DEF Class, Kind, Fresh, Tidy, NoNews
<1>1. NoNews(handler("none")) /\ NoNews(handler("answer")) /\ NoNews(handler("bs_bad"))
  BY <1>0, CallsNews DEF handler
<1>2. NoNews(handler("rd"))
  BY <1>0, CallsFresh, CallsNews, ConcatNews DEF handler
<1>3. NoNews(handler("dp"))
  BY <1>0, CallsFresh, CallsNews, ConcatNews DEF handler
<1>4. NoNews(handler("delete"))
  BY <1>0, CallsFresh, CallsNews, ConcatNews DEF handler
<1>5. NoNews(send_event("other") \o send_packet("plain"))
  BY <1>0, CallsFresh, CallsNews, ConcatNews
<1>6. NoNews(handler("bs")) /\ NoNews(handler("bs_again"))
  BY <1>0, <1>5, CallsNews DEF handler
<1>7. Fresh(send_event("other") \o send_packet("plain"))
  BY <1>0, CallsFresh, ConcatTidy DEF Fresh
<1>8. NoNews(send_event("other") \o send_packet("plain") \o <<[call |-> "spawn"]>>)
  BY <1>0, <1>5, <1>7, CallsFresh, CallsNews, ConcatNews
<1>9. NoNews(handler("bs_approved"))
  BY <1>8 DEF handler
<1> QED
  BY <1>1, <1>2, <1>3, <1>4, <1>6, <1>9 DEF Packet

\* A step after which the tasks of A go on without announcing a status.
Quiet(A) ==
    /\ \A b \in A : ~Announcing(b) /\ NoNews(todo'[b])
    /\ \A b \in Actor \ A : todo'[b] = todo[b]

\* The connection_status events under way stay the same.
SameNews ==
    \A b \in Actor : /\ Announcing(b)' <=> Announcing(b)
                     /\ Announcing(b) => Head(todo'[b]).kind = Head(todo[b]).kind

\* Calls without news announce nothing.
LEMMA NotAnnouncing ==
    ASSUME CallsInv', NEW b \in Actor, NoNews(todo'[b])
    PROVE  ~Announcing(b)'
<1>1. todo'[b] # <<>> => Head(todo'[b]) = todo'[b][1]
  BY SMT DEF CallsInv
<1> QED
  BY <1>1 DEF Announcing, At, NoNews, Status

\* Such a step neither begins nor ends the announcement of a status.
LEMMA QuietFacts ==
    ASSUME CallsInv', \A b \in Actor : StatusFirst(todo[b]), NEW A \in SUBSET Actor, Quiet(A)
    PROVE  (\A b \in Actor : StatusFirst(todo'[b])) /\ SameNews
<1>1. \A b \in A : StatusFirst(todo'[b]) /\ ~Announcing(b) /\ ~Announcing(b)'
  BY NotAnnouncing DEF Quiet, NoNews
<1>2. \A b \in Actor \ A : todo'[b] = todo[b] /\ (Announcing(b)' <=> Announcing(b))
  BY DEF Quiet, Announcing, At
<1> QED
  BY <1>1, <1>2 DEF SameNews

\* A step that announces no status.
QuietStep(a) ==
    \/ set_tclass(a) \/ send_to(a) \/ send_fails(a) \/ retransmit(a) \/ answered(a) \/ give_up(a)
    \/ register(a) \/ remove_by_addr(a) \/ send_device_data(a)
    \/ set_device_offline(a) /\ ~(dev.registered /\ dev.online)
    \/ bootstrap_write_phase(a) /\ Head(todo[a]).left # 0
    \/ \E t \in Task : spawn(a, t)
    \/ a = Server /\ ~(dev.registered /\ ~dev.online) /\ \E p \in Packet : handle_packet(p)
    \/ a \in Task /\ dispatch_op(a)

\* Each of them gives its actor, and a task it spawns, no status to announce.
LEMMA QuietSteps ==
    ASSUME CallsInv, \A b \in Actor : StatusFirst(todo[b]), NEW a \in Actor, QuietStep(a)
    PROVE  \E A \in SUBSET Actor : Quiet(A)
<1> DEFINE s == todo[a]
<1>0. Tidy(s) /\ s \in Seq(Call) /\ (s # <<>> => Head(s) = s[1] /\ s[1] \in Call)
  BY SMT DEF CallsInv, Tidy
<1>c. /\ {"plain", "encrypted"} = Class /\ {"online", "offline", "other"} \subseteq Kind
      /\ \A r : Fresh(r) => r \in Seq(Call)
      /\ \A r : NoNews(r) => StatusFirst(r)
  BY DEF Class, Kind, Status, Fresh, Tidy, NoNews
<1>g. ASSUME NEW r, NoNews(r), Goes(a, r), ~Announcing(a) PROVE \E A \in SUBSET Actor : Quiet(A)
  <2>1. Quiet({a})
    BY <1>g DEF Quiet, Goes, CallsInv
  <2> QED
    BY <2>1
<1>d. ASSUME s # <<>>, Done(a), ~Announcing(a) PROVE \E A \in SUBSET Actor : Quiet(A)
  BY <1>0, <1>d, <1>g, TailNews DEF Done
<1>1. CASE \/ set_tclass(a) \/ send_to(a) \/ answered(a) \/ register(a) \/ remove_by_addr(a)
           \/ set_device_offline(a) /\ ~(dev.registered /\ dev.online)
  BY <1>1, <1>d
  DEF set_tclass, send_to, answered, register, remove_by_addr, set_device_offline, At, Announcing
<1>2. CASE send_fails(a) \/ give_up(a)
  BY <1>2, <1>g, CallsNews DEF send_fails, give_up, At, Announcing
<1>3. CASE retransmit(a)
  <2>1. Head(s).class \in Class /\ NoNews(s)
    BY <1>0, <1>3 DEF retransmit, At, Call, NoNews
  <2>2. NoNews(send_packet(Head(s).class) \o s)
    BY <1>0, <1>c, <2>1, CallsFresh, CallsNews, ConcatNews
  <2> QED
    BY <1>3, <1>g, <2>2 DEF retransmit, At, Announcing
<1>4. CASE send_device_data(a)
  <2>1. CASE Done(a)
    BY <1>4, <1>d, <2>1 DEF send_device_data, At, Announcing
  <2>2. CASE Goes(a, send_event("other"))
    BY <1>4, <1>g, <2>2, CallsNews DEF send_device_data, At, Announcing
  <2> QED
    BY <1>4, <2>1, <2>2 DEF send_device_data
<1>5. CASE bootstrap_write_phase(a) /\ Head(s).left # 0
  <2>1. Head(s).left \in 0 .. Writes
    BY <1>0, <1>5 DEF bootstrap_write_phase, At, Call
  <2>2. Head(s).left - 1 \in 0 .. Writes
    BY SMT, <1>5, <2>1, OutgoingAssumption
  <2>3. NoNews(confirmable("plain") \o <<[call |-> "bootstrap_write_phase", left |-> Head(s).left - 1]>>)
    BY <1>c, <2>2, CallsFresh, CallsNews, ConcatNews
  <2> QED
    BY <1>5, <1>g, <2>3 DEF bootstrap_write_phase, At, Announcing
<1>6. ASSUME a = Server, ~(dev.registered /\ ~dev.online), NEW p \in Packet, handle_packet(p)
      PROVE  \E A \in SUBSET Actor : Quiet(A)
  BY <1>6, <1>g, HandlerNews DEF handle_packet, At, Announcing
<1>7. CASE a \in Task /\ dispatch_op(a)
  BY <1>7, <1>c, <1>g, CallsNews DEF dispatch_op, At, Announcing
<1>8. ASSUME NEW t \in Task, spawn(a, t) PROVE \E A \in SUBSET Actor : Quiet(A)
  <2> DEFINE r == send_event("other") \o <<[call |-> "bootstrap_write_phase", left |-> Writes]>>
  <2>1. Writes \in 0 .. Writes
    BY SMT, OutgoingAssumption
  <2>2. NoNews(r)
    BY <1>c, <2>1, CallsFresh, CallsNews, ConcatNews
  <2>3. NoNews(Tail(s)) /\ ~Announcing(a) /\ ~Announcing(t) /\ t \in Actor /\ t # a
    BY <1>0, <1>8, TailNews DEF spawn, At, Announcing, Actor
  <2>4. todo' = [todo EXCEPT ![a] = Tail(s), ![t] = r]
    BY <1>8 DEF spawn
  <2> HIDE DEF r
  <2>5. Quiet({a, t})
    BY <2>2, <2>3, <2>4 DEF Quiet, CallsInv
  <2> QED
    BY <2>3, <2>5
<1> QED
  BY <1>1, <1>2, <1>3, <1>4, <1>5, <1>6, <1>7, <1>8 DEF QuietStep

-----------------------------------------------------------------------------
(* What the clients know.                                                  *)

\* The client part of the invariant.
ClientInv ==
    /\ client \in [Client -> {Closed} \cup Relay]
    /\ \A c \in Client : client[c].open => Len(client[c].queue) <= Capacity
    /\ announced \in Status \cup {"none"}
    /\ ToldInv

\* A client that is connected has a queue of its own.
LEMMA OpenIsRelay ==
    ASSUME client \in [Client -> {Closed} \cup Relay], NEW c \in Client, client[c].open
    PROVE  client[c] \in Relay /\ client[c].queue \in Seq(Kind)
<1>1. ~Closed.open
  BY DEF Closed
<1>2. client[c] \in Relay
  BY <1>1
<1> QED
  BY <1>2 DEF Relay

\* Only a broadcast changes what there is to know.
LEMMA ClientStep ==
    ASSUME CallsInv, ClientInv, [Next]_vars
    PROVE  ClientInv'
<1>1. ASSUME UNCHANGED <<client, announced>> PROVE ClientInv'
  BY <1>1 DEF ClientInv, ToldInv
<1>2. ASSUME NEW a \in Actor, broadcast(a) PROVE ClientInv'
  <2> DEFINE k == Head(todo[a]).kind
  <2>1. k \in Kind
    <3>1. Head(todo[a]) \in Call
      BY SMT, <1>2 DEF broadcast, At, CallsInv
    <3> QED
      BY <1>2, <3>1 DEF broadcast, At, Call
  <2>2. /\ client' = [c \in Client |-> IF client[c].open THEN Push(client[c], k) ELSE Closed]
        /\ announced' = IF k \in Status THEN k ELSE announced
    BY <1>2 DEF broadcast
  <2> HIDE DEF k
  <2>3. ASSUME NEW c \in Client, client[c].open
        PROVE  /\ client'[c] \in Relay /\ Len(client'[c].queue) <= Capacity
               /\ Knows(client'[c], announced')
    BY <2>1, <2>2, <2>3, OpenIsRelay, PushKnows DEF ClientInv, ToldInv
  <2>4. \A c \in Client : ~client[c].open => client'[c] = Closed /\ ~client'[c].open
    BY <2>2 DEF Closed
  <2>5. client' \in [Client -> {Closed} \cup Relay]
    <3>1. \A c \in Client : client'[c] \in {Closed} \cup Relay
      BY <2>3, <2>4
    <3> QED
      BY <2>2, <3>1
  <2>6. announced' \in Status \cup {"none"}
    BY <2>2 DEF ClientInv
  <2> QED
    BY <2>3, <2>4, <2>5, <2>6 DEF ClientInv, ToldInv
<1>o. ASSUME NEW c \in Client, NEW w, client' = [client EXCEPT ![c] = w], UNCHANGED announced,
             w = Closed \/ (w \in Relay /\ Len(w.queue) <= Capacity /\ Knows(w, announced))
      PROVE  ClientInv'
  <2>1. client'[c] = w /\ \A x \in Client \ {c} : client'[x] = client[x]
    BY <1>o DEF ClientInv
  <2>2. client' \in [Client -> {Closed} \cup Relay]
    BY <1>o DEF ClientInv
  <2>3. ~Closed.open
    BY DEF Closed
  <2> QED
    BY <1>o, <2>1, <2>2, <2>3 DEF ClientInv, ToldInv
<1>3. ASSUME NEW c \in Client, accept(c) PROVE ClientInv'
  <2> DEFINE w == [open |-> TRUE, queue |-> <<>>, told |-> "none", lagged |-> FALSE]
  <2>1. <<>> \in Seq(Kind) /\ Len(<<>>) = 0 /\ 1 .. Len(<<>>) = {} /\ 0 <= Capacity
    BY SMT, OutgoingAssumption
  <2>2. w \in Relay /\ Len(w.queue) <= Capacity
    BY <2>1 DEF Relay
  <2>3. Knows(w, announced)
    BY <2>1 DEF Knows, EndsWith
  <2>4. client' = [client EXCEPT ![c] = w] /\ UNCHANGED announced
    BY <1>3 DEF accept
  <2> HIDE DEF w
  <2> QED
    BY <1>o, <2>2, <2>3, <2>4
<1>4. ASSUME NEW c \in Client, disconnect(c) PROVE ClientInv'
  BY <1>4, <1>o DEF disconnect
<1>5. ASSUME NEW c \in Client, relay_to_client(c) PROVE ClientInv'
  <2> DEFINE r == client[c]
  <2>1. r.open /\ r.queue # <<>> /\ UNCHANGED announced
    BY <1>5 DEF relay_to_client
  <2>2. r \in Relay /\ Knows(r, announced) /\ Len(r.queue) <= Capacity /\ r.queue \in Seq(Kind)
    BY <2>1, OpenIsRelay DEF ClientInv, ToldInv
  <2>3. client' = [client EXCEPT ![c] = PassOn(r)]
    BY <1>5 DEF relay_to_client, ClientInv, PassOn
  <2>4. PassOn(r) \in Relay /\ Len(PassOn(r).queue) = Len(r.queue) - 1 /\ Knows(PassOn(r), announced)
    BY <2>1, <2>2, PassOnKnows
  <2>5. Len(PassOn(r).queue) <= Capacity
    <3>1. Len(r.queue) \in Nat
      BY SMT, <2>2
    <3> QED
      BY SMT, <2>2, <2>4, <3>1, OutgoingAssumption
  <2> QED
    BY <1>o, <2>1, <2>3, <2>4, <2>5
<1> QED
  BY <1>1, <1>2, <1>3, <1>4, <1>5
  DEF Next, Step, set_tclass, send_to, send_fails, retransmit, answered, give_up, register, remove_by_addr,
      set_device_offline, fetch_add, send_device_data, bootstrap_write_phase, spawn,
      handle_packet, dispatch_op, removed, vars

-----------------------------------------------------------------------------
(* The status and its events.                                              *)

\* The status part of the invariant.
NewsInv ==
    /\ dev \in [registered : BOOLEAN, online : BOOLEAN]
    /\ astray \in BOOLEAN
    /\ \A a \in Actor : StatusFirst(todo[a])
    /\ AnnounceInv

\* Nothing changes that AnnounceInv is about, or there is no device.
LEMMA SameNewsStep ==
    ASSUME AnnounceInv, SameNews, UNCHANGED <<dev, announced, astray>> \/ ~dev'.registered
    PROVE  AnnounceInv'
BY DEF AnnounceInv, SameNews

\* The status becomes k and a is going to say so.
LEMMA ChangeStep ==
    ASSUME CallsInv, CallsInv', NewsInv, NEW a \in Actor, ~Announcing(a), Announced(a),
           NEW k \in Status, NEW r, NoNews(r), r \in Seq(Call),
           Goes(a, send_event(k) \o r), UNCHANGED announced,
           dev' \in [registered : BOOLEAN, online : BOOLEAN], dev'.online <=> k = "online"
    PROVE  NewsInv'
<1> DEFINE s == send_event(k) \o r
<1>1. k \in Kind /\ send_event(k) \in Seq(Call) /\ StatusFirst(send_event(k))
  BY CallsFresh, CallsNews DEF Kind, Fresh, Tidy
<1>2. StatusFirst(s)
  BY <1>1, ConcatNews
<1>3. s # <<>> /\ Head(s).call = "fetch_add" /\ Head(s).kind = k
  <2> DEFINE h == [call |-> "fetch_add", kind |-> k]
  <2>1. h.call = "fetch_add" /\ h.kind = k /\ send_event(k) = <<h>>
    BY DEF send_event
  <2> HIDE DEF h
  <2>2. <<h>> \o r # <<>> /\ Head(<<h>> \o r) = h
    BY SMT, <1>1, <2>1
  <2> QED
    BY <2>1, <2>2
<1> HIDE DEF s
<1>4. todo'[a] = s /\ \A b \in Actor \ {a} : todo'[b] = todo[b]
  BY DEF Goes, CallsInv, s
<1>5. Announcing(a)' /\ Head(todo'[a]).kind = k
  BY <1>3, <1>4 DEF Announcing, At
<1>6. \A b \in Actor \ {a} : Announcing(b)' <=> Announcing(b)
  BY <1>4 DEF Announcing, At
<1>7. ~astray' => \A b \in Actor : Announcing(b)' => b = a
  BY <1>6 DEF Announced
<1>8. k = IF dev'.online THEN "online" ELSE "offline"
  BY DEF Status
<1>9. AnnounceInv'
  BY <1>5, <1>7, <1>8 DEF AnnounceInv
<1>10. \A b \in Actor : StatusFirst(todo'[b])
  BY <1>2, <1>4 DEF NewsInv
<1> QED
  BY <1>9, <1>10 DEF NewsInv, Announced

\* The steps that announce no status.
LEMMA QuietNews ==
    ASSUME CallsInv, CallsInv', NewsInv, NEW a \in Actor, QuietStep(a)
    PROVE  NewsInv'
<1>1. (\A b \in Actor : StatusFirst(todo'[b])) /\ SameNews
  BY QuietSteps, QuietFacts DEF NewsInv
<1>2. CASE register(a)
  <2>1. CASE dev.registered
    BY <1>1, <1>2, <2>1, SameNewsStep DEF register, NewsInv
  <2>2. CASE ~dev.registered
    <3>1. /\ dev' = [registered |-> TRUE, online |-> TRUE] /\ UNCHANGED announced
          /\ astray' = (announced # "online" \/ \E b \in Actor : Announcing(b))
      BY <1>2, <2>2 DEF register
    <3>2. AnnounceInv'
      BY <1>1, <3>1 DEF AnnounceInv, SameNews
    <3> QED
      BY <1>1, <3>1, <3>2 DEF NewsInv
  <2> QED
    BY <2>1, <2>2
<1>3. CASE remove_by_addr(a)
  <2>1. dev' = Gone /\ UNCHANGED astray
    BY <1>3 DEF remove_by_addr
  <2> QED
    BY <1>1, <2>1, SameNewsStep DEF Gone, NewsInv
<1>4. ASSUME UNCHANGED <<dev, announced, astray>> PROVE NewsInv'
  BY <1>1, <1>4, SameNewsStep DEF NewsInv
<1> QED
  BY <1>2, <1>3, <1>4
  DEF QuietStep, set_tclass, send_to, send_fails, retransmit, answered, give_up, send_device_data,
      set_device_offline, bootstrap_write_phase, spawn, handle_packet, dispatch_op

\* fetch_add: the event that is under way has a number now.
LEMMA FetchAddNews ==
    ASSUME CallsInv, CallsInv', NewsInv, NEW a \in Actor, fetch_add(a)
    PROVE  NewsInv'
<1> DEFINE s == todo[a]
           h == [call |-> "broadcast", kind |-> Head(s).kind, seq |-> seq]
<1>0. Tidy(s) /\ s # <<>> /\ s \in Seq(Call) /\ Head(s).call = "fetch_add" /\ Head(s) \in Call
  BY SMT DEF CallsInv, Tidy, fetch_add, At
<1>1. h \in Call /\ h.call = "broadcast" /\ h.kind = Head(s).kind
  BY <1>0 DEF Call, CallsInv
<1>2. /\ todo'[a] = <<h>> \o Tail(s) /\ \A b \in Actor \ {a} : todo'[b] = todo[b]
      /\ UNCHANGED <<dev, announced, astray>>
  BY DEF fetch_add, Goes, CallsInv
<1> HIDE DEF h
<1>3. <<h>> \o Tail(s) # <<>> /\ Head(<<h>> \o Tail(s)) = h /\ Tail(s) \in Seq(Call)
  <2>1. Tail(s) \in Seq(Call) /\ <<h>> \in Seq(Call)
    BY SMT, <1>0, <1>1
  <2> QED
    BY SMT, <2>1
<1>4. StatusFirst(<<h>> \o Tail(s))
  BY <1>0, <1>1, <1>3, OneNews, TailNews, ConcatNews DEF NewsInv
<1>5. SameNews
  <2>1. \A b \in Actor \ {a} : Announcing(b)' <=> Announcing(b)
    BY <1>2 DEF Announcing, At
  <2>2. (Announcing(a)' <=> Announcing(a)) /\ Head(todo'[a]).kind = Head(s).kind
    BY <1>0, <1>1, <1>2, <1>3 DEF Announcing, At
  <2> QED
    BY <1>2, <2>1, <2>2 DEF SameNews
<1> QED
  BY <1>2, <1>4, <1>5, SameNewsStep DEF NewsInv

\* broadcast: the event that was under way is the last one now.
LEMMA BroadcastNews ==
    ASSUME CallsInv, CallsInv', NewsInv, NEW a \in Actor, broadcast(a)
    PROVE  NewsInv'
<1> DEFINE s == todo[a]
           k == Head(s).kind
<1>0. Tidy(s) /\ s # <<>> /\ Head(s).call = "broadcast" /\ k \in Kind
  <2>1. Tidy(s) /\ s # <<>> /\ Head(s).call = "broadcast" /\ Head(s) \in Call
    BY SMT DEF CallsInv, Tidy, broadcast, At
  <2> QED
    BY <2>1 DEF Call
<1>1. /\ todo'[a] = Tail(s) /\ \A b \in Actor \ {a} : todo'[b] = todo[b]
      /\ UNCHANGED dev
      /\ announced' = (IF k \in Status THEN k ELSE announced)
      /\ astray' = (astray \/ (k = "online" /\ dev.registered /\ ~dev.online))
  BY DEF broadcast, Done, Goes, CallsInv
<1>2. NoNews(Tail(s))
  BY <1>0, TailNews DEF NewsInv
<1>3. ~Announcing(a)' /\ (Announcing(a) <=> k \in Status)
  BY <1>0, <1>1, <1>2, NotAnnouncing DEF Announcing, At
<1>4. \A b \in Actor \ {a} : Announcing(b)' <=> Announcing(b)
  BY <1>1 DEF Announcing, At
<1>5. \A b \in Actor : StatusFirst(todo'[b])
  BY <1>1, <1>2 DEF NewsInv, NoNews
<1> HIDE DEF k
<1>6. AnnounceInv'
  <2> DEFINE status == IF dev.online THEN "online" ELSE "offline"
  <2> SUFFICES ASSUME dev.registered, ~astray'
               PROVE  /\ \/ announced' = status
                         \/ \E b \in Actor : Announcing(b)' /\ Head(todo'[b]).kind = status
                      /\ \A b \in Actor : Announcing(b)' => Head(todo'[b]).kind \in {status, "online"}
    BY <1>1 DEF AnnounceInv
  <2>1. /\ announced = status \/ \E b \in Actor : Announcing(b) /\ Head(todo[b]).kind = status
        /\ \A b \in Actor : Announcing(b) => Head(todo[b]).kind \in {status, "online"}
    BY <1>1 DEF NewsInv, AnnounceInv
  <2>2. k = "online" => dev.online
    BY <1>1
  <2> HIDE DEF status
  <2>3. \A b \in Actor : Announcing(b)' => Head(todo'[b]).kind \in {status, "online"}
    BY <1>1, <1>3, <1>4, <2>1
  <2>4. CASE k \in Status
    <3>1. k = status
      BY <1>3, <2>1, <2>2, <2>4 DEF status, k
    <3> QED
      BY <1>1, <2>3, <2>4, <3>1
  <2>5. CASE k \notin Status
    BY <1>1, <1>3, <1>4, <2>1, <2>3, <2>5
  <2> QED
    BY <2>4, <2>5
<1> QED
  BY <1>1, <1>5, <1>6 DEF NewsInv

\* The last step of a write phase announces the device.
LEMMA PhaseNews ==
    ASSUME CallsInv, CallsInv', NewsInv, NEW a \in Actor,
           bootstrap_write_phase(a), Head(todo[a]).left = 0
    PROVE  NewsInv'
<1> DEFINE s == send_event("online") \o send_event("other")
<1>1. /\ send_event("online") \in Seq(Call) /\ StatusFirst(send_event("online"))
      /\ send_event("other") \in Seq(Call) /\ NoNews(send_event("other"))
  BY CallsFresh, CallsNews DEF Kind, Status, Fresh, Tidy
<1>2. StatusFirst(s)
  BY <1>1, ConcatNews
<1>3. s # <<>> /\ Head(s).call = "fetch_add" /\ Head(s).kind = "online"
  BY SMT DEF send_event
<1> HIDE DEF s
<1>4. /\ todo'[a] = s /\ \A b \in Actor \ {a} : todo'[b] = todo[b]
      /\ UNCHANGED <<dev, announced, astray>>
  BY DEF bootstrap_write_phase, Goes, CallsInv, s
<1>5. ~Announcing(a) /\ Announcing(a)' /\ Head(todo'[a]).kind = "online"
  BY <1>3, <1>4 DEF Announcing, At, bootstrap_write_phase, Status
<1>6. \A b \in Actor \ {a} : Announcing(b)' <=> Announcing(b)
  BY <1>4 DEF Announcing, At
<1>7. AnnounceInv'
  <2> DEFINE status == IF dev.online THEN "online" ELSE "offline"
  <2> SUFFICES ASSUME dev.registered, ~astray
               PROVE  /\ \/ announced = status
                         \/ \E b \in Actor : Announcing(b)' /\ Head(todo'[b]).kind = status
                      /\ \A b \in Actor : Announcing(b)' => Head(todo'[b]).kind \in {status, "online"}
    BY <1>4 DEF AnnounceInv
  <2>1. /\ announced = status \/ \E b \in Actor : Announcing(b) /\ Head(todo[b]).kind = status
        /\ \A b \in Actor : Announcing(b) => Head(todo[b]).kind \in {status, "online"}
    BY DEF NewsInv, AnnounceInv
  <2> HIDE DEF status
  <2> QED
    BY <1>4, <1>5, <1>6, <2>1
<1>8. \A b \in Actor : StatusFirst(todo'[b])
  BY <1>2, <1>4 DEF NewsInv
<1> QED
  BY <1>4, <1>7, <1>8 DEF NewsInv

\* Every step.
LEMMA NewsStep ==
    ASSUME CallsInv, CallsInv', NewsInv, [Next]_vars
    PROVE  NewsInv'
<1>c. {"online", "offline"} = Status
  BY DEF Status
<1>1. ASSUME NEW a \in Actor, set_device_offline(a), dev.registered, dev.online PROVE NewsInv'
  <2>1. /\ dev' = [dev EXCEPT !.online = FALSE] /\ Announced(a) /\ Goes(a, send_event("offline"))
        /\ UNCHANGED announced /\ ~Announcing(a)
    BY <1>1 DEF set_device_offline, At, Announcing
  <2>2. dev' \in [registered : BOOLEAN, online : BOOLEAN] /\ ~dev'.online
    BY <2>1 DEF NewsInv
  <2>3. <<>> \in Seq(Call) /\ send_event("offline") \o <<>> = send_event("offline")
    BY SMT DEF send_event
  <2> QED
    BY <1>c, <2>1, <2>2, <2>3, CallsNews, ChangeStep
<1>2. ASSUME NEW p \in Packet, handle_packet(p), dev.registered, ~dev.online PROVE NewsInv'
  <2>1. /\ dev' = [dev EXCEPT !.online = TRUE] /\ Announced(Server) /\ Server \in Actor
        /\ Goes(Server, send_event("online") \o handler(p))
        /\ UNCHANGED announced /\ ~Announcing(Server)
    BY <1>2 DEF handle_packet, At, Announcing, Actor
  <2>2. dev' \in [registered : BOOLEAN, online : BOOLEAN] /\ dev'.online
    BY <2>1 DEF NewsInv
  <2>3. NoNews(handler(p)) /\ handler(p) \in Seq(Call)
    BY HandlerNews, HandlerFresh DEF Fresh, Tidy
  <2> QED
    BY <1>c, <2>1, <2>2, <2>3, ChangeStep
<1>3. ASSUME NEW a \in Actor, Step(a) PROVE NewsInv'
  BY <1>1, <1>3, QuietNews, FetchAddNews, BroadcastNews, PhaseNews DEF Step, QuietStep
<1>4. ASSUME NEW p \in Packet, handle_packet(p) PROVE NewsInv'
  BY <1>2, <1>4, QuietNews DEF QuietStep, Actor
<1>5. ASSUME NEW t \in Task, dispatch_op(t) PROVE NewsInv'
  BY <1>5, QuietNews DEF QuietStep, Actor
<1>6. ASSUME UNCHANGED <<todo, astray, announced>>, dev' = dev \/ dev' = Gone PROVE NewsInv'
  <2>1. SameNews
    BY <1>6 DEF SameNews, Announcing, At
  <2>2. Gone \in [registered : BOOLEAN, online : BOOLEAN] /\ ~Gone.registered
    BY DEF Gone
  <2>3. AnnounceInv'
    BY <1>6, <2>1, <2>2, SameNewsStep DEF NewsInv
  <2> QED
    BY <1>6, <2>2, <2>3 DEF NewsInv
<1>7. CASE \/ \E c \in Client : accept(c) \/ relay_to_client(c) \/ disconnect(c)
           \/ removed \/ UNCHANGED vars
  BY <1>6, <1>7 DEF accept, relay_to_client, disconnect, removed, vars
<1> QED
  BY <1>3, <1>4, <1>5, <1>7 DEF Next

\* The invariant of the status and the clients, on top of CallsInv.
THEOREM StatusInvariant == Spec => []StatusInv
<1>0. StatusInv /\ CallsInv <=> ClientInv /\ NewsInv /\ CallsInv
  BY DEF StatusInv, ClientInv, NewsInv, CallsInv, TypeOK
<1>1. Init => ClientInv /\ NewsInv
  <2> SUFFICES ASSUME Init PROVE ClientInv /\ NewsInv
    OBVIOUS
  <2>1. \A a \in Actor : todo[a] = <<>>
    BY DEF Init
  <2>2. \A a \in Actor : StatusFirst(todo[a])
    BY <2>1, CallsNews DEF NoNews
  <2>3. \A c \in Client : client[c] = Closed /\ ~client[c].open
    BY DEF Init, Closed
  <2>4. ClientInv
    BY <2>3 DEF Init, ClientInv, ToldInv
  <2>5. NewsInv
    BY <2>2 DEF Init, NewsInv, AnnounceInv, Gone
  <2> QED
    BY <2>4, <2>5
<1>2. ClientInv /\ NewsInv /\ CallsInv /\ CallsInv' /\ [Next]_vars => ClientInv' /\ NewsInv'
  BY ClientStep, NewsStep
<1>3. Spec => [](ClientInv /\ NewsInv)
  BY <1>1, <1>2, CallsInvariant, PTL DEF Spec
<1> QED
  BY <1>0, <1>3, CallsInvariant, PTL

\* Every variable keeps its type, and no relay is more than Capacity behind.
THEOREM TypeCorrect == Spec => []TypeOK
<1>1. StatusInv => TypeOK
  BY DEF StatusInv
<1> QED
  BY <1>1, StatusInvariant, PTL

\* The connection_status events: a client that has read all there is and has
\* missed nothing since its last status event knows the status of the device.
THEOREM ClientsKnowTheStatus == Spec => []StatusTold
<1>1. StatusInv => StatusTold
  <2> SUFFICES ASSUME StatusInv, NEW c \in Client,
                      dev.registered, ~astray, \A a \in Actor : ~Announcing(a),
                      client[c].open, client[c].queue = <<>>, ~client[c].lagged,
                      client[c].told # "none"
               PROVE  client[c].told = (IF dev.online THEN "online" ELSE "offline")
    BY DEF StatusTold
  <2>1. announced = IF dev.online THEN "online" ELSE "offline"
    BY DEF StatusInv, AnnounceInv
  <2>2. 1 .. Len(<<>>) = {}
    BY SMT
  <2>3. client[c].told = announced
    BY <2>2 DEF StatusInv, ToldInv, Knows, Silent
  <2> QED
    BY <2>1, <2>3
<1> QED
  BY <1>1, StatusInvariant, PTL
=============================================================================
