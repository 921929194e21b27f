---------------------------- MODULE CopollProofs ----------------------------
(* For any number of ports, threads and requests: the lists of listeners, the *)
(* events they are waiting for, and the DONE status stay consistent.  Once an *)
(* assertion has failed nothing happens, so the invariant holds then as well. *)
EXTENDS Copoll, TLAPS

\* What the threads serving cosend, corecv and coclose are at.
WorkerOK(t) ==
    /\ worker[t] = [pc |-> worker[t].pc, port |-> worker[t].port,
                    closing |-> worker[t].closing, bit |-> worker[t].bit]
    /\ worker[t].pc \in {"idle", "r_lock", "check", "post", "cas"}
    /\ worker[t].pc # "idle" => worker[t].port \in Ports
    /\ worker[t].bit = "IN" => worker[t].pc \in {"check", "post", "cas"}
WorkerInv == worker = [t \in Workers |-> worker[t]] /\ \A t \in Workers : WorkerOK(t)

\* Entries of pollers: one per coport, from the slow call on.
Listening == {"lock", "insert", "wait", "remove"}
Polled == [port : Ports, events : SUBSET Bits]
PollerOK(q) ==
    /\ poller[q] = [pc |-> poller[q].pc, coports |-> poller[q].coports, timed |-> poller[q].timed,
                    at |-> poller[q].at, entry |-> poller[q].entry, woken |-> poller[q].woken]
    /\ poller[q].pc \in {"idle", "slow"} \cup Listening
    /\ poller[q].coports \in Seq(Polled)
    /\ poller[q].at \in Nat \ {0} /\ (poller[q].pc \notin {"insert", "remove"} => poller[q].at = 1)
    /\ poller[q].pc \in Listening =>
         /\ poller[q].entry = [k \in DOMAIN poller[q].coports |-> poller[q].entry[k]]
         /\ \A k \in DOMAIN poller[q].coports :
              poller[q].entry[k] \in [removed : BOOLEAN, revent : SUBSET Bits]

\* What is known of an entry: it is removed only once inserted, with an event
\* unless the poller removed it itself, and by then it was removed.
EntryOK(q, k) ==
    /\ poller[q].pc = "lock" \/ (poller[q].pc = "insert" /\ k >= poller[q].at)
         => ~poller[q].entry[k].removed
    /\ poller[q].entry[k].removed =>
         poller[q].entry[k].revent # {} \/ (poller[q].pc = "remove" /\ k < poller[q].at)
    /\ poller[q].pc = "remove" /\ k < poller[q].at => poller[q].entry[k].removed
PollerInv ==
    /\ poller = [q \in Pollers |-> poller[q]]
    /\ \A q \in Pollers : PollerOK(q)
    /\ \A q \in Pollers : poller[q].pc \in Listening =>
         \A k \in DOMAIN poller[q].coports : EntryOK(q, k)

\* The notifiers and their queues.
NotifierOK(n) ==
    /\ notifier[n] = [pc |-> notifier[n].pc, signalled |-> notifier[n].signalled, i |-> notifier[n].i,
                      n_events |-> notifier[n].n_events, queue |-> notifier[n].queue]
    /\ notifier[n].queue \in Seq(Ports \cup {NULL})
    /\ Len(notifier[n].queue) <= COPORT_EVENTQUEUE_LEN
    /\ notifier[n].i \in Nat \ {0} /\ notifier[n].n_events \in 0 .. Len(notifier[n].queue)
NotifierInv == notifier = [n \in Notifiers |-> notifier[n]] /\ \A n \in Notifiers : NotifierOK(n)

\* The ports.
PortOK(p) ==
    /\ status[p] \in Status \ {"BUSY", "POLLING"} /\ length[p] \in Lengths
    /\ event[p] \subseteq Bits /\ levent[p] \subseteq Bits
PortInv ==
    /\ status = [p \in Ports |-> status[p]] /\ length = [p \in Ports |-> length[p]]
    /\ event = [p \in Ports |-> event[p]] /\ levent = [p \in Ports |-> levent[p]]
    /\ listeners = [p \in Ports |-> listeners[p]]
    /\ \A p \in Ports : PortOK(p)
    /\ mutex \in Pollers \cup Notifiers \cup {None}

\* Entry k of poller q waits on port p.
Live(q, k, p) ==
    /\ k \in DOMAIN poller[q].coports /\ poller[q].coports[k].port = p
    /\ \/ poller[q].pc = "insert" /\ k < poller[q].at
       \/ poller[q].pc \in {"wait", "remove"}
    /\ ~poller[q].entry[k].removed
LiveInv ==
    \A p \in Ports :
        /\ listeners[p] \subseteq Pollers \X Nat
        /\ \A q \in Pollers, k \in Nat : <<q, k>> \in listeners[p] <=> Live(q, k, p)

CoverInv ==
    \A p \in Ports, q \in Pollers, k \in Nat :
        <<q, k>> \in listeners[p] => poller[q].coports[k].events \subseteq levent[p]

\* A port that is DONE has its message, and who owes the store will find
\* something to deliver, if it has looked already.
Due(p) == listeners[p] # {} /\ "IN" \in levent[p]
Has(s, p) == \E k \in DOMAIN s : s[k] = p
Queued(p) == Has(notifier[NotifierOf[p]].queue, p)
Owes(t, p) ==
    worker[t].port = p /\ worker[t].bit = "IN" /\ (worker[t].pc = "post" => Due(p))
Owed(p) == "IN" \in event[p] /\ ((\E t \in Workers : Owes(t, p)) \/ (Due(p) /\ Queued(p)))
DoneInv == \A p \in Ports : status[p] = "DONE" => Owed(p)

CopollInv == /\ PortInv /\ WorkerInv /\ PollerInv /\ NotifierInv
             /\ LiveInv /\ CoverInv /\ DoneInv /\ RemovedWithEvent

-----------------------------------------------------------------------------
\* Thread t is at w after the step, and the other threads where they were.
Moves(t, w) == /\ worker' = [u \in Workers |-> worker'[u]] /\ worker'[t] = w
               /\ \A u \in Workers : u # t => worker'[u] = worker[u]

\* An update of one thread is such a step.
LEMMA MovesBy ==
    ASSUME WorkerInv, NEW t \in Workers, NEW w, worker' = [worker EXCEPT ![t] = w]
    PROVE  Moves(t, w)
  BY Zenon DEF WorkerInv, Moves

\* The states of a thread in a call, field by field.
WorkerAt(pc, port, closing, bit) == [pc |-> pc, port |-> port, closing |-> closing, bit |-> bit]
\* The locals with which a worker returns or begins a call.
LEMMA CallStates ==
    ASSUME WorkerInv, NEW t \in Workers, NEW p, NEW b
    PROVE  /\ worker' = [worker EXCEPT ![t] = IdleWorker] => Moves(t, WorkerAt("idle", None, FALSE, None))
           /\ worker' = [worker EXCEPT ![t] = [IdleWorker EXCEPT !.pc = "check", !.port = p, !.bit = b]]
                => Moves(t, WorkerAt("check", p, FALSE, b))
           /\ worker' = [worker EXCEPT ![t] = [IdleWorker EXCEPT !.pc = "r_lock", !.port = p, !.closing = b]]
                => Moves(t, WorkerAt("r_lock", p, b, None))
<1>1. PICK v, w : /\ v = [IdleWorker EXCEPT !.pc = "check", !.port = p, !.bit = b]
                  /\ w = [IdleWorker EXCEPT !.pc = "r_lock", !.port = p, !.closing = b]
  BY Zenon
<1>2. /\ v = [pc |-> "check", port |-> p, closing |-> FALSE, bit |-> b]
      /\ w = [pc |-> "r_lock", port |-> p, closing |-> b, bit |-> None]
  BY <1>1, Zenon DEF IdleWorker
<1>3. ASSUME worker' = [worker EXCEPT ![t] = IdleWorker] PROVE Moves(t, WorkerAt("idle", None, FALSE, None))
  BY <1>3, MovesBy, Zenon DEF IdleWorker, WorkerAt
<1>4. ASSUME worker' = [worker EXCEPT ![t] = v] PROVE Moves(t, WorkerAt("check", p, FALSE, b))
  <2>1. Moves(t, v)
    BY <1>4, MovesBy, Zenon
  <2> QED  BY <1>2, <2>1, Zenon DEF WorkerAt
<1>5. ASSUME worker' = [worker EXCEPT ![t] = w] PROVE Moves(t, WorkerAt("r_lock", p, b, None))
  <2>1. Moves(t, w)
    BY <1>5, MovesBy, Zenon
  <2> QED  BY <1>2, <2>1, Zenon DEF WorkerAt
<1> QED  BY <1>1, <1>3, <1>4, <1>5, Zenon

\* Only t's own state is to be looked at.
LEMMA WorkerOfOthers ==
    ASSUME WorkerInv, NEW t \in Workers, NEW w, Moves(t, w),
           NEW pc \in {"idle", "r_lock", "check", "post", "cas"}, NEW port, NEW closing, NEW bit,
           w = WorkerAt(pc, port, closing, bit), pc # "idle" => port \in Ports,
           bit = "IN" => pc \in {"check", "post", "cas"}
    PROVE  WorkerInv'
<1>1. WorkerOK(t)'
  BY DEF Moves, WorkerOK, WorkerAt
<1>2. \A u \in Workers : u # t => WorkerOK(u)'
  BY Zenon DEF Moves, WorkerInv, WorkerOK
<1> QED  BY <1>1, <1>2, Zenon DEF WorkerInv, Moves

\* A thread that has finished its call.
LEMMA IdleAgain ==
    ASSUME WorkerInv, NEW t \in Workers, Moves(t, WorkerAt("idle", None, FALSE, None))
    PROVE  WorkerInv'
<1>1. None # "IN" /\ "idle" \in {"idle", "r_lock", "check", "post", "cas"}
  BY Zenon DEF None
<1> QED  BY <1>1, WorkerOfOthers, Zenon

\* A thread that has not just sent owes nothing, so its step lifts no debt.
LEMMA OwesKept ==
    ASSUME WorkerInv, NEW t \in Workers, NEW w, Moves(t, w), worker[t].bit # "IN",
           NEW p \in Ports, Due(p) => Due(p)'
    PROVE  (\E u \in Workers : Owes(u, p)) => (\E u \in Workers : Owes(u, p))'
<1>1. ASSUME NEW u \in Workers, Owes(u, p) PROVE Owes(u, p)'
  <2>1. u # t
    BY <1>1, Zenon DEF Owes
  <2> QED  BY <1>1, <2>1, Zenon DEF Owes, Moves
<1> QED  BY <1>1, Zenon

\* What has to be shown of a port.
LEMMA DoneKept ==
    ASSUME DoneInv,
           \A p \in Ports : status'[p] = "DONE" =>
               \/ Owed(p)'
               \/ /\ status[p] = "DONE" /\ ("IN" \in event[p] => "IN" \in event'[p])
                  /\ (\E u \in Workers : Owes(u, p)) =>
                       (\E u \in Workers : Owes(u, p))' \/ (Due(p)' /\ Queued(p)')
                  /\ Due(p) => Due(p)'
                  /\ Due(p) /\ Queued(p) => Queued(p)'
    PROVE  DoneInv'
  BY Zenon DEF DoneInv, Owed

\* A step that leaves the lists and the queues alone.
LEMMA DueKept ==
    ASSUME UNCHANGED <<listeners, levent, notifier>>, NEW p \in Ports
    PROVE  Due(p)' = Due(p) /\ Queued(p)' = Queued(p)
  BY Zenon DEF Due, Queued

\* A step of a thread that owes nothing.
LEMMA DoneAt ==
    ASSUME WorkerInv, DoneInv, NEW t \in Workers, NEW w, Moves(t, w), worker[t].bit # "IN",
           UNCHANGED <<listeners, levent, notifier>>,
           \A p \in Ports : status'[p] = "DONE" =>
              Owed(p)' \/ (status[p] = "DONE" /\ event'[p] = event[p])
    PROVE  DoneInv'
  BY DueKept, OwesKept, DoneKept, Zenon

-----------------------------------------------------------------------------
\* What a step of a thread keeps of the parts it leaves alone.
LEMMA PollerPart ==
    ASSUME PollerInv, LiveInv, CoverInv, UNCHANGED <<listeners, poller>>,
           \A p \in Ports : levent[p] \subseteq levent'[p]
    PROVE  PollerInv' /\ LiveInv' /\ CoverInv'
<1>1. PollerInv'
  BY DEF PollerInv, PollerOK, EntryOK
<1>2. LiveInv'
  BY DEF LiveInv, Live
<1>3. CoverInv'
  BY Zenon DEF CoverInv
<1> QED  BY <1>1, <1>2, <1>3, Zenon

\* Steps that leave the notifiers alone,
LEMMA NotifierPart == ASSUME NotifierInv, UNCHANGED notifier PROVE NotifierInv'
  BY Zenon DEF NotifierInv, NotifierOK

\* and the workers.
LEMMA WorkerPart == ASSUME WorkerInv, UNCHANGED worker PROVE WorkerInv'
  BY Zenon DEF WorkerInv, WorkerOK

\* The masks of events consist of events, and the ring is not overrun.
LEMMA Masks ==
    ASSUME NEW mask \in SUBSET Bits, NEW len \in Lengths
    PROVE  /\ MaySend(mask, len) => len + 1 \in Lengths
           /\ MayRecv(mask, len) => len - 1 \in Lengths
           /\ \A n, c : SentMask(mask, n) \subseteq Bits /\ "IN" \in SentMask(mask, n)
                        /\ RecvMask(mask, n, c) \subseteq Bits
           /\ CloseMask(mask) \subseteq Bits /\ mask \cup {"WERR"} \subseteq Bits
           /\ mask \cup {"RERR"} \subseteq Bits
<1>1. MaySend(mask, len) => len + 1 \in Lengths
  BY SizeAssumption DEF MaySend, Lengths
<1>2. MayRecv(mask, len) => len - 1 \in Lengths
  BY SizeAssumption DEF MayRecv, Lengths
<1>3. \A n, c : SentMask(mask, n) \subseteq Bits /\ "IN" \in SentMask(mask, n) /\ RecvMask(mask, n, c) \subseteq Bits
  BY Zenon DEF SentMask, RecvMask, Bits
<1>4. CloseMask(mask) \subseteq Bits /\ mask \cup {"WERR"} \subseteq Bits /\ mask \cup {"RERR"} \subseteq Bits
  BY Zenon DEF CloseMask, Bits
<1> QED  BY <1>1, <1>2, <1>3, <1>4, Zenon

\* One port's status, length and events after a step, the others' as before.
At(p, s, len, ev) ==
    /\ status' = [r \in Ports |-> status'[r]] /\ length' = [r \in Ports |-> length'[r]]
    /\ event' = [r \in Ports |-> event'[r]]
    /\ status'[p] = s /\ length'[p] = len /\ event'[p] = ev
    /\ \A r \in Ports : r # p => status'[r] = status[r] /\ length'[r] = length[r] /\ event'[r] = event[r]

\* A port's status, length and events change together.
LEMMA PortAt ==
    ASSUME PortInv, UNCHANGED <<listeners, levent, mutex>>, NEW p \in Ports,
           NEW s \in Status \ {"BUSY", "POLLING"}, NEW len \in Lengths, NEW ev \in SUBSET Bits,
           At(p, s, len, ev)
    PROVE  PortInv'
<1>1. \A r \in Ports : PortOK(r)'
  BY Zenon DEF PortInv, PortOK, At
<1> QED  BY <1>1, Zenon DEF PortInv, At

-----------------------------------------------------------------------------
\* The step of a thread that takes p's status word: t moves on to w.
LEMMA SendStep ==
    ASSUME CopollInv, NEW t \in Workers, NEW p \in Ports, Send(t, p)
    PROVE  CopollInv'
<1>1. PICK w : w = WorkerAt("check", p, FALSE, "IN")
  BY Zenon
<1>2. PortOK(p) /\ WorkerOK(t)
  BY Zenon DEF CopollInv, PortInv, WorkerInv
<1>3. /\ worker[t].pc = "idle" /\ MaySend(event[p], length[p])
      /\ length' = [length EXCEPT ![p] = @ + 1]
      /\ event' = [event EXCEPT ![p] = SentMask(@, length'[p])]
      /\ status' = [status EXCEPT ![p] = "DONE"]
      /\ UNCHANGED <<listeners, levent, mutex, poller, notifier, failed>>
      /\ worker' = [worker EXCEPT ![t] = [IdleWorker EXCEPT !.pc = "check", !.port = p, !.bit = "IN"]]
  BY Zenon DEF Send
<1>4. Moves(t, w)
  BY <1>1, <1>3, CallStates, Zenon DEF CopollInv
<1>5. At(p, "DONE", length[p] + 1, SentMask(event[p], length'[p]))
  BY <1>3, Zenon DEF CopollInv, PortInv, At
<1>6. length[p] + 1 \in Lengths /\ SentMask(event[p], length'[p]) \in SUBSET Bits /\ "IN" \in event'[p]
  <2>1. event[p] \in SUBSET Bits /\ length[p] \in Lengths /\ MaySend(event[p], length[p])
    BY <1>2, <1>3, Zenon DEF PortOK
  <2>2. event'[p] = SentMask(event[p], length'[p])
    BY <1>5, Zenon DEF At
  <2> QED  BY <2>1, <2>2, Masks, Zenon
<1>7. PortInv'
  BY <1>3, <1>5, <1>6, PortAt, Zenon DEF CopollInv, Status
<1>8. WorkerInv'
  BY <1>1, <1>4, WorkerOfOthers, Zenon DEF CopollInv
<1>9. Owed(p)'
  BY <1>1, <1>4, <1>6 DEF Owed, Owes, Moves, WorkerAt
<1>10. worker[t].bit # "IN"
  BY <1>2, <1>3, Zenon DEF WorkerOK
<1>11. DoneInv'
  BY <1>3, <1>4, <1>5, <1>9, <1>10, DoneAt, Zenon DEF CopollInv, At
<1> QED  BY <1>3, <1>7, <1>8, <1>11, PollerPart, NotifierPart, Zenon DEF CopollInv, RemovedWithEvent

\* cosend on a full ring.
LEMMA SendAgainStep ==
    ASSUME CopollInv, NEW t \in Workers, NEW p \in Ports, SendAgain(t, p)
    PROVE  CopollInv'
<1>1. PortOK(p) /\ status[p] = "OPEN"
      /\ event' = [event EXCEPT ![p] = @ \cup {"WERR"}]
      /\ UNCHANGED <<status, length, listeners, levent, mutex, worker, poller, notifier, failed>>
  BY Zenon DEF CopollInv, PortInv, SendAgain
<1>2. At(p, "OPEN", length[p], event[p] \cup {"WERR"})
  BY <1>1, Zenon DEF CopollInv, PortInv, At
<1>3. PortInv'
  BY <1>1, <1>2, Masks, PortAt DEF CopollInv, PortOK, Status
<1>4. \A r \in Ports : (\E u \in Workers : Owes(u, r)) => (\E u \in Workers : Owes(u, r))'
  BY <1>1, Zenon DEF Owes, Due
<1>5. DoneInv'
  BY <1>1, <1>2, <1>4, DueKept, DoneKept, Zenon DEF CopollInv, At
<1> QED  BY <1>1, <1>3, <1>5, PollerPart, NotifierPart, WorkerPart, Zenon DEF CopollInv, RemovedWithEvent

\* coclose.
LEMMA CloseStep ==
    ASSUME CopollInv, NEW t \in Workers, NEW p \in Ports, Close(t, p)
    PROVE  CopollInv'
<1>1. PortOK(p) /\ status[p] = "OPEN"
      /\ event' = [event EXCEPT ![p] = CloseMask(@)]
      /\ status' = [status EXCEPT ![p] = "CLOSING"]
      /\ UNCHANGED <<length, listeners, levent, mutex, worker, poller, notifier, failed>>
  BY Zenon DEF CopollInv, PortInv, Close
<1>2. At(p, "CLOSING", length[p], CloseMask(event[p]))
  BY <1>1, Zenon DEF CopollInv, PortInv, At
<1>3. PortInv'
  BY <1>1, <1>2, Masks, PortAt DEF CopollInv, PortOK, Status
<1>4. \A r \in Ports : (\E u \in Workers : Owes(u, r)) => (\E u \in Workers : Owes(u, r))'
  BY <1>1, Zenon DEF Owes, Due
<1>5. DoneInv'
  BY <1>1, <1>2, <1>4, DueKept, DoneKept, Zenon DEF CopollInv, At
<1> QED  BY <1>1, <1>3, <1>5, PollerPart, NotifierPart, WorkerPart, Zenon DEF CopollInv, RemovedWithEvent

\* A receiver's step that leaves the port alone: it sees CLOSING, or CLOSED.
LEMMA RecvLooks ==
    ASSUME CopollInv, NEW t \in Workers, (\E p \in Ports : RecvSeesClosing(t, p)) \/ RecvEpipe(t)
    PROVE  CopollInv'
<1>1. UNCHANGED <<info, listeners, levent, mutex, poller, notifier, failed>>
      /\ worker[t].pc \in {"idle", "r_lock"}
  BY Zenon DEF RecvSeesClosing, RecvEpipe
<1>2. PICK pc \in {"idle", "r_lock"}, port \in Ports \cup {None}, b \in BOOLEAN :
        /\ pc # "idle" => port \in Ports
        /\ Moves(t, WorkerAt(pc, port, b, None))
  <2>1. CASE RecvEpipe(t)
    <3>1. Moves(t, WorkerAt("idle", None, FALSE, None))
      BY <2>1, CallStates, Zenon DEF RecvEpipe, CopollInv
    <3> QED  BY <3>1, Zenon
  <2>2. CASE \E p \in Ports : RecvSeesClosing(t, p)
    <3>1. PICK p \in Ports : Moves(t, WorkerAt("r_lock", p, TRUE, None))
      BY <2>2, CallStates, Zenon DEF RecvSeesClosing, CopollInv
    <3> QED  BY <3>1, Zenon
  <2> QED  BY <2>1, <2>2, Zenon
<1>3. WorkerInv'
  BY <1>2, WorkerOfOthers DEF CopollInv, None
<1>4. worker[t].bit # "IN"
  BY <1>1, Zenon DEF CopollInv, WorkerInv, WorkerOK
<1>5. DoneInv'
  BY <1>1, <1>2, <1>4, DoneAt, Zenon DEF CopollInv, info
<1>6. PortInv'
  BY <1>1, Zenon DEF CopollInv, PortInv, PortOK, info
<1> QED  BY <1>1, <1>3, <1>5, <1>6, PollerPart, NotifierPart, Zenon DEF CopollInv, RemovedWithEvent

\* corecv, with a message or without.
LEMMA RecvStep ==
    ASSUME CopollInv, NEW t \in Workers, NEW p \in Ports, Recv(t, p) \/ RecvAgain(t, p)
    PROVE  CopollInv'
<1>1. /\ PortOK(p) /\ status[p] \in {"OPEN", "CLOSING"} /\ worker[t].pc \in {"idle", "r_lock"}
      /\ UNCHANGED <<listeners, levent, mutex, poller, notifier, failed>>
  BY Zenon DEF CopollInv, PortInv, Recv, RecvAgain, RecvLocks
<1>2. PICK s \in {"OPEN", "CLOSING"}, len \in Lengths, ev \in SUBSET Bits : At(p, s, len, ev)
  <2>1. CASE Recv(t, p)
    <3>1. At(p, status[p], length[p] - 1, RecvMask(event[p], length'[p], worker[t].closing))
      BY <2>1, Zenon DEF CopollInv, PortInv, At, Recv
    <3>2. length[p] - 1 \in Lengths /\ RecvMask(event[p], length'[p], worker[t].closing) \in SUBSET Bits
      <4>1. length[p] \in Lengths /\ event[p] \in SUBSET Bits /\ MayRecv(event[p], length[p])
        BY <1>1, <2>1, Zenon DEF PortOK, Recv
      <4>2. /\ length[p] - 1 \in Lengths
            /\ \A n, c : RecvMask(event[p], n, c) \subseteq Bits
        BY <4>1, Masks, Zenon
      <4> QED  BY ONLY <4>2, Zenon
    <3> QED  BY <1>1, <3>1, <3>2, Zenon
  <2>2. CASE RecvAgain(t, p)
    <3>1. At(p, "OPEN", length[p], event[p] \cup {"RERR"})
      BY <2>2, Zenon DEF CopollInv, PortInv, At, RecvAgain
    <3> QED  BY <1>1, <3>1, Masks, Zenon DEF PortOK
  <2> QED  BY <2>1, <2>2, Zenon
<1>3. PICK pc \in {"idle", "check"}, port \in Ports \cup {None}, b \in {None, "OUT"} :
        /\ pc # "idle" => port \in Ports
        /\ Moves(t, WorkerAt(pc, port, FALSE, b))
  <2>1. CASE Recv(t, p)
    <3>1. Moves(t, WorkerAt("check", p, FALSE, "OUT"))
      BY <2>1, CallStates, Zenon DEF Recv, CopollInv
    <3> QED  BY <3>1, Zenon
  <2>2. CASE RecvAgain(t, p)
    <3>1. Moves(t, WorkerAt("idle", None, FALSE, None))
      BY <2>2, CallStates, Zenon DEF RecvAgain, CopollInv
    <3> QED  BY <3>1, Zenon
  <2> QED  BY <2>1, <2>2, Zenon
<1>4. WorkerInv'
  <2>1. pc \in {"idle", "r_lock", "check", "post", "cas"} /\ b # "IN"
    BY Zenon DEF None
  <2> QED  BY <1>3, <2>1, WorkerOfOthers, ZenonT(60) DEF CopollInv
<1>5. PortInv'
  BY <1>1, <1>2, PortAt, Zenon DEF CopollInv, Status
<1>6. worker[t].bit # "IN"
  BY <1>1, Zenon DEF CopollInv, WorkerInv, WorkerOK
<1>7. DoneInv'
  BY <1>1, <1>2, <1>3, <1>6, DoneAt, Zenon DEF CopollInv, At
<1> QED  BY <1>1, <1>4, <1>5, <1>7, PollerPart, NotifierPart, Zenon DEF CopollInv, RemovedWithEvent

\* copoll_notify looks at the lists.
LEMMA NotifyCheckStep ==
    ASSUME CopollInv, NEW t \in Workers, NotifyCheck(t)
    PROVE  CopollInv'
<1>1. PICK p, b, to : /\ p = worker[t].port /\ b = worker[t].bit
                      /\ to = IF listeners[p] # {} /\ b \in levent[p] THEN "post" ELSE "cas"
  BY Zenon
<1>2. /\ WorkerOK(t) /\ worker[t].pc = "check" /\ p \in Ports
      /\ UNCHANGED <<info, listeners, levent, mutex, poller, notifier, failed>>
  BY <1>1, Zenon DEF CopollInv, WorkerInv, WorkerOK, NotifyCheck
<1>3. PICK w : w = [worker[t] EXCEPT !.pc = to]
  BY Zenon
<1>4. w = WorkerAt(to, p, worker[t].closing, b)
  BY <1>1, <1>2, <1>3, Zenon DEF WorkerOK, WorkerAt
<1>5. worker' = [worker EXCEPT ![t] = w]
  BY <1>1, <1>3, Zenon DEF NotifyCheck
<1>6. Moves(t, w)
  BY <1>5, MovesBy, Zenon DEF CopollInv
<1>7. WorkerInv'
  BY <1>1, <1>2, <1>4, <1>6, WorkerOfOthers DEF CopollInv
<1>8. PortInv'
  BY <1>2, Zenon DEF CopollInv, PortInv, PortOK, info
<1>9. /\ worker'[t].port = p /\ worker'[t].bit = b /\ worker'[t].pc = to
      /\ \A u \in Workers : u # t => worker'[u] = worker[u]
  BY <1>4, <1>6 DEF Moves, WorkerAt
<1>10. ASSUME NEW r \in Ports, NEW u \in Workers, Owes(u, r) PROVE Owes(u, r)'
  BY <1>1, <1>2, <1>9, <1>10, Zenon DEF Owes, Due
<1>11. DoneInv'
  BY <1>2, <1>10, DueKept, DoneKept, Zenon DEF CopollInv, info
<1> QED  BY <1>2, <1>7, <1>8, <1>11, PollerPart, NotifierPart, Zenon DEF CopollInv, RemovedWithEvent

\* Nobody to notify: DONE is lifted.
LEMMA NotifyCasStep ==
    ASSUME CopollInv, NEW t \in Workers, NotifyCas(t)
    PROVE  CopollInv'
<1>1. PICK p, s : p = worker[t].port /\ s = IF status[p] = "DONE" THEN "OPEN" ELSE status[p]
  BY Zenon
<1>2. /\ WorkerOK(t) /\ worker[t].pc = "cas" /\ p \in Ports /\ PortOK(p)
      /\ status' = [status EXCEPT ![p] = s]
      /\ UNCHANGED <<length, event, listeners, levent, mutex, poller, notifier, failed>>
  BY <1>1, Zenon DEF CopollInv, WorkerInv, WorkerOK, PortInv, NotifyCas
<1>3. Moves(t, WorkerAt("idle", None, FALSE, None))
  BY CallStates, Zenon DEF NotifyCas, CopollInv
<1>4. At(p, s, length[p], event[p])
  BY <1>2, Zenon DEF CopollInv, PortInv, At
<1>5. WorkerInv'
  BY <1>3, IdleAgain, Zenon DEF CopollInv
<1>6. PortInv'
  BY <1>1, <1>2, <1>4, PortAt, Zenon DEF CopollInv, PortOK, Status
<1>7. s # "DONE"
  BY <1>1, Zenon
<1>8. ASSUME NEW r \in Ports, r # p, NEW u \in Workers, Owes(u, r) PROVE Owes(u, r)'
  BY <1>1, <1>2, <1>3, <1>8, Zenon DEF Owes, Due, Moves
<1>9. DoneInv'
  BY <1>2, <1>4, <1>7, <1>8, DueKept, DoneKept, Zenon DEF CopollInv, At
<1> QED  BY <1>2, <1>5, <1>6, <1>9, PollerPart, NotifierPart, Zenon DEF CopollInv, RemovedWithEvent

\* A notifier's state after a step, the others' as before.
NotifierAt(n, v) == /\ notifier' = [m \in Notifiers |-> notifier'[m]] /\ notifier'[n] = v
                    /\ \A m \in Notifiers : m # n => notifier'[m] = notifier[m]
NotifierRec(pc, signalled, i, n_events, queue) ==
    [pc |-> pc, signalled |-> signalled, i |-> i, n_events |-> n_events, queue |-> queue]

\* One notifier moves to well-typed locals, the others stay.
LEMMA NotifierOfOthers ==
    ASSUME NotifierInv, NEW n \in Notifiers, NEW v, NotifierAt(n, v), NEW pc, NEW signalled,
           NEW i \in Nat \ {0}, NEW n_events, NEW queue \in Seq(Ports \cup {NULL}),
           Len(queue) <= COPORT_EVENTQUEUE_LEN, n_events \in 0 .. Len(queue),
           v = NotifierRec(pc, signalled, i, n_events, queue)
    PROVE  NotifierInv'
<1>1. NotifierOK(n)'
  BY DEF NotifierAt, NotifierOK, NotifierRec
<1>2. \A m \in Notifiers : m # n => NotifierOK(m)'
  BY Zenon DEF NotifierAt, NotifierInv, NotifierOK
<1> QED  BY <1>1, <1>2, Zenon DEF NotifierInv, NotifierAt

HasAll(r, s) == \A p : Has(s, p) => Has(r, p)

\* A port appended to a queue, and what was there before.
LEMMA Appended ==
    ASSUME NEW S, NEW s \in Seq(S), NEW e \in S, NEW r, r = Append(s, e)
    PROVE  /\ r \in Seq(S) /\ Len(r) = Len(s) + 1
           /\ Has(r, e) /\ HasAll(r, s)
<1>1. r \in Seq(S) /\ Len(r) = Len(s) + 1 /\ Len(s) \in Nat
  OBVIOUS
<1>2. DOMAIN s = 1 .. Len(s) /\ DOMAIN r = 1 .. Len(s) + 1 /\ r[Len(s) + 1] = e
  OBVIOUS
<1>3. \A k \in 1 .. Len(s) : r[k] = s[k]
  OBVIOUS
<1>4. Has(r, e)
  BY <1>1, <1>2 DEF Has
<1>5. HasAll(r, s)
  BY <1>1, <1>2, <1>3 DEF HasAll, Has
<1> QED  BY <1>1, <1>4, <1>5, Zenon

\* put_coport_event.
LEMMA NotifyPostStep ==
    ASSUME CopollInv, NEW t \in Workers, NotifyPost(t)
    PROVE  CopollInv'
<1>1. PICK p, n : p = worker[t].port /\ n = NotifierOf[p]
  BY Zenon
<1>2. /\ WorkerOK(t) /\ worker[t].pc = "post" /\ p \in Ports /\ n \in Notifiers /\ NotifierOK(n)
      /\ UNCHANGED <<info, listeners, levent, mutex, poller>>
  BY <1>1, NotifierAssumption, Zenon DEF CopollInv, WorkerInv, WorkerOK, NotifierInv, NotifyPost
<1>3. PortInv'
  BY <1>2, Zenon DEF CopollInv, PortInv, PortOK, info
<1>4. CASE ~HasRoom(n)
  <2>1. UNCHANGED <<worker, notifier>> /\ failed' = "event_idx < COPORT_EVENTQUEUE_LEN"
    BY <1>1, <1>4, Zenon DEF NotifyPost
  <2>2. ASSUME NEW r \in Ports, NEW u \in Workers, Owes(u, r) PROVE Owes(u, r)'
    BY <1>2, <2>1, <2>2, Zenon DEF Owes, Due
  <2>3. DoneInv'
    BY <1>2, <2>1, <2>2, DueKept, DoneKept, Zenon DEF CopollInv, info
  <2> QED  BY <1>2, <1>3, <2>1, <2>3, PollerPart, NotifierPart, WorkerPart, Zenon DEF CopollInv,
              RemovedWithEvent
<1>5. CASE HasRoom(n)
  <2>1. PICK queue, sig : queue = Append(notifier[n].queue, p)
                          /\ sig = (notifier[n].signalled \/ notifier[n].pc = "wait")
    BY Zenon
  <2>2. PICK v : v = [notifier[n] EXCEPT !.queue = queue, !.signalled = sig]
    BY Zenon
  <2>3. notifier' = [notifier EXCEPT ![n] = v] /\ failed' = failed
    BY <1>1, <1>5, <2>1, <2>2, ZenonT(60) DEF NotifyPost
  <2>4. v = NotifierRec(notifier[n].pc, sig, notifier[n].i, notifier[n].n_events, queue)
    BY <1>2, <2>2, Zenon DEF NotifierOK, NotifierRec
  <2>5. NotifierAt(n, v)
    BY <1>2, <2>3, Zenon DEF NotifierAt, CopollInv, NotifierInv
  <2>6. /\ queue \in Seq(Ports \cup {NULL}) /\ Len(queue) = Len(notifier[n].queue) + 1
        /\ Has(queue, p) /\ HasAll(queue, notifier[n].queue)
    <3>1. p \in Ports \cup {NULL} /\ notifier[n].queue \in Seq(Ports \cup {NULL})
      BY <1>2, Zenon DEF NotifierOK
    <3>2. PICK S, s : S = Ports \cup {NULL} /\ s = notifier[n].queue
      BY Zenon
    <3>3. s \in Seq(S) /\ p \in S /\ queue = Append(s, p)
      BY <2>1, <3>1, <3>2, Zenon
    <3>4. queue \in Seq(S) /\ Len(queue) = Len(s) + 1 /\ Has(queue, p) /\ HasAll(queue, s)
      BY <3>3, Appended, Zenon
    <3> QED  BY <3>2, <3>4, Zenon
  <2>7. Len(queue) <= COPORT_EVENTQUEUE_LEN /\ notifier[n].n_events \in 0 .. Len(queue)
    BY <1>2, <1>5, <2>6, QueueAssumption DEF NotifierOK, HasRoom
  <2>8. NotifierInv'
    <3>1. notifier[n].i \in Nat \ {0}
      BY <1>2, Zenon DEF NotifierOK
    <3>2. NotifierInv
      BY Zenon DEF CopollInv
    <3>3. PICK pc, i, k : pc = notifier[n].pc /\ i = notifier[n].i /\ k = notifier[n].n_events
      BY Zenon
    <3>4. i \in Nat \ {0} /\ k \in 0 .. Len(queue) /\ v = NotifierRec(pc, sig, i, k, queue)
      BY <2>4, <2>7, <3>1, <3>3, Zenon
    <3>5. n \in Notifiers /\ queue \in Seq(Ports \cup {NULL}) /\ Len(queue) <= COPORT_EVENTQUEUE_LEN
      BY <1>2, <2>6, <2>7, Zenon
    <3> QED  BY ONLY <2>5, <3>2, <3>4, <3>5, NotifierOfOthers
  <2>9. Moves(t, WorkerAt("idle", None, FALSE, None))
    BY <1>1, <1>5, CallStates, Zenon DEF NotifyPost, CopollInv
  <2>10. WorkerInv'
    BY <2>9, IdleAgain, Zenon DEF CopollInv
  <2>11. /\ notifier'[n].queue = queue /\ \A m \in Notifiers : m # n => notifier'[m] = notifier[m]
    BY <2>4, <2>5 DEF NotifierAt, NotifierRec
  <2>12. ASSUME NEW r \in Ports, r = p \/ Queued(r) PROVE Queued(r)'
    BY <1>1, <2>6, <2>11, <2>12, NotifierAssumption, Zenon DEF Queued, HasAll
  <2>13. ASSUME NEW r \in Ports, NEW u \in Workers, Owes(u, r) PROVE Owes(u, r)' \/ (Due(r)' /\ r = p)
    BY <1>1, <1>2, <2>9, <2>13, Zenon DEF Owes, Due, Moves
  <2>14. DoneInv'
    <3>1. \A r \in Ports : Due(r) => Due(r)'
      BY <1>2, Zenon DEF Due
    <3> QED  BY <1>2, <2>12, <2>13, <3>1, DoneKept, Zenon DEF CopollInv, info
  <2> QED  BY <1>2, <1>3, <2>3, <2>8, <2>10, <2>14, PollerPart, Zenon DEF CopollInv, RemovedWithEvent
<1> QED  BY <1>4, <1>5, Zenon

-----------------------------------------------------------------------------
\* A poller's state after a step, the others' as before.
PollerAt(q, v) == /\ poller' = [u \in Pollers |-> poller'[u]] /\ poller'[q] = v
                  /\ \A u \in Pollers : u # q => poller'[u] = poller[u]
PollerRec(pc, coports, timed, at, entry, woken) ==
    [pc |-> pc, coports |-> coports, timed |-> timed, at |-> at, entry |-> entry, woken |-> woken]
\* One poller moves, the others stay.
LEMMA PollerAtBy ==
    ASSUME PollerInv, NEW q \in Pollers, NEW v, poller' = [poller EXCEPT ![q] = v]
    PROVE  PollerAt(q, v)
  BY Zenon DEF PollerInv, PollerAt

\* The fields of the state a poller goes to.
PollerGets(q, pc, coports, timed, at, entry, woken) ==
    /\ poller'[q].pc = pc /\ poller'[q].coports = coports /\ poller'[q].timed = timed
    /\ poller'[q].at = at /\ poller'[q].entry = entry /\ poller'[q].woken = woken
    /\ poller'[q] = [pc |-> poller'[q].pc, coports |-> poller'[q].coports, timed |-> poller'[q].timed,
                     at |-> poller'[q].at, entry |-> poller'[q].entry, woken |-> poller'[q].woken]
\* The fields of a poller that moved.
LEMMA PollerFields ==
    ASSUME NEW q, NEW v, PollerAt(q, v), NEW pc, NEW coports, NEW timed, NEW at, NEW entry,
           NEW woken, v = PollerRec(pc, coports, timed, at, entry, woken)
    PROVE  PollerGets(q, pc, coports, timed, at, entry, woken)
  BY DEF PollerAt, PollerRec, PollerGets

\* Only q's own part is to be looked at.
LEMMA PollerOfOthers ==
    ASSUME PollerInv, NEW q \in Pollers, NEW v, PollerAt(q, v), PollerOK(q)',
           poller'[q].pc \in Listening => \A k \in DOMAIN poller'[q].coports : EntryOK(q, k)'
    PROVE  PollerInv'
<1>1. ASSUME NEW u \in Pollers, u # q PROVE PollerOK(u)'
  <2>1. poller'[u] = poller[u] /\ PollerOK(u)
    BY <1>1, ZenonT(60) DEF PollerInv, PollerAt
  <2> QED  BY ONLY <2>1 DEF PollerOK
<1>2. ASSUME NEW u \in Pollers, u # q, poller'[u].pc \in Listening, NEW k \in DOMAIN poller'[u].coports
      PROVE  EntryOK(u, k)'
  <2>1. poller'[u] = poller[u]
    BY <1>2, Zenon DEF PollerAt
  <2>2. EntryOK(u, k)
    BY <1>2, <2>1, Zenon DEF PollerInv
  <2> QED  BY <2>1, <2>2 DEF EntryOK
<1> QED  BY <1>1, <1>2, Zenon DEF PollerInv, PollerAt

\* The lists stay right when one poller's entries change.
LEMMA LiveOfOthers ==
    ASSUME LiveInv, NEW q \in Pollers, NEW v, PollerAt(q, v),
           \A p \in Ports : listeners'[p] \subseteq Pollers \X Nat,
           \A p \in Ports, u \in Pollers, k \in Nat :
               u # q => (<<u, k>> \in listeners'[p] <=> <<u, k>> \in listeners[p]),
           \A p \in Ports, k \in Nat : <<q, k>> \in listeners'[p] <=> Live(q, k, p)'
    PROVE  LiveInv'
<1>1. ASSUME NEW p \in Ports, NEW u \in Pollers, u # q, NEW k \in Nat
      PROVE  <<u, k>> \in listeners'[p] <=> Live(u, k, p)'
  <2>1. poller'[u] = poller[u]
    BY <1>1, Zenon DEF PollerAt
  <2>2. Live(u, k, p)' <=> Live(u, k, p)
    BY <2>1, Zenon DEF Live
  <2> QED  BY <1>1, <2>2, Zenon DEF LiveInv
<1> QED  BY <1>1, Zenon DEF LiveInv

\* The ports' listened events stay large enough when one poller's entries change.
LEMMA CoverOfOthers ==
    ASSUME CoverInv, NEW q \in Pollers, NEW v, PollerAt(q, v),
           \A p \in Ports : levent[p] \subseteq levent'[p],
           \A p \in Ports, u \in Pollers, k \in Nat :
               u # q => (<<u, k>> \in listeners'[p] => <<u, k>> \in listeners[p]),
           \A p \in Ports, k \in Nat :
               <<q, k>> \in listeners'[p] => poller'[q].coports[k].events \subseteq levent'[p]
    PROVE  CoverInv'
<1>1. ASSUME NEW p \in Ports, NEW u \in Pollers, u # q, NEW k \in Nat, <<u, k>> \in listeners'[p]
      PROVE  poller'[u].coports[k].events \subseteq levent'[p]
  BY <1>1, Zenon DEF CoverInv, PollerAt
<1> QED  BY <1>1, Zenon DEF CoverInv

\* Lists grow, or lose an entry only while their port is not DONE.
LEMMA DoneLists ==
    ASSUME DoneInv, UNCHANGED <<status, event, worker, notifier>>,
           \A p \in Ports : status[p] = "DONE" =>
               listeners[p] \subseteq listeners'[p] /\ levent[p] \subseteq levent'[p]
    PROVE  DoneInv'
<1>1. ASSUME NEW p \in Ports, status[p] = "DONE" PROVE Due(p) => Due(p)'
  BY <1>1, Zenon DEF Due
<1>2. ASSUME NEW p \in Ports, status[p] = "DONE", NEW u \in Workers, Owes(u, p) PROVE Owes(u, p)'
  BY <1>1, <1>2, Zenon DEF Owes
<1>3. \A p \in Ports : Queued(p)' = Queued(p)
  BY Zenon DEF Queued
<1> QED  BY <1>1, <1>2, <1>3, DoneKept, Zenon

\* A poller moves on and the lists stay as they are.
LEMMA PollerGoes ==
    ASSUME CopollInv, NEW q \in Pollers, NEW v, PollerAt(q, v),
           UNCHANGED <<info, listeners, levent, worker, notifier, failed>>,
           mutex' \in Pollers \cup Notifiers \cup {None}, PollerOK(q)',
           poller'[q].pc \in Listening => \A k \in DOMAIN poller'[q].coports : EntryOK(q, k)',
           \A p \in Ports, k \in Nat : Live(q, k, p)' <=> Live(q, k, p),
           \A p \in Ports, k \in Nat : Live(q, k, p) => poller'[q].coports[k] = poller[q].coports[k]
    PROVE  CopollInv'
<1>1. PollerInv'
  BY PollerOfOthers, Zenon DEF CopollInv
<1>2. LiveInv'
  BY LiveOfOthers, Zenon DEF CopollInv, LiveInv
<1>3. CoverInv'
  <2>1. ASSUME NEW p \in Ports, NEW k \in Nat, <<q, k>> \in listeners[p]
        PROVE  poller'[q].coports[k].events \subseteq levent[p]
    BY <2>1, Zenon DEF CopollInv, LiveInv, CoverInv
  <2> QED  BY <2>1, CoverOfOthers, Zenon DEF CopollInv
<1>4. DoneInv'
  BY DoneLists, Zenon DEF CopollInv, info
<1>5. PortInv'
  BY Zenon DEF CopollInv, PortInv, PortOK, info
<1> QED  BY <1>1, <1>2, <1>3, <1>4, <1>5, NotifierPart, WorkerPart, Zenon DEF CopollInv, RemovedWithEvent

\* copoll finds no event.
LEMMA PollFastStep ==
    ASSUME CopollInv, NEW q \in Pollers, cocarrier_poll(q)
    PROVE  CopollInv'
<1>1. PICK r \in Requests :
        poller' = [poller EXCEPT ![q] =
          [IdlePoller EXCEPT !.pc = "slow", !.coports = r.coports, !.timed = r.timed]]
  BY Zenon DEF cocarrier_poll
<1>2. PICK v : v = [IdlePoller EXCEPT !.pc = "slow", !.coports = r.coports, !.timed = r.timed]
  BY Zenon
<1>3. v = PollerRec("slow", r.coports, r.timed, 1, << >>, FALSE)
  BY <1>2, Zenon DEF IdlePoller, PollerRec
<1>4. PollerAt(q, v)
  BY <1>1, <1>2, PollerAtBy, Zenon DEF CopollInv
<1>5. r.coports \in Seq(Polled)
  BY RequestAssumption, Zenon DEF Polled
<1>6. PollerOK(q)' /\ poller'[q].pc = "slow"
  <2>1. PollerGets(q, "slow", r.coports, r.timed, 1, << >>, FALSE)
    BY <1>3, <1>4, PollerFields, Zenon
  <2> QED  BY <1>5, <2>1 DEF PollerOK, PollerGets, Listening
<1>7. poller[q].pc = "idle" /\ UNCHANGED <<info, listeners, levent, mutex, worker, notifier, failed>>
  BY Zenon DEF cocarrier_poll
<1>8. \A p \in Ports, k \in Nat : ~Live(q, k, p)' /\ ~Live(q, k, p)
  BY <1>6, <1>7, Zenon DEF Live
<1>9. mutex' \in Pollers \cup Notifiers \cup {None}
  BY <1>7, Zenon DEF CopollInv, PortInv
<1> QED  BY <1>4, <1>6, <1>7, <1>8, <1>9, PollerGoes, Zenon DEF Listening

\* A poll call is over.
LEMMA PollOver ==
    ASSUME CopollInv, NEW q \in Pollers, poller' = [poller EXCEPT ![q] = IdlePoller],
           UNCHANGED <<info, listeners, levent, worker, notifier, failed>>,
           mutex' \in Pollers \cup Notifiers \cup {None},
           \A p \in Ports, k \in Nat : ~Live(q, k, p)
    PROVE  CopollInv'
<1>1. PICK v : v = IdlePoller
  BY Zenon
<1>2. v = PollerRec("idle", << >>, FALSE, 1, << >>, FALSE)
  BY <1>1, Zenon DEF IdlePoller, PollerRec
<1>3. PollerAt(q, v)
  BY <1>1, PollerAtBy, Zenon DEF CopollInv
<1>4. << >> \in Seq(Polled)
  OBVIOUS
<1>5. PollerOK(q)' /\ poller'[q].pc = "idle"
  <2>1. PollerGets(q, "idle", << >>, FALSE, 1, << >>, FALSE)
    BY <1>2, <1>3, PollerFields, Zenon
  <2> QED  BY <1>4, <2>1 DEF PollerOK, PollerGets, Listening
<1>6. \A p \in Ports, k \in Nat : ~Live(q, k, p)'
  BY <1>5, Zenon DEF Live
<1> QED  BY <1>3, <1>5, <1>6, PollerGoes, Zenon DEF Listening

\* The slow call looks again.
LEMMA PollCallStep ==
    ASSUME CopollInv, NEW q \in Pollers, PollCall(q)
    PROVE  CopollInv'
<1>1. /\ poller[q].pc = "slow" /\ UNCHANGED <<info, listeners, levent, mutex, worker, notifier, failed>>
      /\ mutex' \in Pollers \cup Notifiers \cup {None} /\ PollerOK(q)
  BY Zenon DEF PollCall, CopollInv, PortInv, PollerInv
<1>2. \A p \in Ports, k \in Nat : ~Live(q, k, p)
  BY <1>1, Zenon DEF Live
<1>3. CASE Matches(poller[q].coports)
  <2>1. poller' = [poller EXCEPT ![q] = IdlePoller]
    BY <1>3, Zenon DEF PollCall
  <2> QED  BY <1>1, <1>2, <2>1, PollOver, Zenon
<1>4. CASE ~Matches(poller[q].coports)
  <2>1. PICK entry, v :
          /\ entry = [k \in DOMAIN poller[q].coports |-> [removed |-> FALSE, revent |-> {}]]
          /\ v = [poller[q] EXCEPT !.pc = "lock", !.entry = entry]
    BY Zenon
  <2>2. poller' = [poller EXCEPT ![q] = v]
    BY <1>4, <2>1, Zenon DEF PollCall
  <2>3. PollerAt(q, v)
    BY <2>2, PollerAtBy, Zenon DEF CopollInv
  <2>4. v = PollerRec("lock", poller[q].coports, poller[q].timed, poller[q].at, entry, poller[q].woken)
    BY <1>1, <2>1, Zenon DEF PollerOK, PollerRec
  <2>5. PollerGets(q, "lock", poller[q].coports, poller[q].timed, poller[q].at, entry, poller[q].woken)
    BY <2>3, <2>4, PollerFields, Zenon
  <2>6. \A k \in DOMAIN poller[q].coports :
          /\ entry[k] \in [removed : BOOLEAN, revent : SUBSET Bits] /\ ~entry[k].removed
    BY <2>1, Zenon
  <2>7. entry = [k \in DOMAIN poller[q].coports |-> entry[k]]
    BY <2>1, Zenon
  <2>8. PollerOK(q)'
    BY <1>1, <2>5, <2>6, <2>7, Zenon DEF PollerOK, PollerGets, Listening
  <2>9. \A k \in DOMAIN poller'[q].coports : EntryOK(q, k)'
    BY <2>5, <2>6, Zenon DEF EntryOK, PollerGets
  <2>10. \A p \in Ports, k \in Nat : ~Live(q, k, p)'
    BY <2>5, Zenon DEF Live, PollerGets
  <2> QED  BY <1>1, <1>2, <2>3, <2>8, <2>9, <2>10, PollerGoes, Zenon
<1> QED  BY <1>3, <1>4, Zenon

\* A poller's entries while it listens: the positions are positive.
LEMMA Positions ==
    ASSUME PollerInv, NEW q \in Pollers
    PROVE  /\ PollerOK(q) /\ Len(poller[q].coports) \in Nat
           /\ DOMAIN poller[q].coports = 1 .. Len(poller[q].coports)
           /\ poller[q].pc \in Listening => \A k \in DOMAIN poller[q].coports : EntryOK(q, k)
  BY DEF PollerInv, PollerOK

\* What an entry waits for.
LEMMA EntryPort ==
    ASSUME PollerInv, NEW q \in Pollers, NEW k, k = poller[q].at, k <= Len(poller[q].coports)
    PROVE  /\ k \in Nat \ {0} /\ k \in DOMAIN poller[q].coports
           /\ poller[q].coports[k].port \in Ports /\ poller[q].coports[k].events \subseteq Bits
<1>1. PollerOK(q) /\ DOMAIN poller[q].coports = 1 .. Len(poller[q].coports) /\ Len(poller[q].coports) \in Nat
  BY Positions, Zenon
<1>2. k \in Nat \ {0} /\ poller[q].coports \in Seq(Polled)
  BY <1>1, Zenon DEF PollerOK
<1>3. k \in DOMAIN poller[q].coports
  BY <1>1, <1>2
<1>4. poller[q].coports[k] \in Polled
  BY <1>2, <1>3
<1> QED  BY <1>2, <1>3, <1>4, Zenon DEF Polled

\* PollLock, PollWait and PollWake: a poller moves on with its entries.
LEMMA PollMutexStep ==
    ASSUME CopollInv, NEW q \in Pollers, PollLock(q) \/ PollWait(q) \/ PollWake(q)
    PROVE  CopollInv'
<1>4. PollerOK(q)
  BY Zenon DEF CopollInv, PollerInv
<1>1. PICK from, to, at, v, woken :
        /\ poller[q].pc = from /\ PollerAt(q, v)
        /\ v = PollerRec(to, poller[q].coports, poller[q].timed, at, poller[q].entry, woken)
        /\ \/ from = "lock" /\ to = "insert" /\ at = poller[q].at
           \/ from = "insert" /\ to = "wait" /\ at = 1 /\ poller[q].at > Len(poller[q].coports)
           \/ from = "wait" /\ to = "remove" /\ at = poller[q].at
  <2>2. CASE PollLock(q)
    <3>1. PICK v : v = [poller[q] EXCEPT !.pc = "insert"]
      BY Zenon
    <3>2. PollerAt(q, v) /\ poller[q].pc = "lock"
      BY <2>2, <3>1, PollerAtBy, Zenon DEF PollLock, CopollInv
    <3>3. v = PollerRec("insert", poller[q].coports, poller[q].timed, poller[q].at, poller[q].entry, poller[q].woken)
      BY <1>4, <3>1, Zenon DEF PollerOK, PollerRec
    <3> QED  BY <3>2, <3>3, Zenon
  <2>3. CASE PollWait(q)
    <3>1. PICK v : v = [poller[q] EXCEPT !.pc = "wait", !.at = 1]
      BY Zenon
    <3>2. PollerAt(q, v) /\ poller[q].pc = "insert" /\ poller[q].at > Len(poller[q].coports)
      BY <2>3, <3>1, PollerAtBy, Zenon DEF PollWait, CopollInv
    <3>3. v = PollerRec("wait", poller[q].coports, poller[q].timed, 1, poller[q].entry, poller[q].woken)
      BY <1>4, <3>1, Zenon DEF PollerOK, PollerRec
    <3> QED  BY <3>2, <3>3, Zenon
  <2>4. CASE PollWake(q)
    <3>1. PICK v : v = [poller[q] EXCEPT !.pc = "remove", !.woken = FALSE]
      BY Zenon
    <3>2. PollerAt(q, v) /\ poller[q].pc = "wait"
      BY <2>4, <3>1, PollerAtBy, ZenonT(60) DEF PollWake, CopollInv
    <3>3. v = PollerRec("remove", poller[q].coports, poller[q].timed, poller[q].at, poller[q].entry, FALSE)
      BY <1>4, <3>1, Zenon DEF PollerOK, PollerRec
    <3> QED  BY <3>2, <3>3, Zenon
  <2> QED  BY <2>2, <2>3, <2>4, Zenon
<1>2. /\ UNCHANGED <<info, listeners, levent, worker, notifier, failed>>
      /\ mutex' \in Pollers \cup Notifiers \cup {None}
  BY Zenon DEF PollLock, PollWait, PollWake, acquire_copoll_mutex
<1>6. PollerGets(q, to, poller[q].coports, poller[q].timed, at, poller[q].entry, woken)
  BY <1>1, PollerFields, Zenon
<1>7. poller[q].at \in Nat \ {0} /\ (from # "insert" => poller[q].at = 1)
  BY <1>1, <1>4, Zenon DEF PollerOK
<1>8. at = 1 /\ from \in Listening /\ to \in {"insert", "wait", "remove"} /\ to \in Listening
  BY <1>1, <1>7, Zenon DEF Listening
<1>9. PollerOK(q)'
  BY <1>1, <1>4, <1>6, <1>8 DEF PollerOK, PollerGets
<1>10. ASSUME NEW k \in DOMAIN poller[q].coports
       PROVE  k \in Nat /\ k >= 1 /\ k <= Len(poller[q].coports) /\ EntryOK(q, k)
  BY <1>1, <1>8, <1>10, Positions DEF CopollInv
<1>11. \A k \in DOMAIN poller'[q].coports : EntryOK(q, k)'
  BY ONLY <1>1, <1>6, <1>8, <1>10 DEF EntryOK, PollerGets
<1>12. \A p \in Ports, k \in Nat : Live(q, k, p)' <=> Live(q, k, p)
  BY <1>1, <1>6, <1>7, <1>8, <1>10 DEF Live, PollerGets
<1> QED  BY <1>1, <1>2, <1>6, <1>9, <1>11, <1>12, PollerGoes, Zenon DEF PollerGets

\* The next entry is put on its port's list.
LEMMA PollInsertStep ==
    ASSUME CopollInv, NEW q \in Pollers, PollInsert(q)
    PROVE  CopollInv'
<1>1. PICK k, p, events : k = poller[q].at /\ p = poller[q].coports[k].port /\ events = poller[q].coports[k].events
  BY Zenon
<1>2. /\ PollerOK(q) /\ poller[q].pc = "insert" /\ k <= Len(poller[q].coports) /\ status[p] = "OPEN"
      /\ listeners' = [listeners EXCEPT ![p] = @ \cup {<<q, k>>}]
      /\ levent' = [levent EXCEPT ![p] = @ \cup events]
      /\ UNCHANGED <<info, mutex, worker, notifier, failed>>
  BY <1>1, Zenon DEF PollInsert, Listen, CopollInv, PollerInv
<1>3. k \in Nat \ {0} /\ k \in DOMAIN poller[q].coports /\ p \in Ports /\ events \subseteq Bits
  BY <1>1, <1>2, EntryPort, Zenon DEF CopollInv
<1>4. PICK v : v = [poller[q] EXCEPT !.at = k + 1]
  BY Zenon
<1>5. PollerAt(q, v)
  BY <1>1, <1>4, PollerAtBy, Zenon DEF PollInsert, CopollInv
<1>6. v = PollerRec("insert", poller[q].coports, poller[q].timed, k + 1, poller[q].entry, poller[q].woken)
  BY <1>2, <1>4, Zenon DEF PollerOK, PollerRec
<1>7. PollerGets(q, "insert", poller[q].coports, poller[q].timed, k + 1, poller[q].entry, poller[q].woken)
  BY <1>5, <1>6, PollerFields, Zenon
<1>8. /\ \A r \in Ports : r # p => listeners'[r] = listeners[r] /\ levent'[r] = levent[r]
      /\ listeners'[p] = listeners[p] \cup {<<q, k>>} /\ levent'[p] = levent[p] \cup events
  BY <1>2, <1>3, ZenonT(60) DEF CopollInv, PortInv
<1>9. PollerOK(q)'
  BY <1>2, <1>3, <1>7 DEF PollerOK, PollerGets
<1>10. ASSUME NEW j \in DOMAIN poller[q].coports PROVE j \in Nat /\ EntryOK(q, j)
  <2>1. /\ Len(poller[q].coports) \in Nat /\ DOMAIN poller[q].coports = 1 .. Len(poller[q].coports)
        /\ poller[q].pc \in Listening => \A i \in DOMAIN poller[q].coports : EntryOK(q, i)
    BY Positions, Zenon DEF CopollInv
  <2>2. EntryOK(q, j)
    BY <1>2, <1>10, <2>1, Zenon DEF Listening
  <2> QED  BY ONLY <1>10, <2>1, <2>2
<1>fields. /\ poller'[q].pc = "insert" /\ poller'[q].coports = poller[q].coports
      /\ poller'[q].at = k + 1 /\ poller'[q].entry = poller[q].entry
  BY <1>7, Zenon DEF PollerGets
<1>11. ASSUME NEW j \in DOMAIN poller'[q].coports PROVE EntryOK(q, j)'
  <2>1. j \in Nat /\ EntryOK(q, j)
    BY <1>10, <1>11, <1>fields, Zenon
  <2>2. j >= k + 1 => j >= k
    BY ONLY <1>3, <2>1
  <2>3. "insert" # "lock" /\ "insert" # "remove"
    BY ONLY Zenon
  <2> QED  BY ONLY <1>1, <1>2, <1>fields, <2>1, <2>2, <2>3, Zenon DEF EntryOK
<1>12. PollerInv'
  BY <1>5, <1>9, <1>11, PollerOfOthers, Zenon DEF CopollInv
<1>13. LiveInv'
  <2>1. \A r \in Ports : listeners'[r] \subseteq Pollers \X Nat
    <3>1. \A r \in Ports : listeners[r] \subseteq Pollers \X Nat
      BY Zenon DEF CopollInv, LiveInv
    <3>2. <<q, k>> \in Pollers \X Nat
      BY <1>3, Zenon
    <3> QED  BY <1>8, <3>1, <3>2, ZenonT(60)
  <2>2. ASSUME NEW r \in Ports, NEW u \in Pollers, NEW j \in Nat
        PROVE  <<u, j>> \in listeners'[r] <=> <<u, j>> \in listeners[r] \/ (u = q /\ j = k /\ r = p)
    BY ONLY <1>8
  <2>3. ~poller[q].entry[k].removed
    <3>1. k >= poller[q].at
      BY ONLY <1>1, <1>3
    <3>2. EntryOK(q, k)
      BY <1>3, <1>10, Zenon
    <3> QED  BY <1>2, <3>1, <3>2, Zenon DEF EntryOK
  <2>4. ASSUME NEW r \in Ports, NEW j \in Nat
        PROVE  Live(q, j, r)' <=> Live(q, j, r) \/ (j = k /\ r = p)
    <3>1. j < k + 1 <=> j < k \/ j = k
      BY ONLY <1>3, <2>4
    <3>2. "insert" # "wait" /\ "insert" # "remove"
      BY ONLY Zenon
    <3>3. Live(q, j, r) <=> /\ j \in DOMAIN poller[q].coports /\ poller[q].coports[j].port = r
                            /\ j < k /\ ~poller[q].entry[j].removed
      BY ONLY <1>1, <1>2, <3>2, Zenon DEF Live
    <3>4. Live(q, j, r)' <=> /\ j \in DOMAIN poller[q].coports /\ poller[q].coports[j].port = r
                             /\ j < k + 1 /\ ~poller[q].entry[j].removed
      BY ONLY <1>fields, <3>2, Zenon DEF Live
    <3> QED  BY ONLY <1>1, <1>3, <2>3, <3>1, <3>3, <3>4, Zenon
  <2>5. \A r \in Ports, j \in Nat : <<q, j>> \in listeners'[r] <=> Live(q, j, r)'
    BY <2>2, <2>4, Zenon DEF CopollInv, LiveInv
  <2> QED  BY <1>5, <2>1, <2>2, <2>5, LiveOfOthers, Zenon DEF CopollInv
<1>14. CoverInv'
  <2>1. \A r \in Ports : levent[r] \subseteq levent'[r]
    BY <1>8, Zenon
  <2>2. ASSUME NEW r \in Ports, NEW u \in Pollers, NEW j \in Nat
        PROVE  <<u, j>> \in listeners'[r] => <<u, j>> \in listeners[r] \/ (u = q /\ j = k /\ r = p)
    BY <1>8
  <2>3. ASSUME NEW r \in Ports, NEW j \in Nat, <<q, j>> \in listeners'[r]
        PROVE  poller'[q].coports[j].events \subseteq levent'[r]
    <3>1. CASE j = k /\ r = p
      BY <1>1, <1>7, <1>8, <3>1, Zenon DEF PollerGets
    <3>2. CASE <<q, j>> \in listeners[r]
      BY <1>7, <2>1, <3>2, Zenon DEF PollerGets, CopollInv, CoverInv
    <3> QED  BY <2>2, <2>3, <3>1, <3>2, Zenon
  <2> QED  BY <1>5, <2>1, <2>2, <2>3, CoverOfOthers, Zenon DEF CopollInv
<1>15. DoneInv'
  BY <1>2, <1>8, DoneLists, Zenon DEF CopollInv, info
<1>16. PortInv'
  BY <1>2, <1>3, <1>8, Zenon DEF CopollInv, PortInv, PortOK, info
<1> QED  BY <1>2, <1>12, <1>13, <1>14, <1>15, <1>16, NotifierPart, WorkerPart, Zenon DEF CopollInv,
            RemovedWithEvent

\* An entry that is marked removed.
Marked(D, entry, k, e) ==
    /\ e = [j \in D |-> e[j]] /\ \A j \in D : e[j] \in [removed : BOOLEAN, revent : SUBSET Bits]
    /\ e[k].removed /\ \A j \in D : j # k => e[j] = entry[j]
\* Marking an entry removed leaves the other entries and its revent.
LEMMA MarkRemoved ==
    ASSUME NEW D, NEW entry, NEW k \in D, entry = [j \in D |-> entry[j]],
           \A j \in D : entry[j] \in [removed : BOOLEAN, revent : SUBSET Bits],
           NEW e, e = [entry EXCEPT ![k].removed = TRUE]
    PROVE  Marked(D, entry, k, e)
<1>1. PICK x : x = [entry[k] EXCEPT !.removed = TRUE]
  BY Zenon
<1>2. e = [entry EXCEPT ![k] = x]
  BY <1>1, Zenon
<1>3. x \in [removed : BOOLEAN, revent : SUBSET Bits] /\ x.removed
  BY <1>1, Zenon
<1> QED  BY <1>2, <1>3, Zenon DEF Marked

\* A poller that has woken up takes its next entry off the list.
LEMMA PollRemoveStep ==
    ASSUME CopollInv, NEW q \in Pollers, PollRemove(q)
    PROVE  CopollInv'
<1>1. PICK k, p : k = poller[q].at /\ p = poller[q].coports[k].port
  BY Zenon
<1>2. /\ PollerOK(q) /\ poller[q].pc = "remove" /\ k <= Len(poller[q].coports)
      /\ IF poller[q].entry[k].removed THEN UNCHANGED listeners ELSE Unlink(p, <<q, k>>)
      /\ UNCHANGED <<info, levent, mutex, worker, notifier>>
      /\ IF poller[q].entry[k].removed /\ poller[q].entry[k].revent = {}
         THEN failed' = "revent != NOEVENT" ELSE UNCHANGED failed
  BY <1>1, Zenon DEF PollRemove, CopollInv, PollerInv
<1>3. k \in Nat \ {0} /\ k \in DOMAIN poller[q].coports /\ p \in Ports
  BY <1>1, <1>2, EntryPort, Zenon DEF CopollInv
<1>4. ASSUME NEW j \in DOMAIN poller[q].coports PROVE j \in Nat /\ EntryOK(q, j)
  <2>1. poller[q].pc \in Listening
    BY <1>2, Zenon DEF Listening
  <2> QED  BY <1>4, <2>1, Positions DEF CopollInv
<1>5. failed' = failed
  <2>1. EntryOK(q, k) /\ ~(k < poller[q].at)
    BY <1>1, <1>3, <1>4
  <2>2. poller[q].entry[k].removed => poller[q].entry[k].revent # {}
    BY <2>1, Zenon DEF EntryOK
  <2> QED  BY <1>2, <2>2, Zenon
<1>6. PICK entry, v : /\ entry = [poller[q].entry EXCEPT ![k].removed = TRUE]
                      /\ v = [poller[q] EXCEPT !.at = k + 1, !.entry = entry]
  BY Zenon
<1>7. PollerAt(q, v)
  <2>1. poller' = [poller EXCEPT ![q] = v]
    BY <1>1, <1>6, Zenon DEF PollRemove
  <2> QED  BY <2>1, PollerAtBy, Zenon DEF CopollInv
<1>8. v = PollerRec("remove", poller[q].coports, poller[q].timed, k + 1, entry, poller[q].woken)
  BY <1>2, <1>6, Zenon DEF PollerOK, PollerRec
<1>9. PollerGets(q, "remove", poller[q].coports, poller[q].timed, k + 1, entry, poller[q].woken)
  BY <1>7, <1>8, PollerFields, Zenon
<1>10. /\ entry = [j \in DOMAIN poller[q].coports |-> entry[j]]
       /\ \A j \in DOMAIN poller[q].coports : entry[j] \in [removed : BOOLEAN, revent : SUBSET Bits]
       /\ entry[k].removed /\ \A j \in DOMAIN poller[q].coports : j # k => entry[j] = poller[q].entry[j]
  <2>1. poller[q].pc \in Listening
    BY <1>2, Zenon DEF Listening
  <2>2. /\ poller[q].entry = [j \in DOMAIN poller[q].coports |-> poller[q].entry[j]]
        /\ \A j \in DOMAIN poller[q].coports :
             poller[q].entry[j] \in [removed : BOOLEAN, revent : SUBSET Bits]
    BY <1>2, <2>1, Zenon DEF PollerOK
  <2>3. PICK D, old : D = DOMAIN poller[q].coports /\ old = poller[q].entry
    BY Zenon
  <2>4. /\ k \in D /\ old = [j \in D |-> old[j]] /\ entry = [old EXCEPT ![k].removed = TRUE]
        /\ \A j \in D : old[j] \in [removed : BOOLEAN, revent : SUBSET Bits]
    BY <1>3, <1>6, <2>2, <2>3, Zenon
  <2>5. Marked(D, old, k, entry)
    BY <2>4, MarkRemoved, Zenon
  <2> QED  BY <2>3, <2>5, Zenon DEF Marked
<1>11. PollerOK(q)'
  <2>1. "remove" \in Listening /\ k + 1 \in Nat \ {0}
    BY <1>3 DEF Listening
  <2>2. PollerOK(q)
    BY <1>2, Zenon
  <2>3. poller[q].coports \in Seq(Polled)
    BY <2>2, Zenon DEF PollerOK
  <2> QED  BY <1>9, <1>10, <2>1, <2>3, Zenon DEF PollerOK, PollerGets
<1>12. \A j \in DOMAIN poller'[q].coports : EntryOK(q, j)'
  <2>1. ASSUME NEW j \in DOMAIN poller[q].coports
        PROVE  /\ j \in Nat /\ (j < k => entry[j].removed)
               /\ entry[j].removed => entry[j].revent # {} \/ j < k + 1
    <3>1. j \in Nat /\ EntryOK(q, j) /\ poller[q].pc = "remove" /\ poller[q].at = k
      BY <1>1, <1>2, <1>4, Zenon
    <3>a. ~(k < k) /\ k < k + 1 /\ (j < k => j < k + 1)
      BY ONLY <1>3, <3>1
    <3>2. CASE j = k
      BY <1>10, <3>1, <3>2, <3>a, Zenon
    <3>3. CASE j # k
      BY <1>10, <3>1, <3>3, <3>a, Zenon DEF EntryOK
    <3> QED  BY <3>2, <3>3, Zenon
  <2>2. ASSUME NEW j \in DOMAIN poller[q].coports PROVE j < k + 1 => entry[j].removed
    BY <1>3, <1>10, <2>1
  <2> QED  BY <1>9, <2>1, <2>2, Zenon DEF EntryOK, PollerGets
<1>13. PollerInv'
  BY <1>7, <1>11, <1>12, PollerOfOthers, Zenon DEF CopollInv
<1>14. ASSUME NEW r \in Ports, NEW j \in Nat PROVE Live(q, j, r)' <=> Live(q, j, r) /\ j # k
  BY <1>2, <1>3, <1>9, <1>10, <1>14, ZenonT(60) DEF Live, PollerGets
<1>15. /\ \A r \in Ports : listeners'[r] \subseteq listeners[r]
       /\ \A r \in Ports : listeners'[r] # listeners[r] => status[r] = "OPEN"
       /\ \A r \in Ports, u \in Pollers, j \in Nat :
            <<u, j>> \in listeners'[r] <=> <<u, j>> \in listeners[r] /\ ~(u = q /\ j = k)
       /\ listeners' = [r \in Ports |-> listeners'[r]]
  <2>1. ASSUME NEW r \in Ports, <<q, k>> \in listeners[r] PROVE r = p /\ ~poller[q].entry[k].removed
    BY <1>1, <1>3, <2>1 DEF CopollInv, LiveInv, Live
  <2>2. CASE poller[q].entry[k].removed
    BY <1>2, <2>1, <2>2, Zenon DEF CopollInv, PortInv
  <2>3. CASE ~poller[q].entry[k].removed
    <3>1. status[p] = "OPEN" /\ listeners' = [listeners EXCEPT ![p] = @ \ {<<q, k>>}]
      BY <1>2, <2>3, Zenon DEF Unlink
    <3>2. \A r \in Ports : listeners'[r] = IF r = p THEN listeners[p] \ {<<q, k>>} ELSE listeners[r]
      BY <1>3, <3>1, Zenon DEF CopollInv, PortInv
    <3> QED  BY <2>1, <3>1, <3>2, Zenon DEF CopollInv, PortInv
  <2> QED  BY <2>2, <2>3, Zenon
<1>16. LiveInv'
  <2>1. \A r \in Ports : listeners'[r] \subseteq Pollers \X Nat
    BY <1>15, Zenon DEF CopollInv, LiveInv
  <2>2. \A r \in Ports, j \in Nat : <<q, j>> \in listeners'[r] <=> Live(q, j, r)'
    BY <1>14, <1>15, Zenon DEF CopollInv, LiveInv
  <2> QED  BY <1>7, <1>15, <2>1, <2>2, LiveOfOthers, Zenon DEF CopollInv
<1>17. CoverInv'
  <2>1. \A r \in Ports, j \in Nat : <<q, j>> \in listeners'[r] => poller'[q].coports[j].events \subseteq levent'[r]
    BY <1>2, <1>9, <1>15, Zenon DEF CopollInv, CoverInv, PollerGets
  <2> QED  BY <1>2, <1>7, <1>15, <2>1, CoverOfOthers, Zenon DEF CopollInv
<1>18. DoneInv'
  BY <1>2, <1>15, DoneLists, Zenon DEF CopollInv, info
<1>19. PortInv'
  BY <1>2, <1>15, Zenon DEF CopollInv, PortInv, PortOK, info
<1> QED  BY <1>2, <1>5, <1>13, <1>16, <1>17, <1>18, <1>19, NotifierPart, WorkerPart,
            Zenon DEF CopollInv, RemovedWithEvent

\* A poll call returns, with all its entries removed; or an assertion fails.
LEMMA PollReturnStep ==
    ASSUME CopollInv, NEW q \in Pollers, PollReturn(q)
    PROVE  CopollInv'
<1>1. /\ poller[q].pc = "remove" /\ poller[q].at > Len(poller[q].coports) /\ mutex' = None
      /\ UNCHANGED <<info, listeners, levent, worker, notifier>> /\ PollerOK(q)
      /\ \/ poller' = [poller EXCEPT ![q] = IdlePoller] /\ UNCHANGED failed
         \/ failed' = "matched != 0 || timeout > 0" /\ UNCHANGED poller
  BY Zenon DEF PollReturn, release_copoll_mutex, CopollInv, PollerInv
<1>2. ASSUME NEW j \in DOMAIN poller[q].coports PROVE poller[q].entry[j].removed
  <2>0. poller[q].pc \in Listening
    BY <1>1, Zenon DEF Listening
  <2>1. EntryOK(q, j) /\ j \in Nat /\ j <= Len(poller[q].coports) /\ Len(poller[q].coports) \in Nat
    BY <1>2, <2>0, Positions DEF CopollInv
  <2>2. poller[q].at \in Nat
    BY <1>1, Zenon DEF PollerOK
  <2>4. poller[q].at > Len(poller[q].coports) /\ poller[q].pc = "remove"
    BY <1>1, Zenon
  <2>3. j < poller[q].at /\ poller[q].pc = "remove"
    BY <2>1, <2>2, <2>4
  <2> QED  BY <2>1, <2>3, Zenon DEF EntryOK
<1>3. \A p \in Ports, k \in Nat : ~Live(q, k, p)
  BY <1>2, Zenon DEF Live
<1>4. CASE poller' = [poller EXCEPT ![q] = IdlePoller] /\ UNCHANGED failed
  BY <1>1, <1>3, <1>4, PollOver, Zenon
<1>5. CASE failed' = "matched != 0 || timeout > 0" /\ UNCHANGED poller
  <2>1. PortInv'
    BY <1>1, Zenon DEF CopollInv, PortInv, PortOK, info
  <2>2. DoneInv'
    BY <1>1, DoneLists, Zenon DEF CopollInv, info
  <2> QED  BY <1>1, <1>5, <2>1, <2>2, PollerPart, NotifierPart, WorkerPart, Zenon DEF CopollInv,
              RemovedWithEvent
<1> QED  BY <1>1, <1>4, <1>5, Zenon

-----------------------------------------------------------------------------
\* NotifierStart, NotifierWake and NotifierSleep leave the queue as it is.
LEMMA NotifierMutexStep ==
    ASSUME CopollInv, NEW n \in Notifiers, NotifierStart(n) \/ NotifierWake(n) \/ NotifierSleep(n)
    PROVE  CopollInv'
<1>1. NotifierOK(n) /\ UNCHANGED <<info, listeners, levent, worker, poller, failed>>
      /\ mutex' \in Pollers \cup Notifiers \cup {None}
  BY Zenon DEF CopollInv, PortInv, NotifierInv, NotifierStart, NotifierWake, NotifierSleep
<1>2. PICK v, pc, signalled, i, n_events :
        /\ notifier' = [notifier EXCEPT ![n] = v]
        /\ v = NotifierRec(pc, signalled, i, n_events, notifier[n].queue)
        /\ i \in Nat \ {0} /\ n_events \in 0 .. Len(notifier[n].queue)
  <2>1. notifier[n].queue \in Seq(Ports \cup {NULL}) /\ Len(notifier[n].queue) \in Nat
    BY <1>1 DEF NotifierOK
  <2>2. CASE NotifierStart(n)
    <3>1. PICK v : v = [notifier[n] EXCEPT !.pc = "wait"]
      BY Zenon
    <3>2. notifier' = [notifier EXCEPT ![n] = v]
      BY <2>2, <3>1, Zenon DEF NotifierStart
    <3>3. v = NotifierRec("wait", notifier[n].signalled, notifier[n].i, notifier[n].n_events, notifier[n].queue)
      BY <1>1, <3>1, Zenon DEF NotifierOK, NotifierRec
    <3> QED  BY <1>1, <3>2, <3>3, Zenon DEF NotifierOK
  <2>3. CASE NotifierWake(n)
    <3>1. PICK v : v = [notifier[n] EXCEPT !.pc = "deliver", !.signalled = FALSE, !.i = 1,
                                           !.n_events = Len(notifier[n].queue)]
      BY Zenon
    <3>2. notifier' = [notifier EXCEPT ![n] = v]
      BY <2>3, <3>1, Zenon DEF NotifierWake
    <3>3. v = NotifierRec("deliver", FALSE, 1, Len(notifier[n].queue), notifier[n].queue)
      BY <1>1, <3>1, Zenon DEF NotifierOK, NotifierRec
    <3>4. Len(notifier[n].queue) \in 0 .. Len(notifier[n].queue) /\ 1 \in Nat \ {0}
      BY <2>1
    <3> QED  BY <3>2, <3>3, <3>4, Zenon
  <2>4. CASE NotifierSleep(n)
    <3>1. PICK v : v = [notifier[n] EXCEPT !.pc = "wait", !.i = 1, !.n_events = 0]
      BY Zenon
    <3>2. notifier' = [notifier EXCEPT ![n] = v]
      BY <2>4, <3>1, Zenon DEF NotifierSleep
    <3>3. v = NotifierRec("wait", notifier[n].signalled, 1, 0, notifier[n].queue)
      BY <1>1, <3>1, Zenon DEF NotifierOK, NotifierRec
    <3>4. 0 \in 0 .. Len(notifier[n].queue) /\ 1 \in Nat \ {0}
      BY <2>1
    <3> QED  BY <3>2, <3>3, <3>4, Zenon
  <2> QED  BY <2>2, <2>3, <2>4, Zenon
<1>3. NotifierAt(n, v)
  BY <1>2, Zenon DEF NotifierAt, CopollInv, NotifierInv
<1>4. NotifierInv'
  BY <1>1, <1>2, <1>3, NotifierOfOthers DEF NotifierOK, CopollInv
<1>5. \A m \in Notifiers : notifier'[m].queue = notifier[m].queue
  BY <1>2, <1>3, Zenon DEF NotifierAt, NotifierRec
<1>6. \A p \in Ports : Queued(p)' = Queued(p)
  BY <1>5, NotifierAssumption, Zenon DEF Queued
<1>7. \A p \in Ports : Due(p)' = Due(p) /\ \A u \in Workers : Owes(u, p) => Owes(u, p)'
  BY <1>1, Zenon DEF Due, Owes
<1>8. DoneInv'
  BY <1>1, <1>6, <1>7, DoneKept, Zenon DEF CopollInv, info
<1>9. PortInv'
  BY <1>1, Zenon DEF CopollInv, PortInv, PortOK, info
<1> QED  BY <1>1, <1>4, <1>8, <1>9, PollerPart, WorkerPart, Zenon DEF CopollInv, RemovedWithEvent

\* An entry of a queue is taken: the others stay.
Taken(s, k, r) == \A p : Has(s, p) /\ (p # s[k] \/ p = NULL) => Has(r, p)
\* Clearing an entry of the queue.
LEMMA EntryTaken ==
    ASSUME NEW S, NULL \in S, NEW s \in Seq(S), NEW k \in 1 .. Len(s), NEW r, r = [s EXCEPT ![k] = NULL]
    PROVE  r \in Seq(S) /\ Len(r) = Len(s) /\ Taken(s, k, r)
<1>1. r \in Seq(S) /\ Len(r) = Len(s) /\ DOMAIN s = 1 .. Len(s) /\ DOMAIN r = 1 .. Len(s)
  OBVIOUS
<1>2. r[k] = NULL /\ \A j \in 1 .. Len(s) : j # k => r[j] = s[j]
  OBVIOUS
<1>3. Taken(s, k, r)
  BY <1>1, <1>2, Zenon DEF Taken, Has
<1> QED  BY <1>1, <1>3, Zenon

\* What a notifier does to its queue: entry k is taken.
LEMMA NotifierTakes ==
    ASSUME CopollInv, NEW n \in Notifiers, NotifierStep(n), NEW k, NEW p,
           k = notifier[n].i, p = notifier[n].queue[k]
    PROVE  /\ NotifierInv' /\ p \in Ports \cup {NULL}
           /\ \A r \in Ports : Queued(r) /\ (r # p \/ r = NULL) => Queued(r)'
<1>1. NotifierOK(n) /\ k <= notifier[n].n_events
  BY Zenon DEF CopollInv, NotifierInv, NotifierStep
<1>2. PICK S, s : S = Ports \cup {NULL} /\ s = notifier[n].queue
  BY Zenon
<1>3. NULL \in S /\ s \in Seq(S) /\ k \in 1 .. Len(s) /\ p = s[k]
  BY <1>1, <1>2 DEF NotifierOK
<1>4. PICK queue, v : queue = [s EXCEPT ![k] = NULL] /\ v = [notifier[n] EXCEPT !.i = k + 1, !.queue = queue]
  BY Zenon
<1>5. queue \in Seq(S) /\ Len(queue) = Len(s) /\ Taken(s, k, queue)
  BY <1>3, <1>4, EntryTaken, Zenon
<1>6. notifier' = [notifier EXCEPT ![n] = v]
  BY <1>2, <1>4, Zenon DEF NotifierStep
<1>7. v = NotifierRec(notifier[n].pc, notifier[n].signalled, k + 1, notifier[n].n_events, queue)
  BY <1>1, <1>4, Zenon DEF NotifierOK, NotifierRec
<1>8. NotifierAt(n, v)
  BY <1>6, Zenon DEF NotifierAt, CopollInv, NotifierInv
<1>9. NotifierInv'
  <2>1. /\ k + 1 \in Nat \ {0} /\ Len(queue) <= COPORT_EVENTQUEUE_LEN
        /\ notifier[n].n_events \in 0 .. Len(queue) /\ queue \in Seq(Ports \cup {NULL})
    BY <1>1, <1>2, <1>3, <1>5 DEF NotifierOK
  <2> QED  BY <1>7, <1>8, <2>1, NotifierOfOthers DEF CopollInv
<1>10. /\ notifier'[n].queue = queue /\ \A m \in Notifiers : m # n => notifier'[m] = notifier[m]
  BY <1>7, <1>8 DEF NotifierAt, NotifierRec
<1>11. ASSUME NEW r \in Ports, Queued(r), r # p \/ r = NULL PROVE Queued(r)'
  <2>1. CASE NotifierOf[r] = n
    BY <1>2, <1>3, <1>5, <1>10, <1>11, <2>1, Zenon DEF Queued, Taken
  <2>2. CASE NotifierOf[r] # n
    BY <1>10, <1>11, <2>2, NotifierAssumption, Zenon DEF Queued
  <2> QED  BY <2>1, <2>2, Zenon
<1>12. p \in S
  BY <1>3
<1> QED  BY <1>2, <1>9, <1>11, <1>12, Zenon

\* What a delivery on p does to the entries of a poller.
Delivered(q, p) ==
    /\ poller'[q].pc = poller[q].pc /\ poller'[q].coports = poller[q].coports
    /\ poller'[q].at = poller[q].at
    /\ poller'[q] = [pc |-> poller'[q].pc, coports |-> poller'[q].coports, timed |-> poller'[q].timed,
                     at |-> poller'[q].at, entry |-> poller'[q].entry, woken |-> poller'[q].woken]
    /\ poller'[q].entry = [k \in DOMAIN poller[q].entry |->
          IF <<q, k>> \in Interested(p)
          THEN [removed |-> TRUE, revent |-> poller[q].coports[k].events \cap event[p]]
          ELSE poller[q].entry[k]]

\* What a delivery does to pollers, lists and port.
LEMMA DeliverEffect ==
    ASSUME CopollInv, NEW n, NEW p \in Ports, Deliver(n, p), event[p] \cap levent[p] # {}
    PROVE  /\ \A q \in Pollers : Delivered(q, p)
           /\ poller' = [q \in Pollers |-> poller'[q]] /\ listeners' = [r \in Ports |-> listeners'[r]]
           /\ levent' = [r \in Ports |-> levent'[r]]
           /\ \E s \in {"OPEN", "CLOSED"} : status' = [status EXCEPT ![p] = s]
           /\ listeners'[p] = listeners[p] \ Interested(p) /\ levent'[p] = levent[p] \ event[p]
           /\ \A r \in Ports : r # p => listeners'[r] = listeners[r] /\ levent'[r] = levent[r]
           /\ failed' = failed
<1>1. /\ \E s \in {"OPEN", "CLOSED"} : status' = [status EXCEPT ![p] = s]
      /\ listeners' = [listeners EXCEPT ![p] = @ \ Interested(p)]
      /\ levent' = [levent EXCEPT ![p] = @ \ event[p]] /\ failed' = failed
  BY Zenon DEF Deliver
<1>2. poller' = [q \in Pollers |->
                   [poller[q] EXCEPT
                      !.woken = @ \/ \E e \in Interested(p) : e[1] = q,
                      !.entry = [k \in DOMAIN @ |->
                          IF <<q, k>> \in Interested(p)
                          THEN [removed |-> TRUE, revent |-> poller[q].coports[k].events \cap event[p]]
                          ELSE @[k]]]]
  BY Zenon DEF Deliver
<1>3. ASSUME NEW q \in Pollers PROVE Delivered(q, p)
  <2>1. PollerOK(q)
    BY Zenon DEF CopollInv, PollerInv
  <2>2. PICK entry, woken :
          /\ entry = [k \in DOMAIN poller[q].entry |->
               IF <<q, k>> \in Interested(p)
               THEN [removed |-> TRUE, revent |-> poller[q].coports[k].events \cap event[p]]
               ELSE poller[q].entry[k]]
          /\ woken = (poller[q].woken \/ \E e \in Interested(p) : e[1] = q)
    BY Zenon
  <2>3. poller'[q] = [poller[q] EXCEPT !.woken = woken, !.entry = entry]
    BY <1>2, <2>2, Zenon
  <2>4. poller'[q] = [pc |-> poller[q].pc, coports |-> poller[q].coports, timed |-> poller[q].timed,
                      at |-> poller[q].at, entry |-> entry, woken |-> woken]
    BY <2>1, <2>3, Zenon DEF PollerOK
  <2>5. poller'[q].entry = entry
    BY <2>4
  <2>6. /\ poller'[q].pc = poller[q].pc /\ poller'[q].coports = poller[q].coports
        /\ poller'[q].at = poller[q].at
        /\ poller'[q] = [pc |-> poller'[q].pc, coports |-> poller'[q].coports, timed |-> poller'[q].timed,
                         at |-> poller'[q].at, entry |-> poller'[q].entry, woken |-> poller'[q].woken]
    BY <2>4
  <2> QED  BY <2>2, <2>5, <2>6, Zenon DEF Delivered
<1>4. poller' = [q \in Pollers |-> poller'[q]]
  BY <1>2, Zenon
<1>5. /\ listeners' = [r \in Ports |-> listeners'[r]] /\ levent' = [r \in Ports |-> levent'[r]]
      /\ listeners'[p] = listeners[p] \ Interested(p) /\ levent'[p] = levent[p] \ event[p]
      /\ \A r \in Ports : r # p => listeners'[r] = listeners[r] /\ levent'[r] = levent[r]
  BY <1>1, Zenon DEF CopollInv, PortInv
<1> QED  BY <1>1, <1>3, <1>4, <1>5, Zenon

\* An entry before and after a delivery on p: it is removed with the events it
\* waits for, and only if it is on the list of p.
LEMMA DeliverEntry ==
    ASSUME CopollInv, NEW p \in Ports, NEW q \in Pollers, Delivered(q, p),
           poller[q].pc \in Listening, NEW k \in DOMAIN poller[q].coports
    PROVE  /\ poller'[q].entry[k] \in [removed : BOOLEAN, revent : SUBSET Bits]
           /\ <<q, k>> \in Interested(p) =>
                Live(q, k, p) /\ poller'[q].entry[k].removed /\ poller'[q].entry[k].revent # {}
           /\ <<q, k>> \notin Interested(p) => poller'[q].entry[k] = poller[q].entry[k]
<1>1. /\ PollerOK(q) /\ k \in Nat /\ DOMAIN poller[q].entry = DOMAIN poller[q].coports
      /\ poller[q].entry[k] \in [removed : BOOLEAN, revent : SUBSET Bits]
  BY Positions DEF CopollInv, PollerOK
<1>2. CASE <<q, k>> \in Interested(p)
  <2>1. /\ <<q, k>> \in listeners[p] /\ poller[q].coports[k].events \cap event[p] # {}
    BY <1>2, Zenon DEF Interested
  <2>2. event[p] \subseteq Bits /\ Live(q, k, p)
    BY <1>1, <2>1, Zenon DEF CopollInv, PortInv, PortOK, LiveInv
  <2>3. poller'[q].entry[k] = [removed |-> TRUE, revent |-> poller[q].coports[k].events \cap event[p]]
    BY <1>1, <1>2, Zenon DEF Delivered
  <2> QED  BY <1>2, <2>1, <2>2, <2>3
<1>3. CASE <<q, k>> \notin Interested(p)
  BY <1>1, <1>3, Zenon DEF Delivered
<1> QED  BY <1>2, <1>3, Zenon

\* The pollers after a delivery.
LEMMA DeliverPollers ==
    ASSUME CopollInv, NEW p \in Ports, \A q \in Pollers : Delivered(q, p),
           poller' = [q \in Pollers |-> poller'[q]]
    PROVE  PollerInv'
<1>1. ASSUME NEW q \in Pollers PROVE PollerOK(q)'
  <2>1. Delivered(q, p) /\ PollerOK(q)
    BY Zenon DEF CopollInv, PollerInv
  <2>2. ASSUME poller[q].pc \in Listening
        PROVE  /\ DOMAIN poller[q].entry = DOMAIN poller[q].coports
               /\ \A k \in DOMAIN poller[q].coports :
                    poller'[q].entry[k] \in [removed : BOOLEAN, revent : SUBSET Bits]
    BY <2>1, <2>2, DeliverEntry, Zenon DEF PollerOK
  <2>3. poller'[q].entry = [k \in DOMAIN poller[q].entry |-> poller'[q].entry[k]]
    BY <2>1, Zenon DEF Delivered
  <2>4. poller[q].pc \in Listening =>
          poller'[q].entry = [k \in DOMAIN poller[q].coports |-> poller'[q].entry[k]]
    BY <2>2, <2>3, Zenon
  <2> QED  BY <2>1, <2>2, <2>4, Zenon DEF PollerOK, Delivered
<1>2. ASSUME NEW q \in Pollers, poller'[q].pc \in Listening, NEW k \in DOMAIN poller'[q].coports
      PROVE  EntryOK(q, k)'
  <2>1. /\ Delivered(q, p) /\ poller'[q].pc = poller[q].pc /\ poller'[q].at = poller[q].at
        /\ poller[q].pc \in Listening /\ k \in DOMAIN poller[q].coports
    BY <1>2, Zenon DEF Delivered
  <2>0. PollerOK(q) /\ EntryOK(q, k) /\ k \in Nat
    BY <2>1, Positions DEF CopollInv
  <2>2. EntryOK(q, k) /\ k \in Nat /\ poller[q].at \in Nat
    BY <2>0, Zenon DEF PollerOK
  <2>3. CASE <<q, k>> \in Interested(p)
    <3>1. Live(q, k, p) /\ poller'[q].entry[k].removed /\ poller'[q].entry[k].revent # {}
      BY <2>1, <2>3, DeliverEntry, Zenon
    <3>2. ~(poller[q].pc = "lock" \/ (poller[q].pc = "insert" /\ k >= poller[q].at))
      BY <2>2, <3>1 DEF Live
    <3> QED  BY <2>1, <3>1, <3>2, Zenon DEF EntryOK
  <2>4. CASE <<q, k>> \notin Interested(p)
    <3>1. poller'[q].entry[k] = poller[q].entry[k]
      BY <2>1, <2>4, DeliverEntry, Zenon
    <3> QED  BY <2>1, <2>2, <3>1, Zenon DEF EntryOK
  <2> QED  BY <2>3, <2>4, Zenon
<1> QED  BY <1>1, <1>2, Zenon DEF PollerInv

\* The lists after a delivery.
LEMMA DeliverLists ==
    ASSUME CopollInv, NEW p \in Ports, \A q \in Pollers : Delivered(q, p),
           listeners'[p] = listeners[p] \ Interested(p), levent'[p] = levent[p] \ event[p],
           \A r \in Ports : r # p => listeners'[r] = listeners[r] /\ levent'[r] = levent[r]
    PROVE  LiveInv' /\ CoverInv'
<1>1. \A r \in Ports : listeners'[r] \subseteq listeners[r] /\ listeners'[r] \subseteq Pollers \X Nat
  BY Zenon DEF CopollInv, LiveInv
<1>2. ASSUME NEW r \in Ports, NEW q \in Pollers, NEW k \in Nat
      PROVE  <<q, k>> \in listeners'[r] <=> <<q, k>> \in listeners[r] /\ <<q, k>> \notin Interested(p)
  <2>1. CASE r = p
    BY <2>1, Zenon
  <2>2. CASE r # p
    <3>1. <<q, k>> \in Interested(p) => Live(q, k, p)
      BY Zenon DEF Interested, CopollInv, LiveInv
    <3>2. <<q, k>> \in listeners[r] => Live(q, k, r)
      BY Zenon DEF CopollInv, LiveInv
    <3>3. ~(Live(q, k, p) /\ Live(q, k, r))
      BY <2>2, Zenon DEF Live
    <3> QED  BY <2>2, <3>1, <3>2, <3>3, Zenon
  <2> QED  BY <2>1, <2>2, Zenon
<1>3. ASSUME NEW r \in Ports, NEW q \in Pollers, NEW k \in Nat
      PROVE  Live(q, k, r)' <=> Live(q, k, r) /\ <<q, k>> \notin Interested(p)
  <2>1. Delivered(q, p)
    BY Zenon
  <2>2. CASE poller[q].pc \in Listening /\ k \in DOMAIN poller[q].coports
    <3>1. /\ <<q, k>> \in Interested(p) => poller'[q].entry[k].removed
          /\ <<q, k>> \notin Interested(p) => poller'[q].entry[k] = poller[q].entry[k]
      BY <2>1, <2>2, DeliverEntry, Zenon
    <3>2. /\ poller'[q].pc = poller[q].pc /\ poller'[q].coports = poller[q].coports
          /\ poller'[q].at = poller[q].at
      BY <2>1, Zenon DEF Delivered
    <3> QED  BY <3>1, <3>2, Zenon DEF Live
  <2>3. CASE ~(poller[q].pc \in Listening /\ k \in DOMAIN poller[q].coports)
    BY <2>1, <2>3, Zenon DEF Live, Listening, Delivered
  <2> QED  BY <2>2, <2>3, Zenon
<1>4. LiveInv'
  BY <1>1, <1>2, <1>3, Zenon DEF CopollInv, LiveInv
<1>5. ASSUME NEW r \in Ports, NEW q \in Pollers, NEW k \in Nat, <<q, k>> \in listeners'[r]
      PROVE  poller'[q].coports[k].events \subseteq levent'[r]
  <2>1. /\ <<q, k>> \in listeners[r] /\ poller'[q].coports = poller[q].coports
        /\ poller[q].coports[k].events \subseteq levent[r]
    BY <1>1, <1>5, Zenon DEF Delivered, CopollInv, CoverInv
  <2>2. CASE r # p
    BY <2>1, <2>2, Zenon
  <2>3. CASE r = p
    <3>1. poller[q].coports[k].events \cap event[p] = {}
      BY <1>2, <1>5, <2>1, <2>3, Zenon DEF Interested
    <3> QED  BY <2>1, <2>3, <3>1, Zenon
  <2> QED  BY <2>2, <2>3, Zenon
<1> QED  BY <1>4, <1>5, Zenon DEF CoverInv

\* process_coport_event.
LEMMA NotifierStepStep ==
    ASSUME CopollInv, NEW n \in Notifiers, NotifierStep(n)
    PROVE  CopollInv'
<1>1. PICK k, p : k = notifier[n].i /\ p = notifier[n].queue[k]
  BY Zenon
<1>2. /\ NotifierInv' /\ p \in Ports \cup {NULL}
      /\ \A r \in Ports : Queued(r) /\ (r # p \/ r = NULL) => Queued(r)'
  BY <1>1, NotifierTakes, Zenon
<1>3. /\ UNCHANGED <<length, event, mutex, worker>>
      /\ IF p = NULL \/ listeners[p] = {}
         THEN UNCHANGED <<status, listeners, levent, poller, failed>> ELSE Deliver(n, p)
  BY <1>1, Zenon DEF NotifierStep
<1>4. ASSUME UNCHANGED <<status, listeners, levent, poller>>, failed' # "revent != NOEVENT",
             p = NULL \/ ~Due(p) \/ status[p] # "DONE"
      PROVE  CopollInv'
  <2>1. PortInv'
    BY <1>3, <1>4, Zenon DEF CopollInv, PortInv, PortOK
  <2>2. \A r \in Ports : Due(r)' = Due(r) /\ \A u \in Workers : Owes(u, r) => Owes(u, r)'
    BY <1>3, <1>4, Zenon DEF Due, Owes
  <2>3. DoneInv'
    BY <1>2, <1>3, <1>4, <2>2, DoneKept, Zenon DEF CopollInv
  <2> QED  BY <1>2, <1>3, <1>4, <2>1, <2>3, PollerPart, WorkerPart, Zenon DEF CopollInv, RemovedWithEvent
<1>5. CASE p = NULL \/ listeners[p] = {}
  BY <1>3, <1>4, <1>5, Zenon DEF Due, CopollInv, RemovedWithEvent
<1>6. CASE ~(p = NULL \/ listeners[p] = {}) /\ event[p] \cap levent[p] = {}
  <2>1. /\ UNCHANGED <<status, listeners, levent, poller>>
        /\ failed' = "(coport_event & levent) != NOEVENT"
    BY <1>3, <1>6, Zenon DEF Deliver
  <2>2. p \in Ports /\ (status[p] = "DONE" => ~Due(p))
    BY <1>2, <1>6, Zenon DEF CopollInv, DoneInv, Owed, Due
  <2> QED  BY <1>4, <2>1, <2>2, Zenon
<1>7. CASE ~(p = NULL \/ listeners[p] = {}) /\ event[p] \cap levent[p] # {}
  <2>1. p \in Ports /\ Deliver(n, p)
    BY <1>2, <1>3, <1>7, Zenon
  <2>2. /\ \A q \in Pollers : Delivered(q, p)
        /\ poller' = [q \in Pollers |-> poller'[q]] /\ listeners' = [r \in Ports |-> listeners'[r]]
        /\ levent' = [r \in Ports |-> levent'[r]]
        /\ listeners'[p] = listeners[p] \ Interested(p) /\ levent'[p] = levent[p] \ event[p]
        /\ \A r \in Ports : r # p => listeners'[r] = listeners[r] /\ levent'[r] = levent[r]
        /\ failed' = failed
    BY <1>7, <2>1, DeliverEffect, Zenon
  <2>3. PICK s \in {"OPEN", "CLOSED"} : status' = [status EXCEPT ![p] = s]
    BY <1>7, <2>1, DeliverEffect, Zenon
  <2>4. /\ status' = [r \in Ports |-> status'[r]] /\ status'[p] = s
        /\ \A r \in Ports : r # p => status'[r] = status[r]
    BY <2>1, <2>3, Zenon DEF CopollInv, PortInv
  <2>5. PollerInv'
    BY <2>1, <2>2, DeliverPollers, Zenon
  <2>6. LiveInv' /\ CoverInv'
    BY <2>1, <2>2, DeliverLists, Zenon
  <2>7. PortInv'
    BY <1>3, <2>1, <2>2, <2>4, Zenon DEF CopollInv, PortInv, PortOK, Status
  <2>8. \A r \in Ports : r # p => (Due(r) => Due(r)') /\ \A u \in Workers : Owes(u, r) => Owes(u, r)'
    BY <1>3, <2>2, Zenon DEF Due, Owes
  <2>9. DoneInv'
    BY <1>2, <1>3, <2>4, <2>8, DoneKept, Zenon DEF CopollInv
  <2> QED  BY <1>2, <1>3, <2>2, <2>5, <2>6, <2>7, <2>9, WorkerPart, Zenon DEF CopollInv, RemovedWithEvent
<1> QED  BY <1>5, <1>6, <1>7, Zenon

-----------------------------------------------------------------------------
\* It holds at first.
LEMMA CopollInit == ASSUME Init PROVE CopollInv
<1>1. PortInv
  <2>1. 0 \in Lengths
    BY SizeAssumption DEF Lengths
  <2> QED  BY <2>1, Zenon DEF Init, PortInv, PortOK, Status, Bits, COPOLL_INIT_EVENTS, init_copoll_lock
<1>2. WorkerInv
  <2>1. worker = [t \in Workers |-> IdleWorker]
    BY Zenon DEF Init
  <2>2. \A t \in Workers : worker[t] = [pc |-> "idle", port |-> None, closing |-> FALSE, bit |-> None]
    BY <2>1, Zenon DEF IdleWorker
  <2>3. worker = [t \in Workers |-> worker[t]]
    BY <2>1, Zenon
  <2> QED  BY <2>2, <2>3 DEF WorkerInv, WorkerOK, None
<1>3. /\ poller = [q \in Pollers |-> poller[q]]
      /\ \A q \in Pollers : poller[q] = [pc |-> "idle", coports |-> << >>, timed |-> FALSE, at |-> 1,
                                         entry |-> << >>, woken |-> FALSE]
  BY Zenon DEF Init, IdlePoller
<1>4. PollerInv
  <2>1. << >> \in Seq(Polled)
    OBVIOUS
  <2> QED  BY <1>3, <2>1 DEF PollerInv, PollerOK, Listening
<1>5. NotifierInv
  <2>1. /\ notifier = [n \in Notifiers |-> notifier[n]]
        /\ \A n \in Notifiers : notifier[n] = [pc |-> "start", signalled |-> FALSE, i |-> 1,
                                               n_events |-> 0, queue |-> << >>]
    BY Zenon DEF Init, setup_copoll_notifiers
  <2>2. << >> \in Seq(Ports \cup {NULL}) /\ Len(<< >>) = 0
    OBVIOUS
  <2>3. ASSUME NEW n \in Notifiers PROVE NotifierOK(n)
    <3>1. notifier[n] = [pc |-> "start", signalled |-> FALSE, i |-> 1, n_events |-> 0, queue |-> << >>]
      BY <2>1, Zenon
    <3> QED  BY <3>1, <2>2, QueueAssumption DEF NotifierOK
  <2> QED  BY <2>1, <2>3, Zenon DEF NotifierInv
<1>6. LiveInv /\ CoverInv
  <2>1. \A p \in Ports : listeners[p] = {}
    BY Zenon DEF Init
  <2> QED  BY <1>3, <2>1 DEF LiveInv, CoverInv, Live
<1>7. DoneInv /\ RemovedWithEvent
  BY Zenon DEF Init, DoneInv, RemovedWithEvent, None
<1> QED  BY <1>1, <1>2, <1>4, <1>5, <1>6, <1>7, Zenon DEF CopollInv

\* Every step keeps it.
LEMMA CopollStep == ASSUME CopollInv, [Next]_vars PROVE CopollInv'
<1>1. CASE UNCHANGED vars
  <2>1. PortInv'
    BY <1>1, Zenon DEF vars, info, CopollInv, PortInv, PortOK
  <2>2. DoneInv'
    BY <1>1, DoneLists, Zenon DEF vars, info, CopollInv
  <2> QED  BY <1>1, <2>1, <2>2, PollerPart, NotifierPart, WorkerPart, Zenon
           DEF vars, info, CopollInv, RemovedWithEvent
<1>2. ASSUME NEW t \in Workers, WorkerCall(t) \/ WorkerRecv(t) \/ WorkerStep(t) PROVE CopollInv'
  BY <1>2, SendStep, SendAgainStep, CloseStep, RecvLooks, RecvStep, NotifyCheckStep, NotifyCasStep,
     NotifyPostStep, Zenon
     DEF WorkerCall, WorkerRecv, WorkerStep
<1>3. ASSUME NEW q \in Pollers, cocarrier_poll(q) \/ PollerStep(q) PROVE CopollInv'
  BY <1>3, PollFastStep, PollCallStep, PollMutexStep, PollInsertStep, PollRemoveStep, PollReturnStep, Zenon
     DEF PollerStep
<1>4. ASSUME NEW n \in Notifiers, NotifierRun(n) PROVE CopollInv'
  BY <1>4, NotifierMutexStep, NotifierStepStep, Zenon DEF NotifierRun
<1> QED  BY <1>1, <1>2, <1>3, <1>4, Zenon DEF Next

\* The inductive invariant of coport polling.
LEMMA CopollInvariant == Spec => []CopollInv
  BY CopollInit, CopollStep, PTL DEF Spec

\* The status word, the ring length, the masks and the lists of every port stay in
\* their ranges, and so does next_event (copoll_deliver.c 124-135).
THEOREM CopollTypes == Spec => []TypeOK
<1>1. CopollInv => TypeOK
  BY Zenon DEF CopollInv, PortInv, PortOK, LiveInv, NotifierInv, NotifierOK, TypeOK
<1> QED  BY <1>1, CopollInvariant, PTL

\* levent covers every listener of its port, so copoll_notify never skips one that
\* waits for the event (copoll_utils.c 119, copoll.c 95-111, copoll_deliver.c 81-94).
THEOREM LeventCovers == Spec => []LeventCoversListeners
<1>1. CopollInv => LeventCoversListeners
  <2> SUFFICES ASSUME CopollInv, NEW p \in Ports, NEW e \in listeners[p]
               PROVE  poller[e[1]].coports[e[2]].events \subseteq levent[p]
    BY Zenon DEF LeventCoversListeners
  <2>1. PICK q \in Pollers, k \in Nat : e = <<q, k>>
    BY DEF CopollInv, LiveInv
  <2> QED  BY <2>1, Zenon DEF CopollInv, CoverInv
<1> QED  BY <1>1, CopollInvariant, PTL

\* A port's list holds the entries of polls in progress that still wait for it, and
\* nothing else: no freed listener, and none that was dropped (copoll.c 95-167).
THEOREM ListsAreLive == Spec => []ListenersAreLive
<1>1. CopollInv => ListenersAreLive
  <2> SUFFICES ASSUME CopollInv, NEW p \in Ports
               PROVE  listeners[p] = UNION {
                        {<<q, k>> : k \in {j \in DOMAIN poller[q].coports :
                            /\ poller[q].coports[j].port = p
                            /\ \/ poller[q].pc = "insert" /\ j < poller[q].at
                               \/ poller[q].pc \in {"wait", "remove"}
                            /\ ~poller[q].entry[j].removed}} : q \in Pollers}
    BY Zenon DEF ListenersAreLive
  <2>1. \A q \in Pollers : {j \in DOMAIN poller[q].coports :
                            /\ poller[q].coports[j].port = p
                            /\ \/ poller[q].pc = "insert" /\ j < poller[q].at
                               \/ poller[q].pc \in {"wait", "remove"}
                            /\ ~poller[q].entry[j].removed} = {j \in Nat : Live(q, j, p)}
    BY Positions DEF CopollInv, Live
  <2>2. \A e : e \in listeners[p] <=> \E q \in Pollers : \E k \in {j \in Nat : Live(q, j, p)} : e = <<q, k>>
    BY DEF CopollInv, LiveInv
  <2> QED  BY <2>1, <2>2
<1> QED  BY <1>1, CopollInvariant, PTL

\* A port is never left DONE with nobody to lift it (copoll_utils.c 110-133,
\* copoll_deliver.c 52-96).
THEOREM DoneOwed == Spec => []DoneIsOwed
<1>1. CopollInv => DoneIsOwed
  BY Zenon DEF CopollInv, DoneInv, Owed, Owes, Due, Queued, Has, DoneIsOwed
<1> QED  BY <1>1, CopollInvariant, PTL

\* An entry that a notifier has removed has an event: the assertion of copoll.c 145
\* never fails.
THEOREM RemovedHasEvent == Spec => []RemovedWithEvent
<1>1. CopollInv => RemovedWithEvent
  BY Zenon DEF CopollInv
<1> QED  BY <1>1, CopollInvariant, PTL
=============================================================================
