----------------------------- MODULE Cocarrier ------------------------------
(* One cocarrier of ipcd that nobody polls: cosend.c, corecv.c, coclose.c,    *)
(* comsg_free.c and the branch of copoll_notify for a port without listeners. *)
(* Module Copoll adds the listeners and the notifier threads.                 *)
(*                                                                            *)
(* The worker threads serve any mix of calls.  The status word is a spin      *)
(* lock; what a handler does while it holds it is one step, because the       *)
(* fields it writes there are read outside the lock only one at a time (the   *)
(* slots by a receiver that has already let go and by coport_msg_free).       *)
(* Those unlocked accesses are steps of their own.                            *)
(*                                                                            *)
(* A message is the number of its successful cosend, 1, 2, ...; 0 is NULL.    *)
EXTENDS Coport

CONSTANTS Workers,             \* threads of the coaccept endpoints
          MaxSent              \* bound: no cosend starts after MaxSent messages

ASSUME MaxSentAssumption == MaxSent \in Nat

VARIABLES status, length, start, end, event,   \* coport_info_t
          buf, att,    \* the ring of struct cocarrier_message: message and attachments,
          recvd, freed,\*   and the slots whose flags are set
          pc,          \* where each worker is
          idx,         \* the slot a worker holds a pointer to
          closing,     \* the receivers that have seen COPORT_CLOSING
          saved,       \* cocarrier_recv: the status its CAS replaced
          msg,         \* the message a worker returns, or frees
          oob,         \* the message whose attachments a receiver returns
          heap,        \* message buffers malloc'ed and not free'd
          nsent,       \* history: messages queued so far
          taken,       \* history: the number of the message a receiver took
          receipt,     \* history: <<k, m, a>>, the k-th message taken was returned as
                       \* message m with the attachments of a
          lapped       \* history: workers whose slot was reused while they used it

info   == <<status, length, start, end, event>>
slots  == <<buf, att, recvd, freed>>
locals == <<idx, closing, saved, msg, oob, taken>>
client == <<heap, nsent, receipt, lapped>>
vars   == <<info, slots, pc, locals, client>>

NULL == 0

\* Program points inside the critical section the status word protects.
Locked == {"s_body", "r_body", "c_body"}

\* Program points at which a worker uses idx without the lock.
Unlocked == {"r_read", "r_mark", "f_mark", "f_clear"}

Points == {"idle", "s_lock", "s_notify", "r_lock", "r_notify", "c_lock"} \cup Locked \cup Unlocked

Goto(t, from, to) == pc[t] = from /\ pc' = [pc EXCEPT ![t] = to]

\* The handler returns; its locals are dead.
Return(t, from) ==
    /\ Goto(t, from, "idle")
    /\ idx' = [idx EXCEPT ![t] = 0]
    /\ closing' = closing \ {t}
    /\ saved' = [saved EXCEPT ![t] = "OPEN"]
    /\ msg' = [msg EXCEPT ![t] = NULL]
    /\ oob' = [oob EXCEPT ![t] = NULL]
    /\ taken' = [taken EXCEPT ![t] = NULL]

-----------------------------------------------------------------------------
\* coport_open: a fresh port, its slots calloc'ed.
Init ==
    /\ status = "OPEN" /\ length = 0 /\ start = 0 /\ end = 0
    /\ event = COPOLL_INIT_EVENTS
    /\ buf = [i \in Indices |-> NULL] /\ att = [i \in Indices |-> NULL]
    /\ recvd = {} /\ freed = {}
    /\ pc = [t \in Workers |-> "idle"]
    /\ idx = [t \in Workers |-> 0]
    /\ closing = {}
    /\ saved = [t \in Workers |-> "OPEN"]
    /\ msg = [t \in Workers |-> NULL]
    /\ oob = [t \in Workers |-> NULL]
    /\ taken = [t \in Workers |-> NULL]
    /\ heap = {} /\ nsent = 0 /\ receipt = {} /\ lapped = {}

-----------------------------------------------------------------------------
(* cocarrier_send *)

\* The message is copied into a buffer of ipcd; the buffer gets its number, and
\* its place in heap, when it is queued.
SendCall(t) ==
    /\ nsent < MaxSent
    /\ Goto(t, "idle", "s_lock")
    /\ UNCHANGED <<info, slots, locals, client>>

\* The CAS found the port closing: EPIPE.
SendEpipe(t) ==
    /\ status \in {"CLOSED", "CLOSING"}
    /\ Return(t, "s_lock")
    /\ UNCHANGED <<info, slots, client>>

\* Mutant: the CAS retries with whatever status it read.
SendLockAnyStatus(t) ==
    /\ status \notin {"CLOSED", "CLOSING"} /\ status' = "BUSY"
    /\ Goto(t, "s_lock", "s_body")
    /\ UNCHANGED <<length, start, end, event, slots, locals, client>>

SendLock(t) ==
    /\ status = "OPEN" /\ status' = "BUSY"
    /\ Goto(t, "s_lock", "s_body")
    /\ UNCHANGED <<length, start, end, event, slots, locals, client>>

\* No room: EAGAIN.
SendAgain(t) ==
    /\ ~MaySend(event, length)
    /\ Return(t, "s_body")
    /\ event' = event \cup {"WERR"}
    /\ status' = "OPEN"
    /\ UNCHANGED <<length, start, end, slots, client>>

SendCommit(t) ==
    /\ MaySend(event, length)
    /\ Goto(t, "s_body", "s_notify")
    /\ nsent' = nsent + 1
    /\ heap' = heap \cup {nsent'}
    /\ buf' = [buf EXCEPT ![end] = nsent']
    /\ att' = [att EXCEPT ![end] = nsent']
    /\ freed' = freed \ {end}
    /\ recvd' = recvd \ {end}
    /\ end' = Succ(end)
    /\ length' = length + 1
    /\ event' = SentMask(event, length')
    /\ status' = "DONE"
    /\ lapped' = lapped \cup {u \in Workers : pc[u] \in Unlocked /\ idx[u] = end}
    /\ UNCHANGED <<start, locals, receipt>>

-----------------------------------------------------------------------------
(* cocarrier_recv.  Only a notifier stores COPORT_CLOSED, so the EPIPE of a   *)
(* receiver is in Copoll.                                                     *)

RecvCall(t) ==
    /\ Goto(t, "idle", "r_lock")
    /\ UNCHANGED <<info, slots, locals, client>>

\* The CAS fails on COPORT_CLOSING; the next attempt expects that value.
RecvSeesClosing(t) ==
    /\ pc[t] = "r_lock" /\ status = "CLOSING" /\ t \notin closing
    /\ closing' = closing \cup {t}
    /\ UNCHANGED <<info, slots, pc, idx, saved, msg, oob, taken, client>>

RecvLock(t) ==
    /\ status = "OPEN" \/ (status = "CLOSING" /\ t \in closing)
    /\ Goto(t, "r_lock", "r_body")
    /\ saved' = [saved EXCEPT ![t] = status]
    /\ status' = "BUSY"
    /\ UNCHANGED <<length, start, end, event, slots, idx, closing, msg, oob, taken, client>>

\* Nothing to take: EAGAIN, and the status becomes OPEN whatever it was.
RecvAgain(t) ==
    /\ ~MayRecv(event, length)
    /\ Return(t, "r_body")
    /\ event' = event \cup {"RERR"}
    /\ status' = "OPEN"
    /\ UNCHANGED <<length, start, end, slots, client>>

\* Mutant: the slot is indexed after start was advanced.
RecvTakeNext(t) ==
    /\ MayRecv(event, length)
    /\ Goto(t, "r_body", "r_read")
    /\ start' = Succ(start)
    /\ idx' = [idx EXCEPT ![t] = start']
    /\ taken' = [taken EXCEPT ![t] = nsent - length + 1]
    /\ length' = length - 1
    /\ event' = RecvMask(event, length', t \in closing)
    /\ status' = saved[t]
    /\ UNCHANGED <<end, slots, closing, saved, msg, oob, client>>

RecvTake(t) ==
    /\ MayRecv(event, length)
    /\ Goto(t, "r_body", "r_read")
    /\ idx' = [idx EXCEPT ![t] = start]
    /\ taken' = [taken EXCEPT ![t] = nsent - length + 1]
    /\ start' = Succ(start)
    /\ length' = length - 1
    /\ event' = RecvMask(event, length', t \in closing)
    /\ status' = saved[t]
    /\ UNCHANGED <<end, slots, closing, saved, msg, oob, client>>

\* After the release: the buffer is read through the slot pointer ...
RecvRead(t) ==
    /\ Goto(t, "r_read", "r_mark")
    /\ msg' = [msg EXCEPT ![t] = buf[idx[t]]]
    /\ UNCHANGED <<info, slots, idx, closing, saved, oob, taken, client>>

\* ... then the attachments, and the slot is marked received.
RecvMark(t) ==
    /\ Goto(t, "r_mark", "r_notify")
    /\ oob' = [oob EXCEPT ![t] = att[idx[t]]]
    /\ recvd' = recvd \cup {idx[t]}
    /\ UNCHANGED <<info, buf, att, freed, idx, closing, saved, msg, taken, client>>

-----------------------------------------------------------------------------
(* copoll_notify on a port without listeners, then the return to the caller   *)

\* Mutant: the exchange is retried until it finds COPORT_DONE.
NotifyWaits == status = "DONE" /\ status' = "OPEN"

Notify == status' = (IF status = "DONE" THEN "OPEN" ELSE status)

SendNotify(t) ==
    /\ Return(t, "s_notify")
    /\ Notify
    /\ UNCHANGED <<length, start, end, event, slots, client>>

RecvNotify(t) ==
    /\ Return(t, "r_notify")
    /\ Notify
    /\ receipt' = receipt \cup {<<taken[t], msg[t], oob[t]>>}
    /\ UNCHANGED <<length, start, end, event, slots, heap, nsent, lapped>>

-----------------------------------------------------------------------------
(* coport_close *)

\* Early return, or first CAS: an already closing port is EPIPE.
CloseCall(t) ==
    /\ status \notin {"CLOSED", "CLOSING"}
    /\ Goto(t, "idle", "c_lock")
    /\ UNCHANGED <<info, slots, locals, client>>

CloseEpipe(t) ==
    /\ status \in {"CLOSED", "CLOSING"}
    /\ Return(t, "c_lock")
    /\ UNCHANGED <<info, slots, client>>

CloseLock(t) ==
    /\ status = "OPEN" /\ status' = "BUSY"
    /\ Goto(t, "c_lock", "c_body")
    /\ UNCHANGED <<length, start, end, event, slots, locals, client>>

CloseCommit(t) ==
    /\ Return(t, "c_body")
    /\ event' = CloseMask(event)
    /\ status' = "CLOSING"
    /\ UNCHANGED <<length, start, end, slots, client>>

-----------------------------------------------------------------------------
(* free_comsg.  Any message a client received may be freed, and again by      *)
(* mistake, also at the same time.  A call that finds no slot is EINVAL and   *)
(* changes nothing.                                                           *)

Freeable(i) == i \in recvd \ freed /\ buf[i] \in {r[2] : r \in receipt} \ {NULL}

FreeFind(t, i) ==
    /\ Freeable(i)
    /\ Goto(t, "idle", "f_mark")
    /\ msg' = [msg EXCEPT ![t] = buf[i]]
    /\ idx' = [idx EXCEPT ![t] = i]
    /\ UNCHANGED <<info, slots, closing, saved, oob, taken, client>>

\* Mutant: a plain store in place of the CAS.
FreeMarkStore(t) ==
    /\ Goto(t, "f_mark", "f_clear")
    /\ freed' = freed \cup {idx[t]}
    /\ UNCHANGED <<info, buf, att, recvd, locals, client>>

\* The CAS on freed; the loser returns EINVAL.
FreeMark(t) ==
    /\ idx[t] \notin freed
    /\ Goto(t, "f_mark", "f_clear")
    /\ freed' = freed \cup {idx[t]}
    /\ UNCHANGED <<info, buf, att, recvd, locals, client>>

FreeLost(t) ==
    /\ idx[t] \in freed
    /\ Return(t, "f_mark")
    /\ UNCHANGED <<info, slots, client>>

FreeClear(t) ==
    /\ Return(t, "f_clear")
    /\ heap' = heap \ {msg[t]}
    /\ buf' = [buf EXCEPT ![idx[t]] = NULL]
    /\ UNCHANGED <<info, att, recvd, freed, nsent, receipt, lapped>>

-----------------------------------------------------------------------------
Call(t) == SendCall(t) \/ RecvCall(t) \/ CloseCall(t) \/ \E i \in Indices : FreeFind(t, i)

Step(t) ==
    \/ SendEpipe(t) \/ SendLock(t) \/ SendAgain(t) \/ SendCommit(t) \/ SendNotify(t)
    \/ RecvSeesClosing(t) \/ RecvLock(t) \/ RecvAgain(t) \/ RecvTake(t)
    \/ RecvRead(t) \/ RecvMark(t) \/ RecvNotify(t)
    \/ CloseEpipe(t) \/ CloseLock(t) \/ CloseCommit(t)
    \/ FreeMark(t) \/ FreeLost(t) \/ FreeClear(t)

Next == \E t \in Workers : Call(t) \/ Step(t)

Spec == Init /\ [][Next]_vars

\* A worker inside a handler is scheduled.  Nothing is assumed of who wins the
\* spin on the status word, nor of the clients' calls.
FairSpec == Spec /\ \A t \in Workers : WF_vars(Step(t))

\* The behaviours in which no sender reuses a slot a worker is still using.
NoLapSpec == Init /\ [][Next /\ lapped' = {}]_vars

-----------------------------------------------------------------------------
(* Properties *)

TypeOK ==
    /\ status \in Status /\ length \in Lengths /\ event \subseteq Bits
    /\ start \in Indices /\ end \in Indices
    /\ buf \in [Indices -> Nat] /\ att \in [Indices -> Nat]
    /\ recvd \subseteq Indices /\ freed \subseteq Indices
    /\ pc \in [Workers -> Points]
    /\ idx \in [Workers -> Indices]
    /\ closing \subseteq Workers
    /\ saved \in [Workers -> {"OPEN", "CLOSING"}]
    /\ msg \in [Workers -> Nat] /\ oob \in [Workers -> Nat] /\ taken \in [Workers -> Nat]
    /\ heap \subseteq Nat /\ nsent \in Nat
    /\ receipt \subseteq Nat \X Nat \X Nat
    /\ lapped \subseteq Workers

\* "Set the status to busy so we don't interleave" (cosend.c:162): whatever mix
\* of send, receive and close calls runs, at most one worker is in a critical
\* section, it is there exactly while the word is BUSY, and DONE is never left
\* behind: some sender is still on its way to copoll_notify.
StatusIsLock ==
    /\ \A t, u \in Workers : pc[t] \in Locked /\ pc[u] \in Locked => t = u
    /\ status = "BUSY" <=> \E t \in Workers : pc[t] \in Locked
    /\ status = "DONE" => \E t \in Workers : pc[t] = "s_notify"

\* The ring holds the last `length' messages in the order of their sends, each
\* in its slot with its own attachments, and no queued message has lost its
\* buffer unless a sender lapped a worker.
RingInOrder ==
    /\ end = (start + length) % COCARRIER_SIZE
    /\ \A k \in 1 .. length :
          LET s == (start + k - 1) % COCARRIER_SIZE
              n == nsent - length + k
          IN  att[s] = n /\ (buf[s] = n \/ (lapped # {} /\ buf[s] = NULL))

\* The event mask tells the truth about the ring: a receiver is turned away with
\* EAGAIN only when the ring is empty, a sender only when it is full or the port
\* was closed (the double tests of cosend.c:190 and corecv.c:86 never disagree).
EventsAgree ==
    /\ "IN" \in event <=> length > 0
    /\ "OUT" \in event <=> length < COCARRIER_SIZE /\ "CLOSED" \notin event

\* coclose is final: once a close went through no message is queued, although a
\* receiver that finds the ring empty stores OPEN over CLOSING (corecv.c:88).
CloseIsFinal == [][ "CLOSED" \in event => nsent' = nsent /\ "CLOSED" \in event' ]_vars

\* Every message a receiver took out of the ring is returned to its caller.
TakenIsReturned ==
    \A k \in 1 .. MaxSent :
        (nsent - length >= k) ~> (\E r \in receipt : r[1] = k)

\* A buffer is free'd at most once, however often clients free the message, and
\* never while it is queued or on its way to a client (comsg_free.c:78-85), as
\* long as no sender laps a worker.
HeapIsSafe ==
    lapped = {} =>
        /\ \A k \in 1 .. length : nsent - length + k \in heap
        /\ \A t \in Workers : pc[t] \in {"r_read", "r_mark", "r_notify"} => taken[t] \in heap
        /\ \A t \in Workers : pc[t] = "f_clear" =>
              /\ msg[t] \in heap
              /\ \A u \in Workers \ {t} : pc[u] = "f_clear" => msg[u] # msg[t]

\* README.md: "a sent message can be received by one and only one of the
\* listening entities": no two receipts are for the same message, and none is
\* for no message at all.
ReceivedByOne ==
    \A r, q \in receipt : r[2] \in 1 .. nsent /\ (r[2] = q[2] => r[1] = q[1])

\* The cocarrier as the queue README.md describes.
Queue == INSTANCE Anycast WITH
    Receivers <- Workers,
    Capacity  <- COCARRIER_SIZE,
    queue     <- [k \in 1 .. length |-> buf[(start + k - 1) % COCARRIER_SIZE]],
    sent      <- nsent,
    flight    <- [t \in Workers |->
                     IF pc[t] = "r_read" THEN buf[idx[t]]
                     ELSE IF pc[t] \in {"r_mark", "r_notify"} THEN msg[t] ELSE 0],
    received  <- {r[2] : r \in receipt},
    closed    <- "CLOSED" \in event

\* As long as no sender laps a worker, cosend, corecv, coclose and
\* coport_msg_free together behave as that queue: nothing lost, duplicated or
\* reordered, nothing accepted after coclose.
IsAnycastQueue == Queue!Spec
=============================================================================
