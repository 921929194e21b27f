------------------------------- MODULE Copoll -------------------------------
(* Polling of cocarriers in ipcd: copoll.c, copoll_utils.c, copoll_deliver.c, *)
(* together with the part of send, receive and close that pollers can see.    *)
(*                                                                            *)
(* Messages are abstracted to the length of the ring (Cocarrier models their  *)
(* contents).  What a thread does between the CAS that takes a port's status  *)
(* word and the store that releases it is one step: every other thread that   *)
(* reads BUSY or POLLING just retries its CAS, so those two values are not    *)
(* seen here.  DONE, which outlives the sender's critical section, is.        *)
(*                                                                            *)
(* An assertion that fails ends the daemon: failed names it, and nothing      *)
(* happens any more.                                                          *)
EXTENDS Coport, Sequences

CONSTANTS Ports, Workers, Pollers, Notifiers,
          NotifierOf,            \* get_coport_notifier_index
          Requests,              \* copoll arguments: an array of [port, events], and
                                 \* whether the timeout is positive or negative
          COPORT_EVENTQUEUE_LEN  \* 32 in the code

ASSUME NotifierAssumption == NotifierOf \in [Ports -> Notifiers]
ASSUME QueueAssumption == COPORT_EVENTQUEUE_LEN \in Nat
ASSUME RequestAssumption ==
    Requests \subseteq [coports : Seq([port : Ports, events : SUBSET Bits]), timed : BOOLEAN]

VARIABLES status, length, event,   \* coport_info_t of each port
          listeners,               \* per port, the entries <<poller, k>> of its list
          levent,                  \* per port, the events the list is waiting for
          mutex,                   \* global_copoll_lock: its holder, or none
          worker,                  \* threads serving cosend, corecv, coclose
          poller,                  \* threads serving slopoll
          notifier,                \* threads of copoll_deliver
          failed                   \* the assertion that ended the daemon, or none

info == <<status, length, event>>
vars == <<info, listeners, levent, mutex, worker, poller, notifier, failed>>

None == "none"
NULL == "NULL"

Up == failed = None

IdleWorker == [pc |-> "idle", port |-> None, closing |-> FALSE, bit |-> None]
IdlePoller == [pc |-> "idle", coports |-> << >>, timed |-> FALSE, at |-> 1,
               entry |-> << >>, woken |-> FALSE]

\* The error-checking mutex, and one thread per notifier, started at once.
init_copoll_lock == mutex = None
setup_copoll_notifiers ==
    notifier = [n \in Notifiers |-> [pc |-> "start", signalled |-> FALSE, i |-> 1,
                                     n_events |-> 0, queue |-> << >>]]

acquire_copoll_mutex(who) == mutex = None /\ mutex' = who
release_copoll_mutex == mutex' = None

Init ==
    /\ status = [p \in Ports |-> "OPEN"]
    /\ length = [p \in Ports |-> 0]
    /\ event = [p \in Ports |-> COPOLL_INIT_EVENTS]
    /\ listeners = [p \in Ports |-> {}]
    /\ levent = [p \in Ports |-> {}]
    /\ init_copoll_lock /\ failed = None
    /\ worker = [t \in Workers |-> IdleWorker]
    /\ poller = [q \in Pollers |-> IdlePoller]
    /\ setup_copoll_notifiers

-----------------------------------------------------------------------------
(* cosend, corecv and coclose up to copoll_notify.  A call that returns EPIPE *)
(* at once changes nothing.                                                   *)

Send(t, p) ==
    /\ Up /\ worker[t].pc = "idle" /\ status[p] = "OPEN"
    /\ MaySend(event[p], length[p])
    /\ length' = [length EXCEPT ![p] = @ + 1]
    /\ event' = [event EXCEPT ![p] = SentMask(@, length'[p])]
    /\ status' = [status EXCEPT ![p] = "DONE"]
    /\ worker' = [worker EXCEPT ![t] = [IdleWorker EXCEPT !.pc = "check", !.port = p, !.bit = "IN"]]
    /\ UNCHANGED <<listeners, levent, mutex, poller, notifier, failed>>

SendAgain(t, p) ==
    /\ Up /\ worker[t].pc = "idle" /\ status[p] = "OPEN"
    /\ ~MaySend(event[p], length[p])
    /\ event' = [event EXCEPT ![p] = @ \cup {"WERR"}]
    /\ UNCHANGED <<status, length, listeners, levent, mutex, worker, poller, notifier, failed>>

RecvSeesClosing(t, p) ==
    /\ Up /\ worker[t].pc = "idle" /\ status[p] = "CLOSING"
    /\ worker' = [worker EXCEPT ![t] = [IdleWorker EXCEPT !.pc = "r_lock", !.port = p, !.closing = TRUE]]
    /\ UNCHANGED <<info, listeners, levent, mutex, poller, notifier, failed>>

\* The CAS of cocarrier_recv succeeds: from OPEN, or from CLOSING once seen.
RecvLocks(t, p) ==
    \/ worker[t].pc = "idle" /\ status[p] = "OPEN"
    \/ worker[t].pc = "r_lock" /\ worker[t].port = p /\ status[p] \in {"OPEN", "CLOSING"}

Recv(t, p) ==
    /\ Up /\ RecvLocks(t, p)
    /\ MayRecv(event[p], length[p])
    /\ length' = [length EXCEPT ![p] = @ - 1]
    /\ event' = [event EXCEPT ![p] = RecvMask(@, length'[p], worker[t].closing)]
    /\ worker' = [worker EXCEPT ![t] = [IdleWorker EXCEPT !.pc = "check", !.port = p, !.bit = "OUT"]]
    /\ UNCHANGED <<status, listeners, levent, mutex, poller, notifier, failed>>

RecvAgain(t, p) ==
    /\ Up /\ RecvLocks(t, p)
    /\ ~MayRecv(event[p], length[p])
    /\ event' = [event EXCEPT ![p] = @ \cup {"RERR"}]
    /\ status' = [status EXCEPT ![p] = "OPEN"]
    /\ worker' = [worker EXCEPT ![t] = IdleWorker]
    /\ UNCHANGED <<length, listeners, levent, mutex, poller, notifier, failed>>

RecvEpipe(t) ==
    /\ Up /\ worker[t].pc = "r_lock" /\ status[worker[t].port] = "CLOSED"
    /\ worker' = [worker EXCEPT ![t] = IdleWorker]
    /\ UNCHANGED <<info, listeners, levent, mutex, poller, notifier, failed>>

Close(t, p) ==
    /\ Up /\ worker[t].pc = "idle" /\ status[p] = "OPEN"
    /\ event' = [event EXCEPT ![p] = CloseMask(@)]
    /\ status' = [status EXCEPT ![p] = "CLOSING"]
    /\ UNCHANGED <<length, listeners, levent, mutex, worker, poller, notifier, failed>>

-----------------------------------------------------------------------------
(* copoll_notify: the lists are read without any lock *)

NotifyCheck(t) ==
    LET p == worker[t].port IN
    /\ Up /\ worker[t].pc = "check"
    /\ worker' = [worker EXCEPT ![t].pc =
                      IF listeners[p] # {} /\ worker[t].bit \in levent[p] THEN "post" ELSE "cas"]
    /\ UNCHANGED <<info, listeners, levent, mutex, poller, notifier, failed>>

NotifyCas(t) ==
    /\ Up /\ worker[t].pc = "cas"
    /\ status' = [status EXCEPT ![worker[t].port] = IF @ = "DONE" THEN "OPEN" ELSE @]
    /\ worker' = [worker EXCEPT ![t] = IdleWorker]
    /\ UNCHANGED <<length, event, listeners, levent, mutex, poller, notifier, failed>>

\* Mutant: the bound on next_event is off by one.
HasRoomOffByOne(n) == Len(notifier[n].queue) <= COPORT_EVENTQUEUE_LEN

\* next_event is the length of queue: it only grows.
HasRoom(n) == Len(notifier[n].queue) < COPORT_EVENTQUEUE_LEN

\* put_coport_event under the mutex.
NotifyPost(t) ==
    LET n == NotifierOf[worker[t].port] IN
    /\ Up /\ worker[t].pc = "post" /\ mutex = None
    /\ IF HasRoom(n)
       THEN /\ notifier' = [notifier EXCEPT
                   ![n].queue = Append(@, worker[t].port),
                   ![n].signalled = @ \/ notifier[n].pc = "wait"]
            /\ worker' = [worker EXCEPT ![t] = IdleWorker]
            /\ UNCHANGED failed
       ELSE failed' = "event_idx < COPORT_EVENTQUEUE_LEN" /\ UNCHANGED <<notifier, worker>>
    /\ UNCHANGED <<info, listeners, levent, mutex, poller>>

-----------------------------------------------------------------------------
(* copoll: the fast call cocarrier_poll and, if it answers EWOULDBLOCK, the   *)
(* slow one, with cocarrier_poll_slow and wait_for_events.  A fast call that  *)
(* finds an event, or may not wait, returns at once and changes nothing.      *)

\* inspect_events
Matches(coports) == \E k \in DOMAIN coports : coports[k].events \cap event[coports[k].port] # {}

cocarrier_poll(q) ==
    /\ Up /\ poller[q].pc = "idle"
    /\ \E r \in Requests :
          /\ ~Matches(r.coports)
          /\ poller' = [poller EXCEPT ![q] =
                 [IdlePoller EXCEPT !.pc = "slow", !.coports = r.coports, !.timed = r.timed]]
    /\ UNCHANGED <<info, listeners, levent, mutex, worker, notifier, failed>>

\* The events are looked at again: they may have come meanwhile.
PollCall(q) ==
    /\ Up /\ poller[q].pc = "slow"
    /\ LET coports == poller[q].coports IN
       poller' = [poller EXCEPT ![q] =
           IF Matches(coports) THEN IdlePoller
           ELSE [@ EXCEPT !.pc = "lock",
                          !.entry = [k \in DOMAIN coports |-> [removed |-> FALSE, revent |-> {}]]]]
    /\ UNCHANGED <<info, listeners, levent, mutex, worker, notifier, failed>>

PollLock(q) ==
    /\ Up /\ poller[q].pc = "lock"
    /\ acquire_copoll_mutex(q)
    /\ poller' = [poller EXCEPT ![q].pc = "insert"]
    /\ UNCHANGED <<info, listeners, levent, worker, notifier, failed>>

\* Mutant: levent is stored, not or-ed.
ListenOverwrites(p, entry, events) ==
    /\ listeners' = [listeners EXCEPT ![p] = @ \cup {entry}]
    /\ levent' = [levent EXCEPT ![p] = events]

Listen(p, entry, events) ==
    /\ listeners' = [listeners EXCEPT ![p] = @ \cup {entry}]
    /\ levent' = [levent EXCEPT ![p] = @ \cup events]

\* With the mutex held, spin until the port is OPEN.
PollInsert(q) ==
    LET k == poller[q].at
        r == poller[q].coports[k]
    IN  /\ Up /\ poller[q].pc = "insert" /\ k <= Len(poller[q].coports)
        /\ status[r.port] = "OPEN"
        /\ Listen(r.port, <<q, k>>, r.events)
        /\ poller' = [poller EXCEPT ![q].at = @ + 1]
        /\ UNCHANGED <<info, mutex, worker, notifier, failed>>

PollWait(q) ==
    /\ Up /\ poller[q].pc = "insert" /\ poller[q].at > Len(poller[q].coports)
    /\ mutex' = None
    /\ poller' = [poller EXCEPT ![q].pc = "wait", ![q].at = 1]
    /\ UNCHANGED <<info, listeners, levent, worker, notifier, failed>>

\* pthread_cond_wait returns: signalled, timed out, or spuriously.
PollWake(q) ==
    /\ Up /\ poller[q].pc = "wait" /\ mutex = None
    /\ mutex' = q
    /\ poller' = [poller EXCEPT ![q].pc = "remove", ![q].woken = FALSE]
    /\ UNCHANGED <<info, listeners, levent, worker, notifier, failed>>

\* Mutant: the listener is freed and stays on the list.
UnlinkNot(p, entry) == status[p] = "OPEN" /\ UNCHANGED listeners

\* Mutant: the list is changed without the status word.
UnlinkUnlocked(p, entry) == listeners' = [listeners EXCEPT ![p] = @ \ {entry}]

\* Spin until the port is OPEN, then LIST_REMOVE.
Unlink(p, entry) ==
    /\ status[p] = "OPEN"
    /\ listeners' = [listeners EXCEPT ![p] = @ \ {entry}]

\* An entry a notifier removed is skipped.
PollRemove(q) ==
    LET k == poller[q].at
        p == poller[q].coports[k].port
    IN  /\ Up /\ poller[q].pc = "remove" /\ k <= Len(poller[q].coports)
        /\ IF poller[q].entry[k].removed THEN UNCHANGED listeners ELSE Unlink(p, <<q, k>>)
        /\ poller' = [poller EXCEPT ![q].at = @ + 1, ![q].entry[k].removed = TRUE]
        /\ IF poller[q].entry[k].removed /\ poller[q].entry[k].revent = {}
           THEN failed' = "revent != NOEVENT" ELSE UNCHANGED failed
        /\ UNCHANGED <<info, levent, mutex, worker, notifier>>

PollReturn(q) ==
    /\ Up /\ poller[q].pc = "remove" /\ poller[q].at > Len(poller[q].coports)
    /\ release_copoll_mutex
    /\ IF poller[q].timed \/ \E k \in DOMAIN poller[q].entry : poller[q].entry[k].revent # {}
       THEN poller' = [poller EXCEPT ![q] = IdlePoller] /\ UNCHANGED failed
       ELSE failed' = "matched != 0 || timeout > 0" /\ UNCHANGED poller
    /\ UNCHANGED <<info, listeners, levent, worker, notifier>>

-----------------------------------------------------------------------------
(* copoll_deliver *)

NotifierStart(n) ==
    /\ Up /\ notifier[n].pc = "start" /\ mutex = None
    /\ notifier' = [notifier EXCEPT ![n].pc = "wait"]
    /\ UNCHANGED <<info, listeners, levent, mutex, worker, poller, failed>>

NotifierWake(n) ==
    /\ Up /\ notifier[n].pc = "wait" /\ mutex = None
    /\ mutex' = n
    /\ notifier' = [notifier EXCEPT ![n].pc = "deliver", ![n].signalled = FALSE,
                        ![n].i = 1, ![n].n_events = Len(notifier[n].queue)]
    /\ UNCHANGED <<info, listeners, levent, worker, poller, failed>>

\* Mutant: the test of revents is dropped.
InterestedAll(p) == listeners[p]

Interested(p) ==
    {e \in listeners[p] : poller[e[1]].coports[e[2]].events \cap event[p] # {}}

\* process_coport_event on queue entry i, with the mutex held.  COPORT_CLOSED is
\* not a status its CAS accepts: then it spins.
Deliver(n, p) ==
    /\ status[p] \in {"DONE", "OPEN", "CLOSING"}
    /\ IF event[p] \cap levent[p] = {}
       THEN /\ failed' = "(coport_event & levent) != NOEVENT"
            /\ UNCHANGED <<status, listeners, levent, poller>>
       ELSE /\ status' = [status EXCEPT ![p] =
                   IF length[p] = 0 /\ @ = "CLOSING" THEN "CLOSED" ELSE "OPEN"]
            /\ poller' = [q \in Pollers |->
                   [poller[q] EXCEPT
                      !.woken = @ \/ \E e \in Interested(p) : e[1] = q,
                      !.entry = [k \in DOMAIN @ |->
                          IF <<q, k>> \in Interested(p)
                          THEN [removed |-> TRUE, revent |-> poller[q].coports[k].events \cap event[p]]
                          ELSE @[k]]]]
            /\ listeners' = [listeners EXCEPT ![p] = @ \ Interested(p)]
            /\ levent' = [levent EXCEPT ![p] = @ \ event[p]]
            /\ UNCHANGED failed

NotifierStep(n) ==
    LET k == notifier[n].i
        p == notifier[n].queue[k]
    IN  /\ Up /\ notifier[n].pc = "deliver" /\ k <= notifier[n].n_events
        /\ IF p = NULL \/ listeners[p] = {}
           THEN UNCHANGED <<status, listeners, levent, poller, failed>>
           ELSE Deliver(n, p)
        /\ notifier' = [notifier EXCEPT ![n].i = @ + 1, ![n].queue[k] = NULL]
        /\ UNCHANGED <<length, event, mutex, worker>>

NotifierSleep(n) ==
    /\ Up /\ notifier[n].pc = "deliver" /\ notifier[n].i > notifier[n].n_events
    /\ mutex' = None
    /\ notifier' = [notifier EXCEPT ![n].pc = "wait", ![n].i = 1, ![n].n_events = 0]
    /\ UNCHANGED <<info, listeners, levent, worker, poller, failed>>

-----------------------------------------------------------------------------
WorkerCall(t) == \E p \in Ports : Send(t, p) \/ SendAgain(t, p) \/ RecvSeesClosing(t, p) \/ Close(t, p)
WorkerRecv(t) == \E p \in Ports : Recv(t, p) \/ RecvAgain(t, p)
WorkerStep(t) == RecvEpipe(t) \/ NotifyCheck(t) \/ NotifyCas(t) \/ NotifyPost(t)

PollerStep(q) ==
    \/ PollCall(q) \/ PollLock(q) \/ PollInsert(q) \/ PollWait(q)
    \/ PollWake(q) \/ PollRemove(q) \/ PollReturn(q)

NotifierRun(n) == NotifierStart(n) \/ NotifierWake(n) \/ NotifierStep(n) \/ NotifierSleep(n)

Next ==
    \/ \E t \in Workers : WorkerCall(t) \/ WorkerRecv(t) \/ WorkerStep(t)
    \/ \E q \in Pollers : cocarrier_poll(q) \/ PollerStep(q)
    \/ \E n \in Notifiers : NotifierRun(n)

Spec == Init /\ [][Next]_vars

PollerDue(q)   == poller[q].pc = "wait" => poller[q].timed \/ poller[q].woken
NotifierDue(n) == notifier[n].pc = "wait" => notifier[n].signalled

\* Every thread of the daemon is scheduled, and a thread that keeps finding the
\* mutex or the status word free at some times gets it in the end.  A timed wait
\* times out; any other wait ends at least when it was signalled.
FairSpec ==
    /\ Spec
    /\ \A t \in Workers : SF_vars(WorkerStep(t)) /\ SF_vars(worker[t].pc = "r_lock" /\ WorkerRecv(t))
    /\ \A q \in Pollers : SF_vars(PollerDue(q) /\ PollerStep(q))
    /\ \A n \in Notifiers : SF_vars(NotifierDue(n) /\ NotifierRun(n))

-----------------------------------------------------------------------------
(* Properties *)

TypeOK ==
    /\ \A p \in Ports :
          /\ status[p] \in Status \ {"BUSY", "POLLING"}
          /\ length[p] \in Lengths
          /\ event[p] \subseteq Bits /\ levent[p] \subseteq Bits
          /\ listeners[p] \subseteq Pollers \X Nat
    /\ mutex \in Pollers \cup Notifiers \cup {None}
    /\ \A n \in Notifiers : Len(notifier[n].queue) <= COPORT_EVENTQUEUE_LEN

\* copoll_notify skips the notifier when levent has no bit of its event
\* (copoll_utils.c:119), so levent must cover every listener on the list even
\* though pollers and notifiers update the two at different times.
LeventCoversListeners ==
    \A p \in Ports : \A e \in listeners[p] : poller[e[1]].coports[e[2]].events \subseteq levent[p]

\* A list never points to a listener its poll call has freed (copoll.c:167), and
\* a listener that is still waiting for an event is on its port's list.
ListenersAreLive ==
    \A p \in Ports : listeners[p] = UNION {
        {<<q, k>> : k \in {j \in DOMAIN poller[q].coports :
            /\ poller[q].coports[j].port = p
            /\ \/ poller[q].pc = "insert" /\ j < poller[q].at
               \/ poller[q].pc \in {"wait", "remove"}
            /\ ~poller[q].entry[j].removed}} : q \in Pollers}

\* DONE locks a port after its sender's critical section.  Somebody always owes
\* the store that lifts it: the sender itself, or the notifier in whose queue the
\* port still is (copoll_utils.c:130, copoll_deliver.c:59,94).
DoneIsOwed ==
    \A p \in Ports : status[p] = "DONE" =>
        \/ \E t \in Workers : worker[t].port = p /\ worker[t].bit = "IN"
        \/ /\ listeners[p] # {}
           /\ \E k \in DOMAIN notifier[NotifierOf[p]].queue : notifier[NotifierOf[p]].queue[k] = p

\* "if this fails, we have some concurrency mistakes" (copoll.c:145).
RemovedWithEvent == failed # "revent != NOEVENT"

\* assert(event_idx < COPORT_EVENTQUEUE_LEN), copoll_deliver.c:128.
QueueHasRoom == failed # "event_idx < COPORT_EVENTQUEUE_LEN"

\* assert((coport_event & coport->cd->levent) != NOEVENT), copoll_deliver.c:79.
EventStillThere == failed # "(coport_event & levent) != NOEVENT"

\* "If the caller is willing to wait and we have no matches on the events polled
\* for, then wait for the specified amount of time" (copoll.c:191): a poll with a
\* timeout returns, unless an assertion ended the daemon.
TimedPollReturns ==
    \A q \in Pollers :
        (poller[q].pc = "wait" /\ poller[q].timed) ~> (poller[q].pc = "idle" \/ failed # None)
=============================================================================
