----------------------------- MODULE CoportIPC -----------------------------
(* Copipes and cochannels: the two coport types whose send and receive run    *)
(* in the caller (libcomsg), on memory shared with every holder of the port.  *)
(* One port is followed from coopen to coclose; a port opened later only      *)
(* takes a slot.  Every operation acquires the status word by compare and     *)
(* swap, works, and releases it by a store.                                   *)
EXTENDS CoportTable, Sequences

CONSTANTS COPORT_BUF_LEN,  \* bytes of a cochannel, 4096 in the code
          SIZE_MODULUS     \* 2^64 in the code: size_t arithmetic wraps

ASSUME BufAssumption == /\ COPORT_BUF_LEN \in Nat \ {0}
                        /\ SIZE_MODULUS \in Nat /\ SIZE_MODULUS > 2 * COPORT_BUF_LEN

NULL == [none |-> TRUE]
CHERICAP_SIZE == 16
Lens == 1 .. COPORT_BUF_LEN

VARIABLES port,      \* the coport, or NULL before it is opened
          data,      \* the cochannel's buffer: for each byte, its number
          inbox,     \* per thread: what was copied to the buffer it lent
          sent, received, stale  \* history of a cochannel, see below

ipcVars == <<port, data, inbox, sent, received, stale>>
vars == <<tableVars, ipcVars, pc, loc, calls>>

\* init_coport; length is not 0 in a new copipe.
init_coport(type) ==
    [type |-> type, status |-> "OPEN", start |-> 0, end |-> 0, buf |-> NULL,
     length |-> IF type = "COPIPE" THEN CHERICAP_SIZE ELSE 0,
     event  |-> IF type = "COPIPE" THEN {} ELSE {"OUT"}]

Init == /\ TableInit /\ CallsInit
        /\ port = NULL
        /\ data = [i \in 0 .. COPORT_BUF_LEN - 1 |-> 0]
        /\ inbox = [t \in Threads |-> <<>>]
        /\ sent = 0 /\ received = 0 /\ stale = FALSE

Opened(t) == /\ AllocateCount(t)
             /\ port' = IF port = NULL THEN init_coport(loc[t].type) ELSE port
             /\ UNCHANGED <<data, inbox, sent, received, stale>>

Usable(type) == port # NULL /\ port.type = type
Closed == port.status \in {"CLOSING", "CLOSED"}

\* The swap succeeds in one step; while it fails the thread spins, and once the
\* port is closed it gives up with EPIPE.
\* Mutant: the swap is a test and a store that ignores what the test said.
acquire_unchecked(t, from, expected, to) ==
    /\ Step(t, from, to)
    /\ port.status \in {expected, "BUSY"}
    /\ port' = [port EXCEPT !.status = "BUSY"]
    /\ UNCHANGED <<tableVars, data, inbox, sent, received, stale>>

acquire_coport_status(t, from, expected, to) ==
    /\ Step(t, from, to)
    /\ port.status = expected
    /\ port' = [port EXCEPT !.status = "BUSY"]
    /\ UNCHANGED <<tableVars, data, inbox, sent, received, stale>>

GiveUp(t, from) == Return(t, from) /\ Closed /\ UNCHANGED <<tableVars, ipcVars>>

release_coport_status(p, desired) == [p EXCEPT !.status = desired]

\* Calls that fail this test return with no effect.
validate_coport_op_args(size, len) == size >= len /\ len # 0

-----------------------------------------------------------------------------
\* Copipes.  A receiver lends its buffer and waits; a sender copies into it.
copipe_send(t, len) == /\ Call(t, "psend", [type |-> "none", len |-> len])
                       /\ UNCHANGED <<tableVars, ipcVars>>

PipeSendAcquire(t) == acquire_coport_status(t, "psend", "READY", "pcopy")

\* EPROT ends the exchange; EMSGSIZE leaves the receiver waiting.
\* Mutant: the message that is too long ends the exchange too.
PipeCopyEnds(t) == LET b == port.buf IN
    /\ Return(t, "pcopy")
    /\ IF b.tag /\ loc[t].len <= b.len
       THEN /\ port' = [port EXCEPT !.status = "DONE", !.length = loc[t].len]
            /\ inbox' = [inbox EXCEPT ![b.owner] = Append(@, loc[t].len)]
       ELSE /\ port' = release_coport_status(port, "DONE")
            /\ UNCHANGED inbox
    /\ UNCHANGED <<tableVars, data, sent, received, stale>>

\* Mutant: the port is not released when the message is too long.
PipeCopyKeepsBusy(t) == LET b == port.buf IN
    /\ Return(t, "pcopy")
    /\ \/ /\ ~b.tag \/ b.len < loc[t].len
          /\ port' = IF b.tag THEN port ELSE release_coport_status(port, "DONE")
          /\ UNCHANGED inbox
       \/ /\ b.tag /\ b.len >= loc[t].len
          /\ inbox' = [inbox EXCEPT ![b.owner] = Append(@, loc[t].len)]
          /\ port' = release_coport_status([port EXCEPT !.length = loc[t].len], "DONE")
    /\ UNCHANGED <<tableVars, data, sent, received, stale>>

PipeCopy(t) == LET b == port.buf IN
    /\ Return(t, "pcopy")
    /\ \/ /\ ~b.tag
          /\ port' = release_coport_status(port, "DONE")
          /\ UNCHANGED inbox
       \/ /\ b.tag /\ b.len < loc[t].len
          /\ port' = release_coport_status(port, "READY")
          /\ UNCHANGED inbox
       \/ /\ b.tag /\ b.len >= loc[t].len
          /\ inbox' = [inbox EXCEPT ![b.owner] = Append(@, loc[t].len)]
          /\ port' = release_coport_status([port EXCEPT !.length = loc[t].len], "DONE")
    /\ UNCHANGED <<tableVars, data, sent, received, stale>>

\* The buffer is narrowed to len bytes; it may be an untagged capability.
copipe_recv(t, len) == \E tag \in BOOLEAN :
    /\ Call(t, "precv", [type |-> "none", len |-> len, tag |-> tag])
    /\ UNCHANGED <<tableVars, ipcVars>>

PipeRecvAcquire(t) == acquire_coport_status(t, "precv", "OPEN", "plend")

PipeLend(t) ==
    /\ Step(t, "plend", "pwait")
    /\ port' = [port EXCEPT !.status = "READY",
                            !.buf = [owner |-> t, tag |-> loc[t].tag, len |-> loc[t].len]]
    /\ inbox' = [inbox EXCEPT ![t] = <<>>]
    /\ UNCHANGED <<tableVars, data, sent, received, stale>>

PipeWait(t) == acquire_coport_status(t, "pwait", "DONE", "ptake")

\* Mutant: the lent buffer stays in the port.
PipeTakeKeepsBuf(t) ==
    /\ Return(t, "ptake")
    /\ port' = [port EXCEPT !.status = "OPEN", !.length = 0]
    /\ inbox' = [inbox EXCEPT ![t] = <<>>]
    /\ UNCHANGED <<tableVars, data, sent, received, stale>>

PipeTake(t) ==
    /\ Return(t, "ptake")
    /\ port' = [port EXCEPT !.status = "OPEN", !.buf = NULL, !.length = 0]
    /\ inbox' = [inbox EXCEPT ![t] = <<>>]
    /\ UNCHANGED <<tableVars, data, sent, received, stale>>

-----------------------------------------------------------------------------
\* Cochannels.  The length is read before the port is acquired.  History: the
\* bytes sent and received so far, and whether an operation ever stored a
\* length computed from one that had changed or was too small.
cochannel_send(t, len) == LET new_len == (len + port.length) % SIZE_MODULUS IN
    /\ new_len <= COPORT_BUF_LEN                          \* else EWOULDBLOCK
    /\ Call(t, "csend", [type |-> "none", len |-> len, read |-> port.length])
    /\ UNCHANGED <<tableVars, ipcVars>>

ChanSendAcquire(t) == acquire_coport_status(t, "csend", "OPEN", "cwrite")

Advance(i, n) == (i + n) % COPORT_BUF_LEN

\* The bytes of the buffer a message of len bytes is copied to.
\* Mutant: the part of the message that wraps round is not copied.
WrittenNoWrap(end, len) == {i \in DOMAIN data : i \in end .. end + len - 1}

Written(end, len) == {Advance(end, k) : k \in 0 .. len - 1}

\* The event mask after new_len bytes were left by a send and by a receive.
\* Mutant: a send that fills the channel leaves COPOLL_OUT set.
SendEventNotFull(event, new_len) == event \cup {"IN"}

SendEvent(event, new_len) ==
    (event \cup {"IN"}) \ (IF new_len = COPORT_BUF_LEN THEN {"OUT"} ELSE {})
RecvEvent(event, new_len) ==
    (event \cup {"OUT"}) \ (IF new_len = 0 THEN {"IN"} ELSE {})

ChanWrite(t) ==
    LET len == loc[t].len
        new_len == (len + loc[t].read) % SIZE_MODULUS
    IN  /\ Return(t, "cwrite")
        /\ \/ /\ "OUT" \notin port.event                      \* EAGAIN
              /\ port' = release_coport_status(port, "OPEN")
              /\ UNCHANGED <<data, sent, stale>>
           \/ /\ "OUT" \in port.event
              /\ data' = [i \in DOMAIN data |->
                            IF i \in Written(port.end, len)
                            THEN sent + 1 + ((i - port.end) % COPORT_BUF_LEN) ELSE data[i]]
              /\ sent' = sent + len
              /\ stale' = (stale \/ loc[t].read # port.length)
              /\ port' = release_coport_status(
                           [port EXCEPT !.end = Advance(@, len), !.length = new_len,
                                        !.event = SendEvent(@, new_len)], "OPEN")
        /\ UNCHANGED <<tableVars, inbox, received>>

cochannel_recv(t, len) ==
    /\ Call(t, "crecv", [type |-> "none", len |-> len, read |-> port.length])
    /\ UNCHANGED <<tableVars, ipcVars>>

ChanRecvAcquire(t) == acquire_coport_status(t, "crecv", "OPEN", "cread")

ChanRead(t) ==
    LET len == loc[t].len
        new_len == (loc[t].read - len) % SIZE_MODULUS
    IN  /\ Return(t, "cread")
        /\ \/ /\ "IN" \notin port.event                       \* EAGAIN
              /\ port' = release_coport_status(port, "OPEN")
              /\ UNCHANGED <<received, stale>>
           \/ /\ "IN" \in port.event
              /\ received' = received + len
              /\ stale' = (stale \/ loc[t].read # port.length \/ loc[t].read < len)
              /\ port' = release_coport_status(
                           [port EXCEPT !.start = Advance(@, len), !.length = new_len,
                                        !.event = RecvEvent(@, new_len)], "OPEN")
        /\ UNCHANGED <<tableVars, data, inbox, sent>>

-----------------------------------------------------------------------------
\* How a call reaches them.  On RISC-V the sealed code capability of the type
\* is invoked; elsewhere one trampoline serves both and looks at the port.
cosend_impl_copipe(t, len) ==
    validate_coport_op_args(COPORT_BUF_LEN, len) /\ copipe_send(t, len)
corecv_impl_copipe(t, len) ==
    validate_coport_op_args(COPORT_BUF_LEN, len) /\ copipe_recv(t, len)
cosend_impl_cochannel(t, len) ==
    validate_coport_op_args(COPORT_BUF_LEN, len) /\ cochannel_send(t, len)
corecv_impl_cochannel(t, len) ==
    validate_coport_op_args(COPORT_BUF_LEN, len) /\ cochannel_recv(t, len)

cosend(t, len) == \/ Usable("COPIPE") /\ cosend_impl_copipe(t, len)
                  \/ Usable("COCHANNEL") /\ cosend_impl_cochannel(t, len)
corecv(t, len) == \/ Usable("COPIPE") /\ corecv_impl_copipe(t, len)
                  \/ Usable("COCHANNEL") /\ corecv_impl_cochannel(t, len)

\* coclose: the early test of the status, then the same swap.
coport_close(t) == /\ port # NULL /\ ~Closed
                   /\ Call(t, "close", NoLocals)
                   /\ UNCHANGED <<tableVars, ipcVars>>

\* Mutant: coclose also takes a copipe whose receiver waits.
CloseAcquireWaiting(t) == \/ acquire_coport_status(t, "close", "OPEN", "closing")
                          \/ acquire_coport_status(t, "close", "READY", "closing")

CloseAcquire(t) == acquire_coport_status(t, "close", "OPEN", "closing")

CloseMark(t) ==
    /\ Return(t, "closing")
    /\ port' = release_coport_status(
                 [port EXCEPT !.event = (@ \ {"OUT"}) \cup {"CLOSED"}], "CLOSING")
    /\ UNCHANGED <<tableVars, data, inbox, sent, received, stale>>

\* Everything a thread does once its call has started.
Proceed(t) == \/ PipeSendAcquire(t) \/ PipeCopy(t)
              \/ PipeRecvAcquire(t) \/ PipeLend(t) \/ PipeWait(t) \/ PipeTake(t)
              \/ ChanSendAcquire(t) \/ ChanWrite(t)
              \/ ChanRecvAcquire(t) \/ ChanRead(t)
              \/ CloseAcquire(t) \/ CloseMark(t)
              \/ \E from \in {"psend", "precv", "pwait", "csend", "crecv", "close"} :
                    GiveUp(t, from)

Next == \E t \in Threads :
           \/ OpenSteps(t) /\ UNCHANGED ipcVars
           \/ Opened(t)
           \/ \E len \in Lens : cosend(t, len) \/ corecv(t, len)
           \/ coport_close(t)
           \/ Proceed(t)

Fairness == \A t \in Threads : WF_vars(Proceed(t))

Spec == Init /\ [][Next]_vars /\ Fairness

-----------------------------------------------------------------------------
Holding == {"pcopy", "plend", "ptake", "cwrite", "cread", "closing"}

\* The status word is a lock: at most one thread is between a successful
\* acquire_coport_status and its release, and the word says BUSY all that time
\* (five call sites and coclose share the word; coport_ipc_utils.c 178, 208).
Exclusive == /\ \A t, u \in Threads : pc[t] \in Holding /\ pc[u] \in Holding => t = u
             /\ \A t \in Threads : pc[t] \in Holding => port.status = "BUSY"

\* A sender can only write to the memory of a thread that is inside corecv: the
\* port never holds the buffer of a receive that returned (copipe_recv 383-402).
LentBufferIsLive == port # NULL /\ port.buf # NULL =>
    pc[port.buf.owner] \in {"pwait", "ptake"}

\* A receive returns the length of the one message that was copied into its
\* buffer, whatever other senders and receivers do meanwhile (copipe_send
\* 232-246, copipe_recv 391-401).  A receive that lent no valid buffer is
\* excepted: it returns what info->length held, 16 in a new copipe.
OneSendPerReceive == \A t \in Threads :
    pc[t] = "ptake" /\ loc[t].tag => inbox[t] = <<port.length>>

\* As long as no operation stored a length computed from a stale one, and no
\* receive asked for more than there was, a cochannel is a queue of bytes: its
\* length is what was sent and not received, and the bytes from start on are
\* the next ones in order (cochannel_send 259-296, cochannel_recv 317-351).
ChannelIsQueue == port # NULL /\ port.type = "COCHANNEL" /\ ~stale =>
    /\ port.length = sent - received /\ port.length <= COPORT_BUF_LEN
    /\ \A k \in 0 .. port.length - 1 : data[Advance(port.start, k)] = received + k + 1

\* Under the same condition the event mask of an open cochannel says whether
\* there is data and whether there is room (298-301, 353-356): the operations
\* test the mask, not the length.
EventsMatchLength == port # NULL /\ port.type = "COCHANNEL" /\ port.status = "OPEN" /\ ~stale =>
    /\ "IN" \in port.event <=> port.length # 0
    /\ "OUT" \in port.event <=> port.length # COPORT_BUF_LEN

\* A receiver that lent a buffer is served once a sender whose message fits is
\* in cosend: neither too long messages of other senders (EMSGSIZE puts the
\* status back to READY) nor a coclose, which waits, can prevent it.
RendezvousCompletes == \A t \in Threads :
    (/\ pc[t] = "pwait" /\ loc[t].tag
     /\ \E u \in Threads : pc[u] = "psend" /\ loc[u].len <= loc[t].len)
        ~> (pc[t] # "pwait" \/ ~alive)

\* Copipes implement the abstract rendezvous: a thread has offered its buffer
\* from the store of READY on, and has been handed what the sender copied when
\* DONE is stored; coclose happens only while nobody waits.
Abstract == INSTANCE Rendezvous WITH
    Messages <- {<<>>} \cup {<<len>> : len \in Lens},
    wait   <- [t \in Threads |->
                 IF pc[t] \notin {"pwait", "ptake"} THEN <<"no">>
                 ELSE IF pc[t] = "ptake" \/ port.status = "DONE" THEN <<"handed", inbox[t]>>
                 ELSE <<"offered">>],
    closed <- port # NULL /\ Closed
ImplementsRendezvous == Abstract!Spec
=============================================================================
