-------------------------- MODULE CocarrierProofs ---------------------------
(* Proofs about Cocarrier, for any number of workers, any ring size and any   *)
(* number of messages: the types, the lock and the event mask; the ring and   *)
(* who takes what; what holds until a sender laps a worker; and that the      *)
(* cocarrier implements the queue of module Anycast in the behaviours in      *)
(* which no sender laps a worker.                                             *)
EXTENDS Cocarrier, SequenceTheorems, TLAPS

-----------------------------------------------------------------------------
(* Positions modulo the size of a ring.  The solvers know quotient and       *)
(* remainder only through DivMod: each fact is brought back to it by hand.   *)

\* Quotient and remainder, as the solver knows them.
LEMMA DivMod ==
    ASSUME NEW N \in Nat \ {0}, NEW a \in Nat
    PROVE  a = N * (a \div N) + (a % N) /\ a \div N \in Nat /\ a % N \in 0 .. N - 1
  BY Z3

\* The remainder is the only r below N with a = N * q + r.
LEMMA ModUnique ==
    ASSUME NEW N \in Nat \ {0}, NEW a \in Nat,
           NEW q \in Nat, NEW r \in 0 .. N - 1, a = N * q + r
    PROVE  a % N = r
  <1> DEFINE p == a \div N  s == a % N
  <1>1. N * p + s = N * q + r /\ p \in Nat /\ s \in 0 .. N - 1
    BY DivMod, Zenon
  <1> HIDE DEF p
  <1>2. CASE p < q
    <2>1. N * q >= N * (p + 1)  BY <1>1, <1>2
    <2> HIDE DEF s
    <2> QED  BY <2>1, <1>1
  <1>3. CASE p > q
    <2>1. N * p >= N * (q + 1)  BY <1>1, <1>3
    <2> HIDE DEF s
    <2> QED  BY <2>1, <1>1
  <1>4. CASE p = q
    BY <1>1, <1>4
  <1> QED  BY <1>1, <1>2, <1>3, <1>4

\* Taking the remainder first makes no difference to a later one.
LEMMA ModAdd ==
    ASSUME NEW N \in Nat \ {0}, NEW a \in Nat, NEW b \in Nat
    PROVE  ((a % N) + b) % N = (a + b) % N
  <1> DEFINE p == a \div N  s == a % N  c == s + b  u == c \div N  v == c % N
  <1>1. a = N * p + s /\ p \in Nat /\ s \in 0 .. N - 1
    BY DivMod, Zenon
  <1>2. c \in Nat
    BY <1>1
  <1>3. c = N * u + v /\ u \in Nat /\ v \in 0 .. N - 1
    BY <1>2, DivMod, Zenon
  <1> HIDE DEF p, s, u, v
  <1>4. a + b = N * (p + u) + v /\ p + u \in Nat /\ a + b \in Nat
    BY <1>1, <1>3
  <1>5. (a + b) % N = v
    BY <1>3, <1>4, ModUnique, Zenon
  <1> QED  BY <1>5, Zenon DEF v, s

\* Two numbers less than N apart have different remainders.
LEMMA ModInjective ==
    ASSUME NEW N \in Nat \ {0}, NEW a \in Nat, NEW b \in Nat, a < b, b < a + N
    PROVE  a % N # b % N
  <1> DEFINE p == a \div N  s == a % N  q == b \div N  r == b % N
  <1> SUFFICES ASSUME s = r PROVE FALSE
    BY Zenon
  <1>1. a = N * p + s /\ p \in Nat /\ s \in 0 .. N - 1
    BY DivMod, Zenon
  <1>2. b = N * q + r /\ q \in Nat /\ r \in 0 .. N - 1
    BY DivMod, Zenon
  <1> HIDE DEF p, s, q, r
  <1>3. p < q
    BY <1>1, <1>2
  <1>4. N * q >= N * (p + 1)
    BY <1>1, <1>2, <1>3
  <1> QED  BY <1>1, <1>2, <1>4


USE SizeAssumption DEF Status, Bits, Lengths, Indices, Locked, Unlocked, Points, NULL

-----------------------------------------------------------------------------
(* Types, lock and event mask *)

\* TypeOK is inductive together with the fact that the ring holds no more
\* messages than were sent (taken is computed by subtraction).
Counted == length <= nsent

\* The index after an index is an index (the % of cosend.c:208, corecv.c:94).
LEMMA SuccType == ASSUME NEW j \in Indices PROVE Succ(j) \in Indices
  <1>1. (j + 1) % COCARRIER_SIZE \in 0 .. COCARRIER_SIZE - 1
    BY DivMod
  <1> QED  BY <1>1, Zenon DEF Succ

\* What a return does to the worker's position and locals keeps their types.
LocalsOK ==
    /\ pc \in [Workers -> Points]
    /\ idx \in [Workers -> Indices]
    /\ closing \subseteq Workers
    /\ saved \in [Workers -> {"OPEN", "CLOSING"}]
    /\ msg \in [Workers -> Nat] /\ oob \in [Workers -> Nat] /\ taken \in [Workers -> Nat]

\* A handler's return keeps the types of its locals.
LEMMA ReturnType ==
    ASSUME LocalsOK, NEW t \in Workers, NEW from, Return(t, from)
    PROVE  LocalsOK'
  <1> USE DEF LocalsOK, Return, Goto
  <1>1. pc' \in [Workers -> Points]  BY Zenon
  <1>2. idx' \in [Workers -> Indices]  OBVIOUS
  <1>3. closing' \subseteq Workers  BY Zenon
  <1>4. saved' \in [Workers -> {"OPEN", "CLOSING"}]  BY Zenon
  <1>5. msg' \in [Workers -> Nat] /\ oob' \in [Workers -> Nat] /\ taken' \in [Workers -> Nat]  BY Zenon
  <1> QED  BY <1>1, <1>2, <1>3, <1>4, <1>5, Zenon

\* A port that coport_open just made is well typed.
LEMMA TypeInit == Init => TypeOK /\ Counted
  BY DEF Init, TypeOK, Counted, COPOLL_INIT_EVENTS

\* Every step of every handler keeps the types, one step per action.
LEMMA TypeStep == TypeOK /\ Counted /\ [Next]_vars => TypeOK' /\ Counted'
  <1> SUFFICES ASSUME TypeOK, Counted, [Next]_vars PROVE TypeOK' /\ Counted'
    BY Zenon
  <1> USE DEF TypeOK, Counted, info, slots, locals, client
  <1>a. ASSUME NEW t \in Workers, NEW from, Return(t, from) PROVE LocalsOK'
    BY Zenon, <1>a, ReturnType DEF LocalsOK
  <1>1. ASSUME NEW t \in Workers, SendCall(t) PROVE TypeOK' /\ Counted'
    BY Zenon, <1>1 DEF Goto, SendCall
  <1>2. ASSUME NEW t \in Workers, SendEpipe(t) PROVE TypeOK' /\ Counted'
    BY Zenon, <1>2, <1>a DEF LocalsOK, SendEpipe
  <1>3. ASSUME NEW t \in Workers, SendLock(t) PROVE TypeOK' /\ Counted'
    BY Zenon, <1>3 DEF Goto, SendLock
  <1>4. ASSUME NEW t \in Workers, SendAgain(t) PROVE TypeOK' /\ Counted'
    BY Zenon, <1>4, <1>a DEF LocalsOK, SendAgain
  <1>5. ASSUME NEW t \in Workers, SendCommit(t) PROVE TypeOK' /\ Counted'
    <2> USE <1>5 DEF SendCommit
    <2>1. end' \in Indices  BY SuccType, Zenon
    <2>2. length' \in Lengths /\ length' <= nsent' /\ nsent' \in Nat  BY DEF MaySend
    <2>3. event' \subseteq Bits  BY Zenon DEF SentMask
    <2>4. buf' \in [Indices -> Nat] /\ att' \in [Indices -> Nat] /\ heap' \subseteq Nat  BY Zenon, <2>2
    <2>5. pc' \in [Workers -> Points]  BY Zenon DEF Goto
    <2> QED  BY Zenon, <2>1, <2>2, <2>3, <2>4, <2>5
  <1>6. ASSUME NEW t \in Workers, RecvCall(t) PROVE TypeOK' /\ Counted'
    BY Zenon, <1>6 DEF Goto, RecvCall
  <1>7. ASSUME NEW t \in Workers, RecvSeesClosing(t) PROVE TypeOK' /\ Counted'
    BY Zenon, <1>7 DEF Goto, RecvSeesClosing
  <1>8. ASSUME NEW t \in Workers, RecvLock(t) PROVE TypeOK' /\ Counted'
    BY Zenon, <1>8 DEF Goto, RecvLock
  <1>9. ASSUME NEW t \in Workers, RecvAgain(t) PROVE TypeOK' /\ Counted'
    BY Zenon, <1>9, <1>a DEF LocalsOK, RecvAgain
  <1>10. ASSUME NEW t \in Workers, RecvTake(t) PROVE TypeOK' /\ Counted'
    <2> USE <1>10 DEF RecvTake
    <2>1. start' \in Indices  BY SuccType, Zenon
    <2>2. length' \in Lengths /\ length' <= nsent /\ nsent - length + 1 \in Nat  BY DEF MayRecv
    <2>3. event' \subseteq Bits  BY Zenon DEF RecvMask
    <2>4. pc' \in [Workers -> Points]  BY Zenon DEF Goto
    <2> QED  BY Zenon, <2>1, <2>2, <2>3, <2>4
  <1>11. ASSUME NEW t \in Workers, RecvRead(t) PROVE TypeOK' /\ Counted'
    BY Zenon, <1>11 DEF Goto, RecvRead
  <1>12. ASSUME NEW t \in Workers, RecvMark(t) PROVE TypeOK' /\ Counted'
    BY Zenon, <1>12 DEF Goto, RecvMark
  <1>13. ASSUME NEW t \in Workers, SendNotify(t) PROVE TypeOK' /\ Counted'
    BY Zenon, <1>13, <1>a DEF LocalsOK, SendNotify, Notify
  <1>14. ASSUME NEW t \in Workers, RecvNotify(t) PROVE TypeOK' /\ Counted'
    <2> USE <1>14 DEF RecvNotify
    <2>1. taken[t] \in Nat /\ msg[t] \in Nat /\ oob[t] \in Nat  BY Zenon
    <2>2. <<taken[t], msg[t], oob[t]>> \in Nat \X Nat \X Nat  BY <2>1, Zenon
    <2>3. receipt' \subseteq Nat \X Nat \X Nat  BY <2>2, Zenon
    <2>4. status' \in Status  BY Zenon DEF Notify
    <2> QED  BY Zenon, <2>3, <2>4, <1>a DEF LocalsOK
  <1>15. ASSUME NEW t \in Workers, CloseCall(t) PROVE TypeOK' /\ Counted'
    BY Zenon, <1>15 DEF Goto, CloseCall
  <1>16. ASSUME NEW t \in Workers, CloseEpipe(t) PROVE TypeOK' /\ Counted'
    BY Zenon, <1>16, <1>a DEF LocalsOK, CloseEpipe
  <1>17. ASSUME NEW t \in Workers, CloseLock(t) PROVE TypeOK' /\ Counted'
    BY Zenon, <1>17 DEF Goto, CloseLock
  <1>18. ASSUME NEW t \in Workers, CloseCommit(t) PROVE TypeOK' /\ Counted'
    BY Zenon, <1>18, <1>a DEF LocalsOK, CloseCommit, CloseMask
  <1>19. ASSUME NEW t \in Workers, NEW i \in Indices, FreeFind(t, i) PROVE TypeOK' /\ Counted'
    BY Zenon, <1>19 DEF Goto, FreeFind
  <1>20. ASSUME NEW t \in Workers, FreeMark(t) PROVE TypeOK' /\ Counted'
    BY Zenon, <1>20 DEF Goto, FreeMark
  <1>21. ASSUME NEW t \in Workers, FreeLost(t) PROVE TypeOK' /\ Counted'
    BY Zenon, <1>21, <1>a DEF LocalsOK, FreeLost
  <1>22. ASSUME NEW t \in Workers, FreeClear(t) PROVE TypeOK' /\ Counted'
    BY Zenon, <1>22, <1>a DEF LocalsOK, FreeClear
  <1>23. CASE UNCHANGED vars
    BY <1>23, Zenon DEF vars
  <1> QED
    BY ZenonT(60), <1>1, <1>2, <1>3, <1>4, <1>5, <1>6, <1>7, <1>8, <1>9, <1>10, <1>11, <1>12, <1>13,
       <1>14, <1>15, <1>16, <1>17, <1>18, <1>19, <1>20, <1>21, <1>22, <1>23
    DEF Next, Call, Step
-----------------------------------------------------------------------------
(* The inductive invariant *)

\* Message n is stored at position Pos(n); Queued are the messages in the ring.
Pos(n) == (n - 1) % COCARRIER_SIZE
Queued == nsent - length + 1 .. nsent

Receiving == {"r_read", "r_mark", "r_notify"}
Freeing   == {"f_mark", "f_clear"}

\* Why coclose is final: after it, either the port is CLOSING, or a receiver is
\* about to restore that status, or the ring is empty (and stays so).
ClosingInv ==
    /\ \A t \in closing : "CLOSED" \in event
    /\ status = "CLOSING" => "CLOSED" \in event
    /\ \A t \in Workers : pc[t] = "r_body" /\ saved[t] = "CLOSING" => t \in closing
    /\ "CLOSED" \in event =>
          \/ status = "CLOSING" \/ length = 0
          \/ \E t \in Workers : pc[t] = "r_body" /\ saved[t] = "CLOSING"

\* Where the messages are, whoever laps whom.
RingInv ==
    /\ start = Pos(nsent - length + 1) /\ end = Pos(nsent + 1)
    /\ \A n \in Queued : att[Pos(n)] = n
    /\ \A i \in Indices : buf[i] \in {att[i], NULL} /\ (att[i] # NULL => i = Pos(att[i]))

\* Each message is taken once.
TakenInv ==
    /\ \A t \in Workers : pc[t] \in Receiving => taken[t] \in 1 .. nsent - length
    /\ \A t, u \in Workers :
          pc[t] \in Receiving /\ pc[u] \in Receiving /\ taken[t] = taken[u] => t = u
    /\ \A r \in receipt : r[1] \in 1 .. nsent - length
    /\ \A r \in receipt, t \in Workers : pc[t] \in Receiving => r[1] # taken[t]

\* As long as nobody was lapped: every queued message is whole and allocated, and
\* no worker uses its slot outside the lock;
QueuedInv ==
    \A n \in Queued :
        /\ buf[Pos(n)] = n /\ Pos(n) \notin recvd /\ n \in heap
        /\ \A t \in Workers : pc[t] \in Unlocked => idx[t] # Pos(n)

\* a receiver's slot still holds what it took;
ReceiverInv ==
    \A t \in Workers :
        /\ pc[t] \in {"r_read", "r_mark"} =>
              att[idx[t]] = taken[t] /\ buf[idx[t]] = taken[t] /\ idx[t] \notin recvd
        /\ pc[t] \in {"r_mark", "r_notify"} => msg[t] = taken[t]
        /\ pc[t] = "r_notify" => oob[t] = taken[t]
        /\ pc[t] \in Receiving => taken[t] \in heap

\* every receipt is for the message that was taken;
ReceiptInv == \A r \in receipt : r[2] = r[1] /\ r[3] = r[1]

\* a received slot that is not marked freed has its buffer, and a worker that frees
\* a message has its slot; once it has won the CAS, it alone.
FreeingInv ==
    /\ \A i \in recvd \ freed : buf[i] = att[i] /\ att[i] \in heap
    /\ \A t \in Workers : pc[t] \in Freeing =>
          /\ idx[t] \in recvd /\ att[idx[t]] = msg[t] /\ msg[t] # NULL
          /\ \E r \in receipt : r[1] = msg[t]
    /\ \A t \in Workers : pc[t] = "f_clear" =>
          /\ idx[t] \in freed /\ msg[t] \in heap
          /\ \A u \in Workers : pc[u] = "f_clear" /\ idx[u] = idx[t] => u = t

UnlappedInv == QueuedInv /\ ReceiverInv /\ ReceiptInv /\ FreeingInv

-----------------------------------------------------------------------------
(* The status word is a lock *)

\* A new port is OPEN and nobody is in a critical section.
LEMMA LockInit == Init => StatusIsLock
  BY Zenon DEF Init, StatusIsLock

\* The CAS loops of cosend.c:164, corecv.c:68 and coclose.c:66 let one worker in,
\* and the stores that end the sections let it out.
LEMMA LockStep == TypeOK /\ StatusIsLock /\ [Next]_vars => StatusIsLock'
  <1> SUFFICES ASSUME TypeOK, StatusIsLock, [Next]_vars PROVE StatusIsLock'
    BY Zenon
  <1> USE DEF TypeOK, StatusIsLock, Goto, Return, info
  <1>1. ASSUME NEW t \in Workers, SendCall(t) PROVE StatusIsLock'
    BY ZenonT(60), <1>1 DEF SendCall
  <1>2. ASSUME NEW t \in Workers, SendEpipe(t) PROVE StatusIsLock'
    BY <1>2, Zenon DEF SendEpipe
  <1>3. ASSUME NEW t \in Workers, SendLock(t) PROVE StatusIsLock'
    BY <1>3, ZenonT(60) DEF SendLock
  <1>4. ASSUME NEW t \in Workers, SendAgain(t) PROVE StatusIsLock'
    BY ZenonT(60), <1>4 DEF SendAgain
  <1>5. ASSUME NEW t \in Workers, SendCommit(t) PROVE StatusIsLock'
    BY ZenonT(60), <1>5 DEF SendCommit
  <1>6. ASSUME NEW t \in Workers, RecvCall(t) PROVE StatusIsLock'
    BY ZenonT(60), <1>6 DEF RecvCall
  <1>7. ASSUME NEW t \in Workers, RecvSeesClosing(t) PROVE StatusIsLock'
    BY <1>7, Zenon DEF RecvSeesClosing
  <1>8. ASSUME NEW t \in Workers, RecvLock(t) PROVE StatusIsLock'
    BY ZenonT(60), <1>8 DEF RecvLock
  <1>9. ASSUME NEW t \in Workers, RecvAgain(t) PROVE StatusIsLock'
    BY ZenonT(60), <1>9 DEF RecvAgain
  <1>10. ASSUME NEW t \in Workers, RecvTake(t) PROVE StatusIsLock'
    BY ZenonT(60), <1>10 DEF RecvTake
  <1>11. ASSUME NEW t \in Workers, RecvRead(t) PROVE StatusIsLock'
    BY ZenonT(60), <1>11 DEF RecvRead
  <1>12. ASSUME NEW t \in Workers, RecvMark(t) PROVE StatusIsLock'
    BY <1>12, ZenonT(60) DEF RecvMark
  <1>13. ASSUME NEW t \in Workers, SendNotify(t) PROVE StatusIsLock'
    BY ZenonT(60), <1>13 DEF SendNotify, Notify
  <1>14. ASSUME NEW t \in Workers, RecvNotify(t) PROVE StatusIsLock'
    BY ZenonT(60), <1>14 DEF RecvNotify, Notify
  <1>15. ASSUME NEW t \in Workers, CloseCall(t) PROVE StatusIsLock'
    BY ZenonT(60), <1>15 DEF CloseCall
  <1>16. ASSUME NEW t \in Workers, CloseEpipe(t) PROVE StatusIsLock'
    BY <1>16, Zenon DEF CloseEpipe
  <1>17. ASSUME NEW t \in Workers, CloseLock(t) PROVE StatusIsLock'
    BY <1>17, Zenon DEF CloseLock
  <1>18. ASSUME NEW t \in Workers, CloseCommit(t) PROVE StatusIsLock'
    BY ZenonT(60), <1>18 DEF CloseCommit
  <1>19. ASSUME NEW t \in Workers, NEW i \in Indices, FreeFind(t, i) PROVE StatusIsLock'
    BY ZenonT(60), <1>19 DEF FreeFind
  <1>20. ASSUME NEW t \in Workers, FreeMark(t) PROVE StatusIsLock'
    BY ZenonT(60), <1>20 DEF FreeMark
  <1>21. ASSUME NEW t \in Workers, FreeLost(t) PROVE StatusIsLock'
    BY ZenonT(60), <1>21 DEF FreeLost
  <1>22. ASSUME NEW t \in Workers, FreeClear(t) PROVE StatusIsLock'
    BY ZenonT(60), <1>22 DEF FreeClear
  <1>23. CASE UNCHANGED vars
    BY <1>23, Zenon DEF vars
  <1> QED
    BY ZenonT(60), <1>1, <1>2, <1>3, <1>4, <1>5, <1>6, <1>7, <1>8, <1>9, <1>10, <1>11, <1>12, <1>13,
       <1>14, <1>15, <1>16, <1>17, <1>18, <1>19, <1>20, <1>21, <1>22, <1>23
    DEF Next, Call, Step
-----------------------------------------------------------------------------
(* The event mask tells the truth, and coclose is final *)

\* A new port is empty, writable and not closed.
LEMMA ClosingInit == Init => EventsAgree /\ ClosingInv
  BY DEF Init, EventsAgree, ClosingInv, COPOLL_INIT_EVENTS

\* The mask updates of cosend.c:218, corecv.c:98 and coclose.c:77 keep the mask in
\* step with the ring; a receiver that saw CLOSING never sets OUT again.
LEMMA ClosingStep ==
    TypeOK /\ StatusIsLock /\ EventsAgree /\ ClosingInv /\ [Next]_vars => EventsAgree' /\ ClosingInv'
  <1> SUFFICES ASSUME TypeOK, StatusIsLock, EventsAgree, ClosingInv, [Next]_vars
               PROVE  EventsAgree' /\ ClosingInv'
    BY Zenon
  <1> USE DEF TypeOK, StatusIsLock, EventsAgree, ClosingInv, Goto, Return, info, locals
  <1>1. ASSUME NEW t \in Workers, SendCall(t) PROVE EventsAgree' /\ ClosingInv'
    BY ZenonT(60), <1>1 DEF SendCall
  <1>2. ASSUME NEW t \in Workers, SendEpipe(t) PROVE EventsAgree' /\ ClosingInv'
    BY ZenonT(60), <1>2 DEF SendEpipe
  <1>3. ASSUME NEW t \in Workers, SendLock(t) PROVE EventsAgree' /\ ClosingInv'
    BY <1>3, Zenon DEF SendLock
  <1>4. ASSUME NEW t \in Workers, SendAgain(t) PROVE EventsAgree' /\ ClosingInv'
    BY <1>4, Zenon DEF SendAgain, MaySend
  <1>5. ASSUME NEW t \in Workers, SendCommit(t) PROVE EventsAgree' /\ ClosingInv'
    <2>1. /\ length < COCARRIER_SIZE /\ "OUT" \in event /\ length' = length + 1
          /\ event' = SentMask(event, length') /\ status' = "DONE" /\ UNCHANGED <<closing, saved>>
          /\ \A u \in Workers : pc'[u] = "r_body" => pc[u] = "r_body"
      BY <1>5, Zenon DEF SendCommit, MaySend
    <2>2. length \in Lengths /\ "CLOSED" \notin event
      BY <2>1, Zenon
    <2>3. length' > 0 /\ (length' < COCARRIER_SIZE <=> length' # COCARRIER_SIZE)
      BY ONLY <2>1, <2>2, SizeAssumption DEF Lengths
    <2>4. /\ "IN" \in event' /\ "CLOSED" \notin event'
          /\ "OUT" \in event' <=> length' # COCARRIER_SIZE
      BY ONLY <2>1, <2>2 DEF SentMask
    <2>5. EventsAgree'
      BY ONLY <2>3, <2>4, Zenon DEF EventsAgree
    <2> QED  BY ONLY <2>1, <2>2, <2>4, <2>5, ClosingInv, Zenon DEF ClosingInv
  <1>6. ASSUME NEW t \in Workers, RecvCall(t) PROVE EventsAgree' /\ ClosingInv'
    BY ZenonT(60), <1>6 DEF RecvCall
  <1>7. ASSUME NEW t \in Workers, RecvSeesClosing(t) PROVE EventsAgree' /\ ClosingInv'
    BY <1>7, Zenon DEF RecvSeesClosing
  <1>8. ASSUME NEW t \in Workers, RecvLock(t) PROVE EventsAgree' /\ ClosingInv'
    BY <1>8, ZenonT(60) DEF RecvLock
  <1>9. ASSUME NEW t \in Workers, RecvAgain(t) PROVE EventsAgree' /\ ClosingInv'
    <2>1. /\ length = 0 \/ "IN" \notin event
          /\ event' = event \cup {"RERR"} /\ status' = "OPEN" /\ length' = length
          /\ closing' \subseteq closing
          /\ \A u \in Workers : pc'[u] = "r_body" => u # t /\ pc[u] = "r_body" /\ saved'[u] = saved[u]
      BY <1>9, Zenon DEF RecvAgain, MayRecv
    <2>2. closing' = closing \ {t}
      BY <1>9, Zenon DEF RecvAgain
    <2>3. length \in Lengths
      BY Zenon
    <2>4. length = 0
      BY ONLY <2>1, <2>3, SizeAssumption, EventsAgree DEF EventsAgree, Lengths
    <2>5. EventsAgree'
      BY ONLY <2>1, EventsAgree, Zenon DEF EventsAgree
    <2> QED  BY ONLY <2>1, <2>2, <2>4, <2>5, ClosingInv, Zenon DEF ClosingInv
  <1>10. ASSUME NEW t \in Workers, RecvTake(t) PROVE EventsAgree' /\ ClosingInv'
    <2>1. /\ length # 0 /\ length' = length - 1 /\ event' = RecvMask(event, length', t \in closing)
          /\ status' = saved[t] /\ pc[t] = "r_body" /\ UNCHANGED <<closing, saved>>
          /\ \A u \in Workers : pc'[u] = "r_body" => pc[u] = "r_body"
      BY <1>10, Zenon DEF RecvTake, MayRecv
    <2>2. /\ length \in Lengths /\ status # "CLOSING"
          /\ \A u \in Workers : pc[u] = "r_body" => u = t
      BY <2>1, Zenon
    <2>3. /\ "IN" \in event
          /\ t \in closing => "CLOSED" \in event
          /\ "CLOSED" \in event => saved[t] = "CLOSING" /\ t \in closing
      <3>1. length > 0
        BY ONLY <2>1, <2>2, SizeAssumption DEF Lengths
      <3> QED  BY <2>1, <2>2, <3>1, Zenon
    <2>4. length' < COCARRIER_SIZE /\ (length' > 0 <=> length' # 0)
      BY ONLY <2>1, <2>2, SizeAssumption DEF Lengths
    <2>5. /\ "IN" \in event' <=> length' # 0
          /\ "CLOSED" \in event' <=> "CLOSED" \in event
          /\ "OUT" \in event' <=> "OUT" \in event \/ t \notin closing
      BY ONLY <2>1, <2>3 DEF RecvMask
    <2>6. "OUT" \in event => "CLOSED" \notin event
      BY ONLY EventsAgree, Zenon DEF EventsAgree
    <2>7. EventsAgree'
      BY ONLY <2>3, <2>4, <2>5, <2>6, Zenon DEF EventsAgree
    <2> QED  BY ONLY <2>1, <2>2, <2>3, <2>5, <2>7, ClosingInv, ZenonT(60) DEF ClosingInv
  <1>11. ASSUME NEW t \in Workers, RecvRead(t) PROVE EventsAgree' /\ ClosingInv'
    BY <1>11, Zenon DEF RecvRead
  <1>12. ASSUME NEW t \in Workers, RecvMark(t) PROVE EventsAgree' /\ ClosingInv'
    BY ZenonT(60), <1>12 DEF RecvMark
  <1>13. ASSUME NEW t \in Workers, SendNotify(t) PROVE EventsAgree' /\ ClosingInv'
    BY ZenonT(60), <1>13 DEF SendNotify, Notify
  <1>14. ASSUME NEW t \in Workers, RecvNotify(t) PROVE EventsAgree' /\ ClosingInv'
    BY ZenonT(60), <1>14 DEF RecvNotify, Notify
  <1>15. ASSUME NEW t \in Workers, CloseCall(t) PROVE EventsAgree' /\ ClosingInv'
    BY ZenonT(60), <1>15 DEF CloseCall
  <1>16. ASSUME NEW t \in Workers, CloseEpipe(t) PROVE EventsAgree' /\ ClosingInv'
    BY ZenonT(60), <1>16 DEF CloseEpipe
  <1>17. ASSUME NEW t \in Workers, CloseLock(t) PROVE EventsAgree' /\ ClosingInv'
    BY <1>17, Zenon DEF CloseLock
  <1>18. ASSUME NEW t \in Workers, CloseCommit(t) PROVE EventsAgree' /\ ClosingInv'
    BY <1>18, ZenonT(60) DEF CloseCommit, CloseMask
  <1>19. ASSUME NEW t \in Workers, NEW i \in Indices, FreeFind(t, i) PROVE EventsAgree' /\ ClosingInv'
    BY Zenon, <1>19 DEF FreeFind
  <1>20. ASSUME NEW t \in Workers, FreeMark(t) PROVE EventsAgree' /\ ClosingInv'
    BY ZenonT(60), <1>20 DEF FreeMark
  <1>21. ASSUME NEW t \in Workers, FreeLost(t) PROVE EventsAgree' /\ ClosingInv'
    BY ZenonT(60), <1>21 DEF FreeLost
  <1>22. ASSUME NEW t \in Workers, FreeClear(t) PROVE EventsAgree' /\ ClosingInv'
    BY ZenonT(60), <1>22 DEF FreeClear
  <1>23. CASE UNCHANGED vars
    BY <1>23, Zenon DEF vars
  <1> QED
    BY ZenonT(60), <1>1, <1>2, <1>3, <1>4, <1>5, <1>6, <1>7, <1>8, <1>9, <1>10, <1>11, <1>12, <1>13,
       <1>14, <1>15, <1>16, <1>17, <1>18, <1>19, <1>20, <1>21, <1>22, <1>23
    DEF Next, Call, Step

-----------------------------------------------------------------------------
(* The ring *)

\* Positions: inside the ring, next to each other, and apart within one lap.
LEMMA PosType == ASSUME NEW n \in Nat \ {0} PROVE Pos(n) \in Indices
  BY DivMod DEF Pos

\* The position after that of message n is that of message n + 1.
LEMMA PosSucc == ASSUME NEW n \in Nat \ {0} PROVE Succ(Pos(n)) = Pos(n + 1)
  <1> DEFINE a == n - 1
  <1>1. a \in Nat /\ 1 \in Nat /\ a + 1 = (n + 1) - 1
    OBVIOUS
  <1> HIDE DEF a
  <1>2. ((a % COCARRIER_SIZE) + 1) % COCARRIER_SIZE = (a + 1) % COCARRIER_SIZE
    BY ONLY Zenon, <1>1, ModAdd, SizeAssumption
  <1> QED  BY <1>1, <1>2, Zenon DEF Pos, Succ, a

\* Messages less than one lap apart have different positions.
LEMMA PosApart ==
    ASSUME NEW m \in Nat \ {0}, NEW n \in Nat \ {0}, m < n, n < m + COCARRIER_SIZE
    PROVE  Pos(m) # Pos(n)
  <1>1. m - 1 \in Nat /\ n - 1 \in Nat /\ m - 1 < n - 1 /\ n - 1 < (m - 1) + COCARRIER_SIZE
    OBVIOUS
  <1> QED  BY Zenon, <1>1, ModInjective DEF Pos

\* The queued messages have distinct positions, none of them the one that the
\* next message gets.
LEMMA QueuedApart ==
    ASSUME TypeOK, Counted, NEW n \in Queued
    PROVE  /\ n \in Nat \ {0} /\ Pos(n) \in Indices
           /\ length < COCARRIER_SIZE => Pos(n) # Pos(nsent + 1)
           /\ n # nsent - length + 1 => Pos(n) # Pos(nsent - length + 1)
  <1>1. length \in Nat /\ nsent \in Nat /\ length <= nsent /\ length <= COCARRIER_SIZE
    BY DEF TypeOK, Counted
  <1>2. n \in Nat \ {0} /\ nsent - length + 1 <= n /\ n <= nsent
    BY <1>1 DEF Queued
  <1>3. ASSUME length < COCARRIER_SIZE PROVE Pos(n) # Pos(nsent + 1)
    BY <1>1, <1>2, <1>3, PosApart
  <1>4. ASSUME n # nsent - length + 1 PROVE Pos(n) # Pos(nsent - length + 1)
    BY <1>1, <1>2, <1>4, PosApart
  <1> QED  BY <1>2, <1>3, <1>4, PosType, Zenon

\* Only three actions touch what RingInv speaks of.
LEMMA RingFrame ==
    [Next]_vars =>
        \/ \E t \in Workers : SendCommit(t) \/ RecvTake(t) \/ FreeClear(t)
        \/ UNCHANGED <<length, start, end, buf, att, nsent>>
  BY ZenonT(60) DEF Next, Call, Step, vars, info, slots, client, SendCall, SendEpipe, SendLock, SendAgain,
         RecvCall, RecvSeesClosing, RecvLock, RecvAgain, RecvRead, RecvMark, SendNotify, RecvNotify,
         CloseCall, CloseEpipe, CloseLock, CloseCommit, FreeFind, FreeMark, FreeLost

\* An empty ring starts and ends at position 0.
LEMMA RingInit == Init => RingInv
  <1> SUFFICES ASSUME Init PROVE RingInv
    BY Zenon
  <1>1. nsent = 0 /\ length = 0 /\ start = 0 /\ end = 0 /\ Queued = {}
    BY DEF Init, Queued
  <1>2. 0 % COCARRIER_SIZE = 0
    BY ModUnique
  <1>3. \A i \in Indices : buf[i] = NULL /\ att[i] = NULL
    BY Zenon DEF Init
  <1> QED  BY <1>1, <1>2, <1>3 DEF RingInv, Pos

\* A send fills the slot after the last message, a receive gives up the first one
\* (cosend.c:206-216, corecv.c:92-97), and a free only clears a buffer pointer.
LEMMA RingStep == TypeOK /\ Counted /\ RingInv /\ [Next]_vars => RingInv'
  <1> SUFFICES ASSUME TypeOK, Counted, RingInv, [Next]_vars PROVE RingInv'
    BY Zenon
  <1>0. length \in Nat /\ nsent \in Nat /\ length <= nsent
    BY DEF TypeOK, Counted
  <1>1. ASSUME NEW t \in Workers, SendCommit(t) PROVE RingInv'
    <2> USE <1>1 DEF SendCommit
    <2>1. nsent' = nsent + 1 /\ length' = length + 1 /\ length < COCARRIER_SIZE /\ start' = start
      BY Zenon DEF MaySend
    <2>2. nsent' - length' + 1 = nsent - length + 1
      BY <1>0, <2>1
    <2>3. end = Pos(nsent') /\ end' = Pos(nsent' + 1)
      BY <1>0, <2>1, PosSucc DEF RingInv
    <2>4. Queued' = Queued \cup {nsent'}
      BY <1>0, <2>1, <2>2 DEF Queued
    <2>5. ASSUME NEW n \in Queued PROVE att'[Pos(n)] = n
      BY Zenon, <2>1, <2>5, QueuedApart DEF RingInv, TypeOK
    <2>6. att'[end] = nsent' /\ buf'[end] = nsent'
      BY Zenon DEF TypeOK
    <2>7. ASSUME NEW i \in Indices
          PROVE  buf'[i] \in {att'[i], NULL} /\ (att'[i] # NULL => i = Pos(att'[i]))
      BY <2>3, <2>6, Zenon DEF RingInv, TypeOK
    <2> QED  BY <2>1, <2>2, <2>3, <2>4, <2>5, <2>6, <2>7, Zenon DEF RingInv, Pos
  <1>2. ASSUME NEW t \in Workers, RecvTake(t) PROVE RingInv'
    <2> USE <1>2 DEF RecvTake
    <2>1. nsent' = nsent /\ length' = length - 1 /\ length # 0
          /\ end' = end /\ buf' = buf /\ att' = att
      BY Zenon DEF MayRecv, client, slots
    <2>2. nsent' - length' + 1 = (nsent - length + 1) + 1
      BY <1>0, <2>1
    <2>3. start' = Pos(nsent' - length' + 1)
      BY <1>0, <2>2, PosSucc DEF RingInv
    <2>4. Queued' \subseteq Queued
      BY <1>0, <2>1 DEF Queued
    <2> QED  BY <2>1, <2>3, <2>4, Zenon DEF RingInv, Pos
  <1>3. ASSUME NEW t \in Workers, FreeClear(t) PROVE RingInv'
    <2>1. UNCHANGED <<start, end, length, nsent, att>>
      BY <1>3, Zenon DEF FreeClear, info
    <2>2. Queued' = Queued
      BY <2>1, Zenon DEF Queued
    <2>3. ASSUME NEW i \in Indices PROVE buf'[i] \in {buf[i], NULL}
      BY <1>3, <2>3, Zenon DEF FreeClear, TypeOK
    <2> QED  BY <2>1, <2>2, <2>3, Zenon DEF RingInv, Pos
  <1>4. CASE UNCHANGED <<length, start, end, buf, att, nsent>>
    BY <1>4, Zenon DEF RingInv, Queued, Pos
  <1> QED  BY <1>1, <1>2, <1>3, <1>4, RingFrame, Zenon

-----------------------------------------------------------------------------
(* Every message is taken once *)

\* What most actions do: nothing to the buffers and the clients, and nothing to a
\* worker that is receiving or ends up freeing.
Quiet ==
    /\ UNCHANGED <<buf, att, recvd, freed, length, nsent, heap, receipt, lapped>>
    /\ \A u \in Workers : pc[u] \in Receiving \/ pc'[u] \in Unlocked \cup Receiving =>
          pc'[u] = pc[u] /\ idx'[u] = idx[u] /\ msg'[u] = msg[u] /\ oob'[u] = oob[u] /\ taken'[u] = taken[u]

Loud(t) ==
    \/ SendCommit(t) \/ RecvTake(t) \/ RecvRead(t) \/ RecvMark(t) \/ RecvNotify(t)
    \/ \E i \in Indices : FreeFind(t, i)
    \/ FreeMark(t) \/ FreeClear(t)

\* Every step is one of the eight above, or quiet.
LEMMA QuietFrame == TypeOK /\ [Next]_vars => Quiet \/ \E t \in Workers : Loud(t)
  <1> SUFFICES ASSUME TypeOK, [Next]_vars, ~ \E t \in Workers : Loud(t) PROVE Quiet
    BY Zenon
  <1> DEFINE Same == UNCHANGED <<buf, att, recvd, freed, length, nsent, heap, receipt, lapped>>
  <1>1. ASSUME NEW t \in Workers, NEW from \in Points \ Receiving, Return(t, from), Same PROVE Quiet
    BY <1>1, Zenon DEF Return, Goto, TypeOK, Quiet, Receiving
  <1>2. ASSUME NEW t \in Workers, NEW from \in Points \ Receiving,
               NEW to \in Points \ (Unlocked \cup Receiving),
               Goto(t, from, to), Same, UNCHANGED <<idx, msg, oob, taken>>
        PROVE  Quiet
    BY <1>2, Zenon DEF Goto, TypeOK, Quiet, Receiving
  <1>3. ASSUME Same, UNCHANGED <<pc, idx, msg, oob, taken>> PROVE Quiet
    BY Zenon, <1>3 DEF Quiet
  <1> USE DEF info, slots, client, locals, Receiving
  <1>4. ASSUME NEW t \in Workers,
               SendEpipe(t) \/ SendAgain(t) \/ RecvAgain(t) \/ SendNotify(t)
               \/ CloseEpipe(t) \/ CloseCommit(t) \/ FreeLost(t)
        PROVE  Quiet
    BY <1>4, <1>1, Zenon DEF SendEpipe, SendAgain, RecvAgain, SendNotify, CloseEpipe, CloseCommit, FreeLost
  <1>5. ASSUME NEW t \in Workers,
               SendCall(t) \/ SendLock(t) \/ RecvCall(t) \/ RecvLock(t) \/ CloseCall(t) \/ CloseLock(t)
        PROVE  Quiet
    BY <1>5, <1>2, Zenon DEF SendCall, SendLock, RecvCall, RecvLock, CloseCall, CloseLock
  <1>6. ASSUME NEW t \in Workers, RecvSeesClosing(t) PROVE Quiet
    BY <1>6, <1>3, Zenon DEF RecvSeesClosing
  <1>7. CASE UNCHANGED vars
    BY <1>7, <1>3, Zenon DEF vars
  <1> QED  BY <1>4, <1>5, <1>6, <1>7, Zenon DEF Next, Call, Step, Loud

\* Nothing has been taken from a new port.
LEMMA TakenInit == Init => TakenInv
  BY ZenonT(60) DEF Init, TakenInv, Receiving

\* A receive takes the number after all those taken before (corecv.c:92-97).
LEMMA TakenStep == TypeOK /\ Counted /\ TakenInv /\ [Next]_vars => TakenInv'
  <1> SUFFICES ASSUME TypeOK, Counted, TakenInv, [Next]_vars PROVE TakenInv'
    BY Zenon
  <1>0. length \in Nat /\ nsent \in Nat /\ length <= nsent
    BY DEF TypeOK, Counted
  <1> DEFINE Stays(u) == pc[u] \in Receiving /\ taken'[u] = taken[u]
             Calm == /\ nsent' - length' = nsent - length /\ receipt' = receipt
                     /\ \A u \in Workers : pc'[u] \in Receiving => Stays(u)
  <1>a. ASSUME Calm PROVE TakenInv'
    BY <1>a DEF TakenInv
  <1> USE DEF TypeOK, Receiving, Goto, info, slots, client, locals
  <1>1. ASSUME NEW t \in Workers, SendCommit(t) PROVE Calm
    <2>1. nsent' - length' = nsent - length
      BY <1>0, <1>1 DEF SendCommit
    <2> QED  BY <1>1, <2>1, Zenon DEF SendCommit
  <1>2. ASSUME NEW t \in Workers, RecvTake(t) PROVE TakenInv'
    <2>1. nsent' - length' = (nsent - length) + 1 /\ nsent - length \in Nat
          /\ taken'[t] = (nsent - length) + 1
      BY <1>0, <1>2 DEF RecvTake
    <2>2. \A u \in Workers \ {t} : pc'[u] \in Receiving => Stays(u)
      BY <1>2, Zenon DEF RecvTake
    <2>3. receipt' = receipt
      BY <1>2, Zenon DEF RecvTake
    <2>4. \A u \in Workers \ {t} : pc'[u] \in Receiving => taken'[u] # taken'[t]
      BY ONLY <2>1, <2>2, <1>0, TakenInv DEF TakenInv
    <2>5. \A r \in receipt : r[1] # taken'[t]
      BY <2>1 DEF TakenInv
    <2>6. \A u \in Workers : pc'[u] \in Receiving => taken'[u] \in 1 .. nsent' - length'
      BY ONLY <1>0, <2>1, <2>2, TakenInv DEF TakenInv
    <2>7. \A u, v \in Workers :
             pc'[u] \in Receiving /\ pc'[v] \in Receiving /\ taken'[u] = taken'[v] => u = v
      BY ONLY <2>2, <2>4, TakenInv, ZenonT(60) DEF TakenInv
    <2>8. \A r \in receipt' : r[1] \in 1 .. nsent' - length'
      BY ONLY <2>1, <2>3, TakenInv DEF TakenInv
    <2>9. \A r \in receipt', u \in Workers : pc'[u] \in Receiving => r[1] # taken'[u]
      BY ONLY <2>2, <2>3, <2>5, TakenInv DEF TakenInv
    <2> QED  BY <2>6, <2>7, <2>8, <2>9, ZenonT(60) DEF TakenInv
  <1>3. ASSUME NEW t \in Workers, RecvRead(t) PROVE Calm
    BY <1>3, Zenon DEF RecvRead
  <1>4. ASSUME NEW t \in Workers, RecvMark(t) PROVE Calm
    BY <1>4, Zenon DEF RecvMark
  <1>5. ASSUME NEW t \in Workers, RecvNotify(t) PROVE TakenInv'
    <2> DEFINE k == taken[t]  r0 == <<taken[t], msg[t], oob[t]>>
    <2>1. receipt' = receipt \cup {r0} /\ r0[1] = k /\ pc[t] \in Receiving
      BY <1>5, Zenon DEF RecvNotify, Return
    <2>2. \A u \in Workers : pc'[u] \in Receiving => u # t /\ Stays(u)
      BY <1>5, Zenon DEF RecvNotify, Return
    <2>3. nsent' = nsent /\ length' = length
      BY <1>5, Zenon DEF RecvNotify
    <2>4. k \in 1 .. nsent - length /\ \A u \in Workers : pc'[u] \in Receiving => taken'[u] # k
      BY ONLY <2>1, <2>2, TakenInv, ZenonT(60) DEF TakenInv
    <2> HIDE DEF r0, k
    <2>5. \A u, v \in Workers :
             pc'[u] \in Receiving /\ pc'[v] \in Receiving /\ taken'[u] = taken'[v] => u = v
      BY ONLY <2>2, TakenInv, ZenonT(60) DEF TakenInv
    <2>6. \A r \in receipt' : r[1] \in 1 .. nsent - length
      BY ZenonT(60), <2>1, <2>4 DEF TakenInv
    <2>7. \A r \in receipt', u \in Workers : pc'[u] \in Receiving => r[1] # taken'[u]
      BY ONLY <2>1, <2>2, <2>4, TakenInv DEF TakenInv
    <2>8. \A u \in Workers : pc'[u] \in Receiving => taken'[u] \in 1 .. nsent - length
      BY Zenon, <2>2 DEF TakenInv
    <2> QED  BY <2>3, <2>5, <2>6, <2>7, <2>8, Zenon DEF TakenInv
  <1>6. ASSUME NEW t \in Workers, NEW i \in Indices, FreeFind(t, i) PROVE Calm
    BY <1>6, Zenon DEF FreeFind
  <1>7. ASSUME NEW t \in Workers, FreeMark(t) PROVE Calm
    BY <1>7, Zenon DEF FreeMark
  <1>8. ASSUME NEW t \in Workers, FreeClear(t) PROVE Calm
    BY <1>8, Zenon DEF FreeClear, Return
  <1>9. ASSUME Quiet PROVE Calm
    BY <1>9, Zenon DEF Quiet
  <1> HIDE DEF Calm
  <1> QED
    BY ZenonT(60), <1>a, <1>1, <1>2, <1>3, <1>4, <1>5, <1>6, <1>7, <1>8, <1>9, QuietFrame DEF Loud

-----------------------------------------------------------------------------
(* What holds until somebody is lapped *)

\* Once lapped, always lapped.
LEMMA LappedGrows == [Next]_vars => lapped \subseteq lapped'
  BY ZenonT(60) DEF Next, Call, Step, vars, client, SendCall, SendEpipe, SendLock, SendAgain, SendCommit,
         RecvCall, RecvSeesClosing, RecvLock, RecvAgain, RecvTake, RecvRead, RecvMark, SendNotify,
         RecvNotify, CloseCall, CloseEpipe, CloseLock, CloseCommit, FreeFind, FreeMark,
         FreeLost, FreeClear

\* A new port has no messages and no worker that uses a slot.
LEMMA UnlappedInit == Init => UnlappedInv
  BY DEF Init, UnlappedInv, QueuedInv, ReceiverInv, ReceiptInv, FreeingInv, Queued, Receiving, Freeing

Before == TypeOK /\ Counted /\ RingInv /\ TakenInv /\ UnlappedInv

\* A worker that frees a message is not disturbed by a step that leaves its slot,
\* the marks on it, the buffers and the receipts alone (comsg_free.c:70-85).
LEMMA FreeingKept ==
    ASSUME FreeingInv, heap \subseteq heap', receipt \subseteq receipt',
           \A i \in recvd' \ freed' : buf'[i] = att'[i] /\ att'[i] \in heap',
           \A u \in Workers : pc'[u] \in Freeing =>
               /\ pc'[u] = pc[u] /\ idx'[u] = idx[u] /\ msg'[u] = msg[u]
               /\ idx[u] \in recvd => idx[u] \in recvd' /\ att'[idx[u]] = att[idx[u]]
               /\ idx[u] \in freed => idx[u] \in freed'
    PROVE  FreeingInv'
  <1>1. ASSUME NEW u \in Workers, pc'[u] \in Freeing
        PROVE  /\ idx'[u] \in recvd' /\ att'[idx'[u]] = msg'[u] /\ msg'[u] # NULL
               /\ \E r \in receipt' : r[1] = msg'[u]
    <2>1. /\ idx[u] \in recvd /\ att[idx[u]] = msg[u] /\ msg[u] # NULL
          /\ \E r \in receipt : r[1] = msg[u]
      BY <1>1, Zenon DEF FreeingInv
    <2> QED  BY <1>1, <2>1, Zenon
  <1>2. \A u \in Workers : pc'[u] = "f_clear" =>
           pc[u] = "f_clear" /\ idx'[u] = idx[u] /\ msg'[u] = msg[u] /\ (idx[u] \in freed => idx[u] \in freed')
    BY Zenon DEF Freeing
  <1>3. \A u \in Workers : pc[u] = "f_clear" => idx[u] \in freed /\ msg[u] \in heap
    BY Zenon DEF FreeingInv
  <1>4. \A u \in Workers : pc'[u] = "f_clear" => idx'[u] \in freed' /\ msg'[u] \in heap'
    BY <1>2, <1>3, Zenon
  <1>5. \A u, v \in Workers : pc[u] = "f_clear" /\ pc[v] = "f_clear" /\ idx[v] = idx[u] => v = u
    BY Zenon DEF FreeingInv
  <1>6. \A u, v \in Workers : pc'[u] = "f_clear" /\ pc'[v] = "f_clear" /\ idx'[v] = idx'[u] => v = u
    BY ONLY <1>2, <1>5, ZenonT(60)
  <1> QED  BY <1>1, <1>4, <1>6, Zenon DEF FreeingInv

\* A send that laps nobody overwrites a slot nobody uses (cosend.c:206-216).
LEMMA UnlappedSend ==
    ASSUME Before, NEW t \in Workers, SendCommit(t), lapped' = {}
    PROVE  UnlappedInv'
  <1> USE DEF Before
  <1>u. UnlappedInv /\ TakenInv /\ RingInv
    BY Zenon
  <1>0. length \in Nat /\ nsent \in Nat /\ length <= nsent /\ end = Pos(nsent + 1)
        /\ length < COCARRIER_SIZE
    BY DEF TypeOK, Counted, RingInv, SendCommit, MaySend
  <1>1. nsent' = nsent + 1 /\ Queued' = Queued \cup {nsent + 1} /\ end = Pos(nsent')
    BY <1>0 DEF Queued, SendCommit
  <1>2. \A u \in Workers : pc'[u] \in Unlocked \cup Receiving => pc'[u] = pc[u]
    BY Zenon DEF SendCommit, Goto, TypeOK, Receiving
  <1>3. UNCHANGED <<idx, msg, oob, taken, receipt>>
    BY Zenon DEF SendCommit, locals
  <1>4. \A u \in Workers : pc[u] \in Unlocked => idx[u] # end
    BY Zenon DEF SendCommit
  <1>5. /\ \A i \in Indices \ {end} : buf'[i] = buf[i] /\ att'[i] = att[i]
                                      /\ (i \in recvd' <=> i \in recvd) /\ (i \in freed' <=> i \in freed)
        /\ buf'[end] = nsent' /\ end \notin recvd' /\ recvd' \subseteq Indices
        /\ heap' = heap \cup {nsent'}
    BY Zenon DEF SendCommit, TypeOK
  <1>6. \A u \in Workers : idx[u] \in Indices
    BY Zenon DEF TypeOK
  <1>7. \A n \in Queued : Pos(n) \in Indices \ {end}
    BY <1>0, QueuedApart, Zenon
  <1>8. \A n : Pos(n)' = Pos(n)
    BY Zenon DEF Pos
  <1>9. QueuedInv'
    <2>1. ASSUME NEW n \in Queued
          PROVE  /\ buf'[Pos(n)] = n /\ Pos(n) \notin recvd' /\ n \in heap'
                 /\ \A u \in Workers : pc'[u] \in Unlocked => idx'[u] # Pos(n)
      BY ONLY <1>2, <1>3, <1>5, <1>7, <2>1, <1>u, Zenon DEF UnlappedInv, QueuedInv
    <2>2. /\ buf'[end] = nsent' /\ end \notin recvd' /\ nsent' \in heap'
          /\ \A u \in Workers : pc'[u] \in Unlocked => idx'[u] # end
      BY ONLY <1>2, <1>3, <1>4, <1>5, Zenon
    <2> QED  BY ONLY <2>1, <2>2, <1>1, <1>8, Zenon DEF QueuedInv
  <1>10. ReceiverInv'
    <2> SUFFICES ASSUME NEW u \in Workers
                 PROVE  /\ pc'[u] \in {"r_read", "r_mark"} =>
                           att'[idx[u]] = taken[u] /\ buf'[idx[u]] = taken[u] /\ idx[u] \notin recvd'
                        /\ pc'[u] \in {"r_mark", "r_notify"} => msg[u] = taken[u]
                        /\ pc'[u] = "r_notify" => oob[u] = taken[u]
                        /\ pc'[u] \in Receiving => taken[u] \in heap'
      BY <1>3, Zenon DEF ReceiverInv
    <2>1. ReceiverInv
      BY <1>u, Zenon DEF UnlappedInv
    <2>2. ASSUME pc'[u] \in {"r_read", "r_mark"}
          PROVE  att'[idx[u]] = taken[u] /\ buf'[idx[u]] = taken[u] /\ idx[u] \notin recvd'
      <3>1. pc[u] \in {"r_read", "r_mark"} /\ pc[u] \in Unlocked
        BY <1>2, <2>2, Zenon DEF Unlocked
      <3>2. att[idx[u]] = taken[u] /\ buf[idx[u]] = taken[u] /\ idx[u] \notin recvd
        BY <2>1, <3>1, Zenon DEF ReceiverInv
      <3>3. idx[u] \in Indices \ {end}
        BY <1>4, <1>6, <3>1, Zenon
      <3> QED  BY <1>5, <3>2, <3>3, Zenon
    <2>3. pc'[u] \in {"r_mark", "r_notify"} => msg[u] = taken[u]
      BY <1>2, <2>1, Zenon DEF ReceiverInv, Receiving
    <2>4. pc'[u] = "r_notify" => oob[u] = taken[u]
      BY <1>2, <2>1, Zenon DEF ReceiverInv, Receiving
    <2>5. pc'[u] \in Receiving => taken[u] \in heap'
      BY <1>2, <1>5, <2>1, Zenon DEF ReceiverInv
    <2> QED  BY <2>2, <2>3, <2>4, <2>5, Zenon
  <1>11. ReceiptInv'
    BY ONLY <1>3, <1>u, Zenon DEF UnlappedInv, ReceiptInv
  <1>12. FreeingInv'
    <2>1. \A i \in recvd' \ freed' : buf'[i] = att'[i] /\ att'[i] \in heap'
      BY ONLY <1>5, <1>u, Zenon DEF UnlappedInv, FreeingInv
    <2>2. ASSUME NEW u \in Workers, pc'[u] \in Freeing
          PROVE  /\ pc[u] = pc'[u] /\ idx'[u] = idx[u] /\ msg'[u] = msg[u]
                 /\ idx[u] \in recvd' /\ att'[idx[u]] = att[idx[u]]
                 /\ (idx[u] \in freed' <=> idx[u] \in freed)
      <3>1. FreeingInv /\ u \in Workers /\ pc'[u] \in Unlocked
        BY ONLY <2>2, <1>u, Zenon DEF UnlappedInv, Freeing, Unlocked
      <3>2. /\ pc[u] = pc'[u] /\ idx'[u] = idx[u] /\ msg'[u] = msg[u]
            /\ idx[u] \in Indices \ {end}
        BY ONLY <1>2, <1>3, <1>4, <1>6, <3>1, Zenon
      <3>3. idx[u] \in recvd
        BY ONLY <2>2, <3>1, <3>2, Zenon DEF FreeingInv
      <3> QED  BY ONLY <1>5, <3>2, <3>3, Zenon
    <2>3. FreeingInv /\ heap \subseteq heap' /\ receipt \subseteq receipt'
      BY <1>3, <1>5, <1>u, Zenon DEF UnlappedInv
    <2> QED  BY <2>1, <2>2, <2>3, FreeingKept, Zenon
  <1> QED  BY <1>9, <1>10, <1>11, <1>12, Zenon DEF UnlappedInv

\* A receive leaves with the slot of the first message (corecv.c:92-106).
LEMMA UnlappedTake ==
    ASSUME Before, NEW t \in Workers, RecvTake(t)
    PROVE  UnlappedInv'
  <1> USE DEF Before
  <1>u. UnlappedInv /\ TakenInv /\ RingInv
    BY Zenon
  <1> DEFINE k == nsent - length + 1
  <1>0. k \in Queued /\ start = Pos(k) /\ Queued' \subseteq Queued \ {k} /\ Pos(k) \in Indices
    <2>1. length \in Nat /\ nsent \in Nat /\ length <= nsent /\ length # 0
      BY DEF TypeOK, Counted, RecvTake, MayRecv
    <2>2. k \in Queued /\ Queued' \subseteq Queued \ {k}
      BY <2>1 DEF Queued, RecvTake, client
    <2> QED  BY <2>2, QueuedApart, Zenon DEF RingInv
  <1>1. \A n \in Queued \ {k} : Pos(n) # start
    BY <1>0, QueuedApart, Zenon DEF RingInv
  <1>2. \A u \in Workers : u # t => pc'[u] = pc[u] /\ idx'[u] = idx[u] /\ taken'[u] = taken[u]
    BY Zenon DEF RecvTake, Goto, TypeOK
  <1>3. pc'[t] = "r_read" /\ idx'[t] = start /\ taken'[t] = k
    BY Zenon DEF RecvTake, Goto, TypeOK
  <1>4. UNCHANGED <<buf, att, recvd, freed, msg, oob, heap, receipt>>
    BY Zenon DEF RecvTake, slots, client
  <1>5. buf[start] = k /\ att[start] = k /\ start \notin recvd /\ k \in heap
    BY <1>0, Zenon DEF UnlappedInv, QueuedInv, RingInv
  <1>6. \A n : Pos(n)' = Pos(n)
    BY Zenon DEF Pos
  <1> HIDE DEF k
  <1>7. QueuedInv'
    <2>1. QueuedInv /\ \A n \in Queued' : n \in Queued /\ Pos(n) # start
      BY ONLY <1>0, <1>1, <1>u, Zenon DEF UnlappedInv
    <2>2. \A u \in Workers : pc'[u] \in Unlocked => idx'[u] = start \/ (pc[u] \in Unlocked /\ idx'[u] = idx[u])
      BY ONLY <1>2, <1>3, Zenon
    <2> QED  BY ONLY <1>4, <1>6, <2>1, <2>2, ZenonT(60) DEF QueuedInv
  <1>8. ReceiverInv'
    BY ONLY <1>2, <1>3, <1>4, <1>5, <1>u, ZenonT(60) DEF UnlappedInv, ReceiverInv, Receiving
  <1>9. ReceiptInv'
    BY ONLY <1>4, <1>u, Zenon DEF UnlappedInv, ReceiptInv
  <1>10. FreeingInv'
    <2>1. FreeingInv /\ heap \subseteq heap' /\ receipt \subseteq receipt'
      BY <1>4, <1>u, Zenon DEF UnlappedInv
    <2>2. \A u \in Workers : pc'[u] \in Freeing => u # t
      BY ONLY <1>3, Zenon DEF Freeing
    <2>3. \A i \in recvd' \ freed' : buf'[i] = att'[i] /\ att'[i] \in heap'
      BY ONLY <1>4, <2>1, Zenon DEF FreeingInv
    <2> QED  BY <1>2, <1>4, <2>1, <2>2, <2>3, FreeingKept, Zenon
  <1> QED  BY <1>7, <1>8, <1>9, <1>10, Zenon DEF UnlappedInv

\* What a receiver reads from its slot after the release is what it took
\* (corecv.c:108-116).
LEMMA UnlappedRecv ==
    ASSUME Before, NEW t \in Workers, RecvRead(t) \/ RecvMark(t)
    PROVE  UnlappedInv'
  <1> USE DEF Before
  <1>u. UnlappedInv /\ TakenInv /\ RingInv
    BY Zenon
  <1>1. UNCHANGED <<buf, att, freed, length, nsent, idx, taken, heap, receipt>>
    BY Zenon DEF RecvRead, RecvMark, slots, info, client
  <1>2. Queued' = Queued /\ \A n : Pos(n)' = Pos(n)
    BY <1>1, Zenon DEF Queued, Pos
  <1>3. \A u \in Workers : u # t => pc'[u] = pc[u] /\ msg'[u] = msg[u] /\ oob'[u] = oob[u]
    BY ZenonT(60) DEF RecvRead, RecvMark, Goto, TypeOK
  <1>4. ReceiptInv'
    BY ONLY <1>1, <1>u, Zenon DEF UnlappedInv, ReceiptInv
  <1>5. CASE RecvRead(t)
    <2>1. pc[t] = "r_read" /\ pc'[t] = "r_mark" /\ msg'[t] = buf[idx[t]] /\ recvd' = recvd
      BY <1>5, Zenon DEF RecvRead, Goto, TypeOK, slots
    <2>2. QueuedInv'
      <3>1. \A u \in Workers : pc'[u] \in Unlocked => pc[u] \in Unlocked /\ idx'[u] = idx[u]
        BY ONLY <1>1, <1>3, <2>1, Zenon DEF Unlocked
      <3>2. QueuedInv
        BY Zenon DEF UnlappedInv
      <3> QED  BY ONLY <1>1, <1>2, <2>1, <3>1, <3>2, Zenon DEF QueuedInv, Unlocked
    <2>3. ReceiverInv'
      BY ONLY <1>1, <1>3, <2>1, <1>u, ZenonT(60) DEF UnlappedInv, ReceiverInv, Receiving
    <2>4. FreeingInv'
      <3>1. FreeingInv /\ heap \subseteq heap' /\ receipt \subseteq receipt'
        BY <1>1, <1>u, Zenon DEF UnlappedInv
      <3>2. \A u \in Workers : pc'[u] \in Freeing => u # t
        BY ONLY <2>1, Zenon DEF Freeing
      <3>3. \A i \in recvd' \ freed' : buf'[i] = att'[i] /\ att'[i] \in heap'
        BY ONLY <1>1, <2>1, <3>1, Zenon DEF FreeingInv
      <3> QED  BY <1>1, <1>3, <2>1, <3>1, <3>2, <3>3, FreeingKept, Zenon
    <2> QED  BY <1>4, <2>2, <2>3, <2>4, Zenon DEF UnlappedInv
  <1>6. CASE RecvMark(t)
    <2>1. pc[t] = "r_mark" /\ pc'[t] = "r_notify" /\ msg' = msg /\ oob'[t] = att[idx[t]]
          /\ recvd' = recvd \cup {idx[t]}
      BY <1>6, Zenon DEF RecvMark, Goto, TypeOK
    <2>2. QueuedInv'
      BY ONLY <1>1, <1>2, <1>3, <2>1, <1>u, ZenonT(60) DEF UnlappedInv, QueuedInv, Unlocked
    <2>3. \A u \in Workers : u # t /\ pc[u] \in {"r_read", "r_mark"} => idx[u] # idx[t]
      <3>1. \A u \in Workers : pc[u] \in {"r_read", "r_mark"} =>
               att[idx[u]] = taken[u] /\ pc[u] \in Receiving
        BY ONLY <1>u, Zenon DEF UnlappedInv, ReceiverInv, Receiving
      <3>2. \A u \in Workers : pc[u] \in Receiving /\ taken[u] = taken[t] => u = t
        BY ONLY <2>1, <1>u, Zenon DEF TakenInv, Receiving
      <3> QED  BY ONLY <2>1, <3>1, <3>2, Zenon
    <2>4. ReceiverInv'
      BY ONLY <1>1, <1>3, <2>1, <2>3, <1>u, ZenonT(60) DEF UnlappedInv, ReceiverInv, Receiving
    <2>5. buf[idx[t]] = att[idx[t]] /\ att[idx[t]] \in heap
      BY ONLY <2>1, <1>u, ZenonT(60) DEF UnlappedInv, ReceiverInv, Receiving
    <2>6. FreeingInv'
      <3>1. FreeingInv /\ heap \subseteq heap' /\ receipt \subseteq receipt'
        BY <1>1, <1>u, Zenon DEF UnlappedInv
      <3>2. \A u \in Workers : pc'[u] \in Freeing => u # t
        BY ONLY <2>1, Zenon DEF Freeing
      <3>3. \A i \in recvd' \ freed' : buf'[i] = att'[i] /\ att'[i] \in heap'
        BY ONLY <1>1, <2>1, <2>5, <3>1, ZenonT(60) DEF FreeingInv
      <3> QED  BY <1>1, <1>3, <2>1, <3>1, <3>2, <3>3, FreeingKept, Zenon
    <2> QED  BY <1>4, <2>2, <2>4, <2>6, Zenon DEF UnlappedInv
  <1> QED  BY <1>5, <1>6, Zenon

\* The receiver's caller gets the message it took (corecv.c:118-119).
LEMMA UnlappedReturn ==
    ASSUME Before, NEW t \in Workers, RecvNotify(t)
    PROVE  UnlappedInv'
  <1> USE DEF Before
  <1>u. UnlappedInv /\ TakenInv /\ RingInv
    BY Zenon
  <1> DEFINE k == taken[t]
  <1>1. UNCHANGED <<buf, att, recvd, freed, length, nsent, heap>>
    BY Zenon DEF RecvNotify, slots
  <1>2. Queued' = Queued /\ \A n : Pos(n)' = Pos(n)
    BY <1>1, Zenon DEF Queued, Pos
  <1>3. \A u \in Workers : u # t => pc'[u] = pc[u] /\ msg'[u] = msg[u] /\ oob'[u] = oob[u]
                                    /\ idx'[u] = idx[u] /\ taken'[u] = taken[u]
    BY Zenon DEF RecvNotify, Return, Goto, TypeOK
  <1>4. pc[t] = "r_notify" /\ pc'[t] = "idle"
    BY Zenon DEF RecvNotify, Return, Goto, TypeOK
  <1>5. msg[t] = k /\ oob[t] = k
    BY <1>4, Zenon DEF UnlappedInv, ReceiverInv, Receiving
  <1>6. receipt' = receipt \cup {<<k, k, k>>}
    BY <1>5, Zenon DEF RecvNotify
  <1> HIDE DEF k
  <1>7. QueuedInv'
    <2>1. QueuedInv
      BY <1>u, Zenon DEF UnlappedInv
    <2>2. \A u \in Workers : pc'[u] \in Unlocked => pc[u] \in Unlocked /\ idx'[u] = idx[u]
      BY ONLY <1>3, <1>4, Zenon DEF Unlocked
    <2> QED  BY ONLY <1>1, <1>2, <2>1, <2>2, ZenonT(60) DEF QueuedInv
  <1>8. ReceiverInv'
    BY ONLY <1>1, <1>3, <1>4, <1>u, ZenonT(60) DEF UnlappedInv, ReceiverInv, Receiving
  <1>9. ReceiptInv'
    BY ONLY <1>6, <1>u DEF UnlappedInv, ReceiptInv
  <1>10. FreeingInv'
    <2>1. FreeingInv /\ heap \subseteq heap' /\ receipt \subseteq receipt'
      BY <1>1, <1>6, <1>u, Zenon DEF UnlappedInv
    <2>2. \A u \in Workers : pc'[u] \in Freeing => u # t
      BY ONLY <1>4, Zenon DEF Freeing
    <2>3. \A i \in recvd' \ freed' : buf'[i] = att'[i] /\ att'[i] \in heap'
      BY ONLY <1>1, <2>1, Zenon DEF FreeingInv
    <2> QED  BY <1>1, <1>3, <2>1, <2>2, <2>3, FreeingKept, Zenon
  <1> QED  BY <1>7, <1>8, <1>9, <1>10, Zenon DEF UnlappedInv

\* free_comsg picks a received slot, which is not in the queue (comsg_free.c:70-77).
LEMMA UnlappedFind ==
    ASSUME Before, NEW t \in Workers, NEW i \in Indices, FreeFind(t, i)
    PROVE  UnlappedInv'
  <1> USE DEF Before
  <1>u. UnlappedInv /\ TakenInv /\ RingInv
    BY Zenon
  <1>1. UNCHANGED <<buf, att, recvd, freed, length, nsent, oob, taken, heap, receipt>>
    BY Zenon DEF FreeFind, slots, info, client
  <1>2. Queued' = Queued /\ \A n : Pos(n)' = Pos(n)
    BY <1>1, Zenon DEF Queued, Pos
  <1>3. \A u \in Workers : u # t => pc'[u] = pc[u] /\ msg'[u] = msg[u] /\ idx'[u] = idx[u]
    BY Zenon DEF FreeFind, Goto, TypeOK
  <1>4. pc'[t] = "f_mark" /\ msg'[t] = buf[i] /\ idx'[t] = i /\ i \in recvd
        /\ buf[i] # NULL /\ \E r \in receipt : r[2] = buf[i]
    BY Zenon DEF FreeFind, Freeable, Goto, TypeOK
  <1>5. att[i] = buf[i] /\ \E r \in receipt : r[1] = buf[i]
    <2>1. buf[i] \in {att[i], NULL}
      BY Zenon DEF RingInv
    <2>2. \A r \in receipt : r[2] = r[1]
      BY Zenon DEF UnlappedInv, ReceiptInv
    <2> QED  BY ONLY <1>4, <2>1, <2>2, Zenon
  <1>6. QueuedInv'
    <2>1. QueuedInv /\ \A n \in Queued : Pos(n) # i
      BY <1>4, Zenon DEF UnlappedInv, QueuedInv
    <2>2. ASSUME NEW n \in Queued
          PROVE  /\ buf[Pos(n)] = n /\ Pos(n) \notin recvd /\ n \in heap
                 /\ \A u \in Workers : pc'[u] \in Unlocked => idx'[u] # Pos(n)
      BY ONLY <1>3, <1>4, <2>1, <2>2 DEF QueuedInv, Unlocked
    <2> QED  BY ONLY <1>1, <1>2, <2>2, Zenon DEF QueuedInv
  <1>7. ReceiverInv' /\ ReceiptInv'
    BY ONLY ZenonT(60), <1>1, <1>3, <1>4, <1>u DEF UnlappedInv, ReceiverInv, ReceiptInv, Receiving
  <1>8. FreeingInv'
    <2>1. FreeingInv
      BY Zenon DEF UnlappedInv
    <2>2. \A j \in recvd' \ freed' : buf'[j] = att'[j] /\ att'[j] \in heap'
      BY ONLY <1>1, <2>1, Zenon DEF FreeingInv
    <2>3. ASSUME NEW u \in Workers, pc'[u] \in Freeing
          PROVE  /\ idx'[u] \in recvd /\ att[idx'[u]] = msg'[u] /\ msg'[u] # NULL
                 /\ \E r \in receipt : r[1] = msg'[u]
      BY ONLY <1>3, <1>4, <1>5, <2>1, <2>3 DEF FreeingInv
    <2>4. ASSUME NEW u \in Workers, pc'[u] = "f_clear"
          PROVE  /\ idx'[u] \in freed /\ msg'[u] \in heap
                 /\ \A v \in Workers : pc'[v] = "f_clear" /\ idx'[v] = idx'[u] => v = u
      BY ONLY <1>3, <1>4, <2>1, <2>4 DEF FreeingInv
    <2> QED  BY ONLY <1>1, <2>2, <2>3, <2>4, Zenon DEF FreeingInv
  <1> QED  BY <1>6, <1>7, <1>8, Zenon DEF UnlappedInv

\* The winner of the CAS releases a buffer nobody else has (comsg_free.c:79-82).
LEMMA UnlappedFree ==
    ASSUME Before, NEW t \in Workers, FreeMark(t) \/ FreeClear(t)
    PROVE  UnlappedInv'
  <1> USE DEF Before
  <1>u. UnlappedInv /\ TakenInv /\ RingInv
    BY Zenon
  <1>1. UNCHANGED <<att, recvd, length, nsent, receipt>>
    BY Zenon DEF FreeMark, FreeClear, info, client
  <1>2. Queued' = Queued /\ \A n : Pos(n)' = Pos(n)
    BY <1>1, Zenon DEF Queued, Pos
  <1>3. \A u \in Workers : u # t => pc'[u] = pc[u] /\ msg'[u] = msg[u] /\ oob'[u] = oob[u]
                                    /\ idx'[u] = idx[u] /\ taken'[u] = taken[u]
    BY ZenonT(60) DEF FreeMark, FreeClear, Return, Goto, TypeOK, locals
  <1>4. ReceiptInv'
    BY ONLY <1>1, <1>u, Zenon DEF UnlappedInv, ReceiptInv
  <1>5. CASE FreeMark(t)
    <2>1. UNCHANGED <<buf, heap, msg, oob, idx, taken>> /\ pc[t] = "f_mark" /\ pc'[t] = "f_clear"
          /\ idx[t] \notin freed /\ freed' = freed \cup {idx[t]}
      BY <1>5, Zenon DEF FreeMark, Goto, TypeOK, locals, client
    <2>2. QueuedInv'
      <3>1. \A u \in Workers : pc'[u] \in Unlocked => pc[u] \in Unlocked /\ idx'[u] = idx[u]
        BY ONLY <1>1, <1>3, <2>1, Zenon DEF Unlocked
      <3>2. QueuedInv
        BY Zenon DEF UnlappedInv
      <3> QED  BY ONLY <1>1, <1>2, <2>1, <3>1, <3>2, Zenon DEF QueuedInv, Unlocked
    <2>3. ReceiverInv'
      BY ONLY ZenonT(60), <1>1, <1>3, <2>1, <1>u DEF UnlappedInv, ReceiverInv, Receiving
    <2>4. FreeingInv'
      BY ONLY <1>1, <1>3, <2>1, <1>u DEF UnlappedInv, FreeingInv, Freeing
    <2> QED  BY <1>4, <2>2, <2>3, <2>4, Zenon DEF UnlappedInv
  <1>6. CASE FreeClear(t)
    <2> DEFINE m == msg[t]
    <2>1. pc[t] = "f_clear" /\ pc'[t] = "idle" /\ heap' = heap \ {m} /\ freed' = freed
      BY <1>6, ZenonT(60) DEF FreeClear, Return, Goto, TypeOK
    <2>2. \A i \in Indices \ {idx[t]} : buf'[i] = buf[i]
      BY <1>6, Zenon DEF FreeClear, TypeOK
    <2>3. /\ idx[t] \in recvd /\ idx[t] \in freed /\ att[idx[t]] = m /\ m # NULL
          /\ \E r \in receipt : r[1] = m
          /\ \A u \in Workers : u # t /\ pc[u] = "f_clear" => idx[u] # idx[t]
      BY <2>1, Zenon DEF UnlappedInv, FreeingInv, Freeing
    <2>4. m \in 1 .. nsent - length /\ \A u \in Workers : pc[u] \in Receiving => taken[u] # m
      BY <2>3, Zenon DEF TakenInv
    <2>5. ASSUME NEW n \in Queued PROVE n # m /\ Pos(n) \in Indices
      <3>1. nsent \in Nat /\ length \in Lengths
        BY Zenon DEF TypeOK
      <3>2. n # m
        BY ONLY <2>4, <2>5, <3>1, SizeAssumption DEF Queued, Lengths
      <3> QED  BY <2>5, <3>2, QueuedApart, Zenon
    <2>6. recvd \subseteq Indices /\ \A u \in Workers : idx[u] \in Indices
      BY Zenon DEF TypeOK
    <2>7. \A i \in Indices \ {idx[t]} : att[i] # m
      <3>1. \A i \in Indices : att[i] # NULL => i = Pos(att[i])
        BY ONLY <1>u, Zenon DEF RingInv
      <3>2. idx[t] = Pos(m)
        BY ONLY <2>3, <2>6, <3>1, Zenon
      <3> QED  BY ONLY <2>3, <3>1, <3>2, Zenon
    <2> HIDE DEF m
    <2>8. QueuedInv'
      <3>1. QueuedInv /\ \A n \in Queued : Pos(n) # idx[t]
        BY ONLY <2>1, <1>u, Zenon DEF UnlappedInv, QueuedInv, Unlocked
      <3>2. \A u \in Workers : pc'[u] \in Unlocked => pc[u] \in Unlocked /\ idx'[u] = idx[u]
        BY ONLY <1>3, <2>1, Zenon DEF Unlocked
      <3>3. \A n \in Queued : buf'[Pos(n)] = buf[Pos(n)]
        BY ONLY <2>2, <2>5, <3>1, Zenon
      <3>4. \A n \in Queued : n \in heap'
        BY ONLY <2>1, <2>5, <3>1, Zenon DEF QueuedInv
      <3> QED  BY ONLY <1>1, <1>2, <3>1, <3>2, <3>3, <3>4, ZenonT(60) DEF QueuedInv
    <2>9. ReceiverInv'
      <3>1. ReceiverInv
        BY ONLY <1>u, Zenon DEF UnlappedInv
      <3>2. \A u \in Workers : pc'[u] \in Receiving =>
               /\ pc'[u] = pc[u] /\ msg'[u] = msg[u] /\ oob'[u] = oob[u]
               /\ idx'[u] = idx[u] /\ taken'[u] = taken[u]
        BY ONLY <1>3, <2>1, Zenon DEF Receiving
      <3>3. \A u \in Workers : pc[u] \in {"r_read", "r_mark"} => buf'[idx[u]] = buf[idx[u]]
        BY ONLY <2>2, <2>3, <2>6, <3>1, Zenon DEF ReceiverInv
      <3>4. \A u \in Workers : pc[u] \in Receiving => taken[u] \in heap'
        BY ONLY <2>1, <2>4, <3>1, Zenon DEF ReceiverInv
      <3>5. ASSUME NEW u \in Workers, pc'[u] \in {"r_read", "r_mark"}
            PROVE  att'[idx'[u]] = taken'[u] /\ buf'[idx'[u]] = taken'[u] /\ idx'[u] \notin recvd'
        <4>1. pc[u] \in {"r_read", "r_mark"} /\ idx'[u] = idx[u] /\ taken'[u] = taken[u]
          BY ONLY <3>2, <3>5, Zenon DEF Receiving
        <4>2. att[idx[u]] = taken[u] /\ buf[idx[u]] = taken[u] /\ idx[u] \notin recvd
          BY ONLY <3>1, <4>1, Zenon DEF ReceiverInv
        <4> QED  BY ONLY <1>1, <3>3, <4>1, <4>2, Zenon
      <3>6. ASSUME NEW u \in Workers, pc'[u] \in Receiving
            PROVE  /\ pc'[u] \in {"r_mark", "r_notify"} => msg'[u] = taken'[u]
                   /\ pc'[u] = "r_notify" => oob'[u] = taken'[u]
                   /\ taken'[u] \in heap'
        BY ONLY <3>1, <3>2, <3>4, <3>6, ZenonT(60) DEF ReceiverInv
      <3> QED  BY ONLY <3>5, <3>6, Zenon DEF ReceiverInv, Receiving
    <2>10. FreeingInv'
      <3>1. FreeingInv
        BY ONLY <1>u, Zenon DEF UnlappedInv
      <3>2. \A i \in recvd' \ freed' : buf'[i] = att'[i] /\ att'[i] \in heap'
        <4>1. \A i \in recvd \ freed : i \in Indices \ {idx[t]} /\ buf[i] = att[i] /\ att[i] \in heap
          BY ONLY <2>3, <2>6, <3>1, Zenon DEF FreeingInv
        <4> QED  BY ONLY <1>1, <2>1, <2>2, <2>7, <4>1, Zenon
      <3>3. \A u \in Workers : pc'[u] \in Freeing =>
               u # t /\ pc'[u] = pc[u] /\ msg'[u] = msg[u] /\ idx'[u] = idx[u]
        BY ONLY <1>3, <2>1, Zenon DEF Freeing
      <3>4. ASSUME NEW u \in Workers, pc'[u] \in Freeing
            PROVE  /\ idx'[u] \in recvd' /\ att'[idx'[u]] = msg'[u] /\ msg'[u] # NULL
                   /\ \E r \in receipt' : r[1] = msg'[u]
        <4>1. pc[u] \in Freeing /\ msg'[u] = msg[u] /\ idx'[u] = idx[u]
          BY ONLY <3>3, <3>4, Zenon
        <4>2. /\ idx[u] \in recvd /\ att[idx[u]] = msg[u] /\ msg[u] # NULL
              /\ \E r \in receipt : r[1] = msg[u]
          BY ONLY <3>1, <3>4, <4>1, Zenon DEF FreeingInv
        <4> QED  BY ONLY <1>1, <4>1, <4>2, Zenon
      <3>5. \A u \in Workers : pc'[u] = "f_clear" =>
               /\ idx'[u] = idx[u] /\ idx[u] \in freed' /\ msg'[u] \in heap
               /\ idx[u] # idx[t] /\ idx[u] \in Indices /\ att[idx[u]] = msg'[u]
        <4>1. \A u \in Workers : pc'[u] = "f_clear" =>
                 u # t /\ pc[u] = "f_clear" /\ pc[u] \in Freeing /\ msg'[u] = msg[u] /\ idx'[u] = idx[u]
          BY ONLY <3>3, Zenon DEF Freeing
        <4>2. \A u \in Workers : pc[u] = "f_clear" => idx[u] \in freed /\ msg[u] \in heap
          BY ONLY <3>1, Zenon DEF FreeingInv
        <4>3. \A u \in Workers : pc[u] \in Freeing => att[idx[u]] = msg[u]
          BY ONLY <3>1, Zenon DEF FreeingInv
        <4> QED  BY ONLY <2>1, <2>3, <2>6, <4>1, <4>2, <4>3, Zenon
      <3>6. \A u \in Workers : pc'[u] = "f_clear" => idx'[u] \in freed' /\ msg'[u] \in heap'
        BY ONLY <2>1, <2>7, <3>5, Zenon
      <3>7. \A u, v \in Workers : pc'[u] = "f_clear" /\ pc'[v] = "f_clear" /\ idx'[v] = idx'[u] => v = u
        <4>1. \A u \in Workers : pc'[u] = "f_clear" => pc[u] = "f_clear" /\ idx'[u] = idx[u]
          BY ONLY <3>3, Zenon DEF Freeing
        <4>2. \A u, v \in Workers : pc[u] = "f_clear" /\ pc[v] = "f_clear" /\ idx[v] = idx[u] => v = u
          BY ONLY <3>1, Zenon DEF FreeingInv
        <4> QED  BY ONLY <4>1, <4>2, Zenon
      <3> QED  BY ONLY <3>2, <3>4, <3>6, <3>7, Zenon DEF FreeingInv
    <2> QED  BY <1>4, <2>8, <2>9, <2>10, Zenon DEF UnlappedInv
  <1> QED  BY <1>5, <1>6, Zenon

\* Quiet steps disturb none of this.
LEMMA UnlappedQuiet ==
    ASSUME Before, Quiet
    PROVE  UnlappedInv'
  <1> USE DEF Before
  <1>u. UnlappedInv /\ TakenInv /\ RingInv
    BY Zenon
  <1>1. UNCHANGED <<buf, att, recvd, freed, heap, receipt>>
    BY Zenon DEF Quiet
  <1>2. Queued' = Queued /\ \A n : Pos(n)' = Pos(n)
    BY Zenon DEF Queued, Pos, Quiet
  <1>3. QueuedInv' /\ ReceiverInv'
    <2>1. QueuedInv /\ ReceiverInv
      BY ONLY <1>u, Zenon DEF UnlappedInv
    <2>2. \A u \in Workers : pc'[u] \in Unlocked \cup Receiving =>
             /\ pc'[u] = pc[u] /\ msg'[u] = msg[u] /\ oob'[u] = oob[u]
             /\ idx'[u] = idx[u] /\ taken'[u] = taken[u]
      BY ONLY Quiet, Zenon DEF Quiet
    <2>3. QueuedInv'
      <3>1. \A u \in Workers : pc'[u] \in Unlocked => pc[u] \in Unlocked /\ idx'[u] = idx[u]
        BY ONLY <2>2, Zenon
      <3> QED  BY ONLY <1>1, <1>2, <2>1, <3>1, ZenonT(60) DEF QueuedInv
    <2>4. ReceiverInv'
      <3>1. ASSUME NEW u \in Workers, pc'[u] \in Receiving
            PROVE  /\ pc'[u] \in {"r_read", "r_mark"} =>
                        att'[idx'[u]] = taken'[u] /\ buf'[idx'[u]] = taken'[u] /\ idx'[u] \notin recvd'
                   /\ pc'[u] \in {"r_mark", "r_notify"} => msg'[u] = taken'[u]
                   /\ pc'[u] = "r_notify" => oob'[u] = taken'[u]
                   /\ taken'[u] \in heap'
        <4>1. /\ pc'[u] = pc[u] /\ msg'[u] = msg[u] /\ oob'[u] = oob[u]
              /\ idx'[u] = idx[u] /\ taken'[u] = taken[u]
          BY ONLY <2>2, <3>1, Zenon
        <4> QED  BY ONLY <1>1, <2>1, <3>1, <4>1, Zenon DEF ReceiverInv
      <3> QED  BY ONLY <3>1, Zenon DEF ReceiverInv, Receiving
    <2> QED  BY ONLY <2>3, <2>4, Zenon
  <1>4. ReceiptInv' /\ FreeingInv'
    <2>1. ReceiptInv /\ FreeingInv
      BY ONLY <1>u, Zenon DEF UnlappedInv
    <2>2. \A u \in Workers : pc'[u] \in Freeing => pc'[u] = pc[u] /\ msg'[u] = msg[u] /\ idx'[u] = idx[u]
      BY ONLY Quiet, Zenon DEF Quiet, Freeing, Unlocked
    <2>3. ReceiptInv'
      BY ONLY <1>1, <2>1, Zenon DEF ReceiptInv
    <2>4. \A i \in recvd' \ freed' : buf'[i] = att'[i] /\ att'[i] \in heap'
      BY ONLY <1>1, <2>1, Zenon DEF FreeingInv
    <2> QED  BY <1>1, <2>1, <2>2, <2>3, <2>4, FreeingKept, Zenon
  <1> QED  BY <1>3, <1>4, Zenon DEF UnlappedInv

\* Together: until somebody is lapped, UnlappedInv is preserved.
LEMMA UnlappedStep ==
    /\ TypeOK /\ Counted /\ RingInv /\ TakenInv /\ (lapped = {} => UnlappedInv)
    /\ [Next]_vars
    => (lapped' = {} => UnlappedInv')
  <1> SUFFICES ASSUME TypeOK, Counted, RingInv, TakenInv, lapped = {} => UnlappedInv,
                      [Next]_vars, lapped' = {}
               PROVE  UnlappedInv'
    BY Zenon
  <1>1. Before
    BY LappedGrows, Zenon DEF Before
  <1> QED
    BY Zenon, <1>1, QuietFrame, UnlappedSend, UnlappedTake, UnlappedRecv, UnlappedReturn, UnlappedFind,
       UnlappedFree, UnlappedQuiet
    DEF Loud
-----------------------------------------------------------------------------
(* The theorems *)

\* The inductive invariant: what each of the sections above keeps, the last of
\* them as long as no sender has lapped a worker.
IInv ==
    /\ TypeOK /\ Counted /\ StatusIsLock /\ EventsAgree /\ ClosingInv
    /\ RingInv /\ TakenInv /\ (lapped = {} => UnlappedInv)

\* IInv is inductive: it holds of a fresh port, every step of every worker in
\* cosend, corecv, coclose and coport_msg_free preserves it.
THEOREM Inductive == Spec => []IInv
  <1>1. Init => IInv
    BY TypeInit, LockInit, ClosingInit, RingInit, TakenInit, UnlappedInit, Zenon DEF IInv
  <1>2. IInv /\ [Next]_vars => IInv'
    BY TypeStep, LockStep, ClosingStep, RingStep, TakenStep, UnlappedStep, Zenon DEF IInv
  <1> QED  BY <1>1, <1>2, PTL DEF Spec

\* Every variable keeps its type: in particular the ring indices that cosend.c:208
\* and corecv.c:94 advance stay inside the array, and length stays within it.
THEOREM TypeCorrect == Spec => []TypeOK
  <1>1. IInv => TypeOK
    BY Zenon DEF IInv
  <1> QED  BY <1>1, Inductive, PTL

\* The status word excludes the critical sections of send, receive and close
\* (cosend.c:162-184, corecv.c:68-82, coclose.c:65-76) for any number of workers.
THEOREM Lock == Spec => []StatusIsLock
  <1>1. IInv => StatusIsLock
    BY Zenon DEF IInv
  <1> QED  BY <1>1, Inductive, PTL

\* EAGAIN is returned only for the reason the length gives (cosend.c:190,
\* corecv.c:86).
THEOREM Events == Spec => []EventsAgree
  <1>1. IInv => EventsAgree
    BY Zenon DEF IInv
  <1> QED  BY <1>1, Inductive, PTL

\* No message is queued after a coclose went through (coclose.c:77-79), whatever
\* the receivers do to the status word afterwards.
THEOREM CloseFinal == Spec => CloseIsFinal
  <1> DEFINE Final == "CLOSED" \in event => nsent' = nsent /\ "CLOSED" \in event'
  <1>1. IInv /\ [Next]_vars => [Final]_vars
    <2> SUFFICES ASSUME IInv, Next, "CLOSED" \in event PROVE nsent' = nsent /\ "CLOSED" \in event'
      BY Zenon
    <2>1. ASSUME NEW t \in Workers, SendCommit(t) PROVE FALSE
      BY <2>1, Zenon DEF SendCommit, MaySend, IInv, EventsAgree
    <2>2. ASSUME NEW t \in Workers, RecvTake(t) PROVE nsent' = nsent /\ "CLOSED" \in event'
      BY <2>2, Zenon DEF RecvTake, RecvMask, client
    <2> QED
      BY ZenonT(60), <2>1, <2>2
      DEF Next, Call, Step, info, client, SendCall, SendEpipe, SendLock, SendAgain, RecvCall,
          RecvSeesClosing, RecvLock, RecvAgain, RecvRead, RecvMark, SendNotify, RecvNotify, CloseCall,
          CloseEpipe, CloseLock, CloseCommit, CloseMask, FreeFind, FreeMark, FreeLost,
          FreeClear
  <1> HIDE DEF Final
  <1>2. [][Final]_vars => CloseIsFinal
    BY Zenon DEF Final, CloseIsFinal
  <1> QED  BY <1>1, <1>2, Inductive, PTL DEF Spec

\* RingInOrder in terms of positions: start + k - 1 is the position of message
\* nsent - length + k.
LEMMA InvImpliesRing == ASSUME IInv PROVE RingInOrder
  <1> DEFINE a == nsent - length
  <1>1. a \in Nat /\ length \in Nat /\ nsent \in Nat /\ a + length = nsent
    BY DEF IInv, TypeOK, Counted
  <1>2. start = a % COCARRIER_SIZE /\ end = nsent % COCARRIER_SIZE /\ start \in Nat
    BY <1>1 DEF IInv, RingInv, Pos, TypeOK
  <1> HIDE DEF a
  <1>3. end = (start + length) % COCARRIER_SIZE
    BY ONLY ZenonT(60), <1>1, <1>2, ModAdd, SizeAssumption
  <1>4. ASSUME NEW k \in 1 .. length
        PROVE  (start + k - 1) % COCARRIER_SIZE = Pos(a + k) /\ a + k \in Queued
    <2> DEFINE j == k - 1
    <2>1. j \in Nat /\ k = j + 1 /\ start + k - 1 = start + j /\ (a + k) - 1 = a + j
      BY <1>1, <1>2
    <2>2. a + k \in Queued
      BY <1>1 DEF Queued, a
    <2> HIDE DEF j
    <2>3. (start + j) % COCARRIER_SIZE = (a + j) % COCARRIER_SIZE
      BY ONLY Zenon, <1>1, <1>2, <2>1, ModAdd, SizeAssumption
    <2> QED  BY <2>1, <2>2, <2>3, Zenon DEF Pos
  <1>5. ASSUME NEW n \in Queued
        PROVE  att[Pos(n)] = n /\ (buf[Pos(n)] = n \/ (lapped # {} /\ buf[Pos(n)] = NULL))
    <2>1. Pos(n) \in Indices
      BY <1>5, QueuedApart, Zenon DEF IInv
    <2>2. RingInv /\ (lapped = {} => UnlappedInv)
      BY Zenon DEF IInv
    <2> QED  BY ONLY <1>5, <2>1, <2>2, Zenon DEF RingInv, UnlappedInv, QueuedInv
  <1> QED  BY <1>3, <1>4, <1>5, Zenon DEF RingInOrder, a

\* The ring holds the last messages in order (cosend.c:206-216, corecv.c:92-97).
THEOREM Ring == Spec => []RingInOrder
  <1>1. IInv => RingInOrder
    BY InvImpliesRing, Zenon
  <1> QED  BY <1>1, Inductive, PTL

\* No buffer is freed while it is queued or a client has it, nor twice, until a
\* sender laps a worker (comsg_free.c:78-85).
THEOREM Heap == Spec => []HeapIsSafe
  <1>1. ASSUME IInv PROVE HeapIsSafe
    <2> SUFFICES ASSUME lapped = {} PROVE HeapIsSafe
      BY Zenon DEF HeapIsSafe
    <2>1. UnlappedInv /\ length \in Nat /\ nsent \in Nat
      BY <1>1 DEF IInv, TypeOK
    <2>2. \A k \in 1 .. length : nsent - length + k \in Queued
      BY <2>1 DEF Queued
    <2>3. \A t \in Workers : pc[t] = "f_clear" =>
             /\ msg[t] \in heap
             /\ \A u \in Workers \ {t} : pc[u] = "f_clear" => msg[u] # msg[t]
      <3>1. \A t \in Workers : pc[t] = "f_clear" => idx[t] \in Indices /\ idx[t] = Pos(msg[t])
        <4>1. RingInv /\ \A t \in Workers : idx[t] \in Indices
          BY <1>1, Zenon DEF IInv, TypeOK
        <4> QED  BY ONLY <2>1, <4>1 DEF UnlappedInv, FreeingInv, Freeing, RingInv
      <3>2. FreeingInv
        BY ONLY <2>1, Zenon DEF UnlappedInv
      <3>3. \A t \in Workers : pc[t] = "f_clear" => msg[t] \in heap
        BY ONLY <3>2, Zenon DEF FreeingInv
      <3>4. ASSUME NEW t \in Workers, NEW u \in Workers \ {t}, pc[t] = "f_clear", pc[u] = "f_clear"
            PROVE  msg[u] # msg[t]
        <4>1. idx[u] # idx[t]
          BY ONLY <3>2, <3>4, Zenon DEF FreeingInv
        <4>2. idx[u] = Pos(msg[u]) /\ idx[t] = Pos(msg[t])
          BY ONLY <3>1, <3>4, Zenon
        <4> QED  BY ONLY <4>1, <4>2, Zenon
      <3> QED  BY ONLY <3>3, <3>4, Zenon
    <2> QED  BY ONLY <2>1, <2>2, <2>3, Zenon DEF UnlappedInv, QueuedInv, ReceiverInv, Receiving, HeapIsSafe
  <1> QED  BY <1>1, Inductive, PTL

-----------------------------------------------------------------------------
(* The queue of Anycast *)

\* What the refinement mapping comes to: the queue is the last l numbers up to n.
Last(n, l) == [k \in 1 .. l |-> n - l + k]

\* A receiver's message in flight is the one it took.
InFlight == [t \in Workers |-> IF pc[t] \in Receiving THEN taken[t] ELSE 0]

\* Last as a sequence: empty, extended at the end, shortened at the front.
LEMMA LastSeq ==
    ASSUME NEW n \in Nat, NEW l \in Nat, l <= n
    PROVE  /\ Last(n, l) \in Seq(Nat) /\ Len(Last(n, l)) = l
           /\ l = 0 => Last(n, l) = << >>
           /\ Append(Last(n, l), n + 1) = Last(n + 1, l + 1)
           /\ l > 0 => /\ Last(n, l) # << >>
                       /\ Head(Last(n, l)) = n - l + 1
                       /\ Tail(Last(n, l)) = Last(n, l - 1)
  <1>1. \A m, j \in Nat : j <= m => Last(m, j) \in Seq(Nat) /\ Len(Last(m, j)) = j
    BY DEF Last
  <1>2. Last(n, l) \in Seq(Nat) /\ Len(Last(n, l)) = l
    BY <1>1, Zenon
  <1>3. ASSUME l = 0 PROVE Last(n, l) = << >>
    BY <1>2, <1>3, EmptySeq, Zenon
  <1>4. Append(Last(n, l), n + 1) = Last(n + 1, l + 1)
    <2> DEFINE s == Append(Last(n, l), n + 1)  u == Last(n + 1, l + 1)
    <2>1. s \in Seq(Nat) /\ Len(s) = l + 1
      BY <1>2, AppendProperties
    <2>2. u \in Seq(Nat) /\ Len(u) = l + 1
      BY <1>1
    <2>3. ASSUME NEW k \in 1 .. l + 1 PROVE s[k] = u[k]
      BY <1>2, AppendProperties DEF Last
    <2> HIDE DEF s, u
    <2> QED  BY <2>1, <2>2, <2>3, SeqEqual, Zenon DEF s, u
  <1>5. ASSUME l > 0
        PROVE  Last(n, l) # << >> /\ Head(Last(n, l)) = n - l + 1 /\ Tail(Last(n, l)) = Last(n, l - 1)
    <2> DEFINE s == Tail(Last(n, l))  u == Last(n, l - 1)
    <2>1. Last(n, l) # << >>
      BY <1>2, <1>5, EmptySeq
    <2>2. Head(Last(n, l)) = n - l + 1
      BY <1>2, <1>5, <2>1, HeadTailProperties DEF Last
    <2>3. s \in Seq(Nat) /\ Len(s) = l - 1 /\ \A k \in 1 .. Len(s) : s[k] = Last(n, l)[k + 1]
      BY <1>2, <1>5, <2>1, HeadTailProperties, Zenon
    <2>4. u \in Seq(Nat) /\ Len(u) = l - 1
      BY <1>1, <1>5
    <2>5. ASSUME NEW k \in 1 .. l - 1 PROVE s[k] = u[k]
      BY <2>3, <1>5 DEF Last
    <2> HIDE DEF s, u
    <2> QED  BY <2>1, <2>2, <2>3, <2>4, <2>5, SeqEqual, Zenon DEF s, u
  <1> QED  BY <1>2, <1>3, <1>4, <1>5, Zenon

-----------------------------------------------------------------------------
\* IInv while nobody was lapped.
Unlapped == IInv /\ lapped = {}

\* The refinement mapping of Queue ...
MappedQueue    == [k \in 1 .. length |-> buf[(start + k - 1) % COCARRIER_SIZE]]
MappedFlight   == [t \in Workers |->
                      IF pc[t] = "r_read" THEN buf[idx[t]]
                      ELSE IF pc[t] \in {"r_mark", "r_notify"} THEN msg[t] ELSE 0]
MappedReceived == {r[2] : r \in receipt}

\* ... and what it comes to.
Mapped ==
    /\ MappedQueue = Last(nsent, length)
    /\ MappedFlight = InFlight
    /\ MappedReceived = {r[1] : r \in receipt}

\* The slots from start on hold the last messages in order, a receiver's slot or
\* local what it took, a receipt what was taken.
LEMMA Mapping == Unlapped => Mapped
  <1> SUFFICES ASSUME Unlapped PROVE Mapped
    BY Zenon
  <1>1. RingInOrder /\ lapped = {}
    BY InvImpliesRing, Zenon DEF Unlapped
  <1>2. UnlappedInv
    BY Zenon DEF Unlapped, IInv
  <1>3. MappedQueue = Last(nsent, length)
    <2>1. \A k \in 1 .. length : buf[(start + k - 1) % COCARRIER_SIZE] = nsent - length + k
      BY <1>1, Zenon DEF RingInOrder
    <2> QED  BY <2>1, Zenon DEF MappedQueue, Last
  <1>4. MappedFlight = InFlight
    BY ONLY <1>2, Zenon DEF MappedFlight, InFlight, UnlappedInv, ReceiverInv, Receiving
  <1>5. MappedReceived = {r[1] : r \in receipt}
    BY ONLY <1>2, Zenon DEF MappedReceived, UnlappedInv, ReceiptInv
  <1> QED  BY <1>3, <1>4, <1>5, Zenon DEF Mapped

\* A fresh port is the empty queue.
LEMMA QueueInit == Init => Queue!Init
  <1> SUFFICES ASSUME Init PROVE Queue!Init
    BY Zenon
  <1>1. nsent = 0 /\ length = 0 /\ receipt = {} /\ "CLOSED" \notin event
        /\ \A t \in Workers : pc[t] = "idle"
    BY Zenon DEF Init, COPOLL_INIT_EVENTS
  <1>2. MappedQueue = << >>
    BY <1>1 DEF MappedQueue
  <1>3. MappedFlight = [t \in Workers |-> 0]
    BY ZenonT(60), <1>1 DEF MappedFlight
  <1> QED  BY <1>1, <1>2, <1>3 DEF Queue!Init, MappedQueue, MappedFlight

\* Only coclose sets the CLOSED bit, and nothing clears it.
LEMMA ClosedFrame ==
    ASSUME Next
    PROVE  \/ \E t \in Workers : CloseCommit(t)
           \/ "CLOSED" \in event' <=> "CLOSED" \in event
  <1>1. ASSUME NEW t \in Workers, SendCommit(t) \/ SendAgain(t)
        PROVE  "CLOSED" \in event' <=> "CLOSED" \in event
    BY <1>1, Zenon DEF SendCommit, SentMask, SendAgain
  <1>2. ASSUME NEW t \in Workers, RecvTake(t) \/ RecvAgain(t)
        PROVE  "CLOSED" \in event' <=> "CLOSED" \in event
    BY <1>2, Zenon DEF RecvTake, RecvMask, RecvAgain
  <1>3. ASSUME NEW t \in Workers, SendCall(t) \/ SendEpipe(t) \/ SendLock(t) \/ SendNotify(t)
        PROVE  event' = event
    BY <1>3, Zenon DEF info, SendCall, SendEpipe, SendLock, SendNotify
  <1>4. ASSUME NEW t \in Workers, RecvCall(t) \/ RecvSeesClosing(t) \/ RecvLock(t)
        PROVE  event' = event
    BY <1>4, Zenon DEF info, RecvCall, RecvSeesClosing, RecvLock
  <1>5. ASSUME NEW t \in Workers, RecvRead(t) \/ RecvMark(t) \/ RecvNotify(t)
        PROVE  event' = event
    BY <1>5, Zenon DEF info, RecvRead, RecvMark, RecvNotify
  <1>6. ASSUME NEW t \in Workers, CloseCall(t) \/ CloseEpipe(t) \/ CloseLock(t)
        PROVE  event' = event
    BY <1>6, Zenon DEF info, CloseCall, CloseEpipe, CloseLock
  <1>7. ASSUME NEW t \in Workers, FreeMark(t) \/ FreeLost(t) \/ FreeClear(t)
        PROVE  event' = event
    BY <1>7, Zenon DEF info, FreeMark, FreeLost, FreeClear
  <1>8. ASSUME NEW t \in Workers, NEW i \in Indices, FreeFind(t, i) PROVE event' = event
    BY <1>8, Zenon DEF info, FreeFind
  <1> QED  BY <1>1, <1>2, <1>3, <1>4, <1>5, <1>6, <1>7, <1>8, ZenonT(60) DEF Next, Call, Step

\* cosend's commit is Send, corecv's critical section is Take, its return Return,
\* and the first coclose Close.  Every other step leaves the queue alone.
LEMMA QueueStep ==
    ASSUME Unlapped, Unlapped', Mapped, Mapped', Next
    PROVE  [Queue!Next]_(Queue!vars)
  <1>0. /\ nsent \in Nat /\ length \in Nat /\ length <= nsent /\ EventsAgree /\ TakenInv
        /\ pc \in [Workers -> Points] /\ taken \in [Workers -> Nat]
    <2>1. TypeOK /\ Counted /\ EventsAgree /\ TakenInv
      BY Zenon DEF Unlapped, IInv
    <2> QED  BY <2>1 DEF TypeOK, Counted
  <1> DEFINE q == MappedQueue  f == MappedFlight  rc == MappedReceived  c == "CLOSED" \in event
  <1>a. q = Last(nsent, length) /\ q' = Last(nsent', length')
        /\ f = InFlight /\ f' = InFlight' /\ rc = {r[1] : r \in receipt} /\ rc' = {r[1] : r \in receipt'}
    BY Zenon DEF Mapped, Last
  <1>c. ASSUME c' <=> c PROVE UNCHANGED c
    <2>1. CASE c
      <3>1. c = TRUE /\ c' = TRUE
        BY <1>c, <2>1, Zenon
      <3> QED  BY <3>1, Zenon
    <2>2. CASE ~c
      <3>1. c = FALSE /\ c' = FALSE
        BY <1>c, <2>2
      <3> QED  BY <3>1, Zenon
    <2> QED  BY <2>1, <2>2, Zenon
  <1>b. ASSUME q' = q, f' = f, rc' = rc, c' <=> c, nsent' = nsent
        PROVE  UNCHANGED Queue!vars
    <2>1. UNCHANGED <<q, nsent, f, rc, c>>
      BY ONLY <1>b, <1>c, Zenon
    <2> QED  BY ONLY <2>1, Zenon DEF Queue!vars, MappedQueue, MappedFlight, MappedReceived
  <1>1. ASSUME NEW t \in Workers, SendCommit(t) PROVE Queue!Send
    <2>1. nsent' = nsent + 1 /\ length' = length + 1 /\ length < COCARRIER_SIZE /\ ~c /\ (c' <=> c)
          /\ receipt' = receipt
      BY <1>0, <1>1, Zenon DEF SendCommit, MaySend, SentMask, EventsAgree
    <2>2. Len(q) = length /\ q' = Append(q, nsent')
      BY <1>0, <1>a, <2>1, LastSeq, Zenon
    <2>3. f' = f
      BY <1>0, <1>1, <1>a, Zenon DEF SendCommit, locals, Goto, InFlight, Receiving
    <2> QED
      <3>1. UNCHANGED c
        BY ONLY <2>1, <1>c, Zenon
      <3>2. UNCHANGED rc
        BY <1>a, <2>1, Zenon
      <3>3. ~c /\ Len(q) < COCARRIER_SIZE /\ nsent' = nsent + 1 /\ q' = Append(q, nsent')
            /\ UNCHANGED <<f, rc, c>>
        BY ONLY <2>1, <2>2, <2>3, <3>1, <3>2, Zenon
      <3> QED  BY ONLY <3>3, Zenon DEF Queue!Send, MappedQueue, MappedFlight, MappedReceived
  <1>2. ASSUME NEW t \in Workers, RecvTake(t) PROVE Queue!Take(t)
    <2>1. nsent' = nsent /\ length' = length - 1 /\ length > 0 /\ (c' <=> c) /\ receipt' = receipt
      BY <1>0, <1>2 DEF RecvTake, MayRecv, RecvMask, client
    <2>2. q # << >> /\ Head(q) = nsent - length + 1 /\ q' = Tail(q)
      BY <1>0, <1>a, <2>1, LastSeq, Zenon
    <2>3. f[t] = 0 /\ f' = [f EXCEPT ![t] = nsent - length + 1]
      BY <1>0, <1>2, <1>a, Zenon DEF RecvTake, Goto, InFlight, Receiving
    <2> QED
      <3>1. UNCHANGED c
        BY ONLY <2>1, <1>c, Zenon
      <3>2. UNCHANGED rc
        BY <1>a, <2>1, Zenon
      <3>3. q # << >> /\ f[t] = 0 /\ f' = [f EXCEPT ![t] = Head(q)] /\ q' = Tail(q)
            /\ UNCHANGED <<nsent, rc, c>>
        BY ONLY <2>1, <2>2, <2>3, <3>1, <3>2, Zenon
      <3> QED  BY ONLY <3>3, Zenon DEF Queue!Take, MappedQueue, MappedFlight, MappedReceived
  <1>3. ASSUME NEW t \in Workers, RecvNotify(t) PROVE Queue!Return(t)
    <2>1. nsent' = nsent /\ length' = length /\ (c' <=> c)
          /\ receipt' = receipt \cup {<<taken[t], msg[t], oob[t]>>}
      BY <1>3, Zenon DEF RecvNotify
    <2>2. f[t] = taken[t] /\ f' = [f EXCEPT ![t] = 0]
      BY <1>0, <1>3, <1>a, ZenonT(60) DEF RecvNotify, Return, Goto, InFlight, Receiving
    <2>3. taken[t] # 0 /\ \A r \in receipt : r[1] # taken[t]
      BY <1>0, <1>3 DEF RecvNotify, Return, Goto, TakenInv, Receiving
    <2>4. f[t] \notin rc /\ rc' = rc \cup {f[t]}
      <3> DEFINE new == <<taken[t], msg[t], oob[t]>>
      <3>1. new[1] = taken[t]
        BY Zenon
      <3> HIDE DEF new
      <3>2. rc' = {r[1] : r \in receipt \cup {new}}
        BY <1>a, <2>1, Zenon DEF new
      <3>3. rc' = rc \cup {taken[t]}
        BY ONLY <1>a, <3>1, <3>2, Zenon
      <3> QED  BY <1>a, <2>2, <2>3, <3>3, ZenonT(60)
    <2>5. q' = q
      BY <1>a, <2>1, Zenon
    <2> QED
      <3>1. UNCHANGED c
        BY ONLY <2>1, <1>c, Zenon
      <3>2. f[t] # 0 /\ f[t] \notin rc /\ rc' = rc \cup {f[t]} /\ f' = [f EXCEPT ![t] = 0]
            /\ UNCHANGED <<q, nsent, c>>
        BY ONLY <2>1, <2>2, <2>3, <2>4, <2>5, <3>1, Zenon
      <3> QED  BY ONLY <3>2, Zenon DEF Queue!Return, MappedQueue, MappedFlight, MappedReceived
  <1>4. ASSUME NEW t \in Workers, CloseCommit(t) PROVE Queue!Close \/ UNCHANGED Queue!vars
    <2>1. nsent' = nsent /\ length' = length /\ c' /\ receipt' = receipt
      BY <1>4, Zenon DEF CloseCommit, CloseMask, client
    <2>2. f' = f
      BY <1>0, <1>4, <1>a, Zenon DEF CloseCommit, Return, Goto, InFlight, Receiving
    <2>3. q' = q /\ rc' = rc
      BY <1>a, <2>1, Zenon
    <2>4. CASE c
      BY <1>b, <2>1, <2>2, <2>3, <2>4, Zenon
    <2>5. CASE ~c
      BY <2>1, <2>2, <2>3, <2>5, Zenon DEF Queue!Close, MappedQueue, MappedFlight, MappedReceived
    <2> QED  BY <2>4, <2>5, Zenon
  <1>5. ASSUME ~ \E t \in Workers : SendCommit(t) \/ RecvTake(t) \/ RecvNotify(t) \/ CloseCommit(t)
        PROVE  UNCHANGED Queue!vars
    <2>1. c' <=> c
      BY <1>5, ClosedFrame, Zenon
    <2>2. nsent' = nsent /\ length' = length /\ receipt' = receipt /\ InFlight' = InFlight
      <3>1. ASSUME NEW t \in Workers, RecvRead(t) \/ RecvMark(t)
            PROVE  nsent' = nsent /\ length' = length /\ receipt' = receipt /\ InFlight' = InFlight
        BY <1>0, <3>1, Zenon DEF RecvRead, RecvMark, Goto, InFlight, Receiving, client, info
      <3>2. ASSUME NEW t \in Workers, NEW i \in Indices, FreeFind(t, i)
            PROVE  nsent' = nsent /\ length' = length /\ receipt' = receipt /\ InFlight' = InFlight
        BY <1>0, <3>2, Zenon DEF FreeFind, Goto, InFlight, Receiving, client, info
      <3>3. ASSUME NEW t \in Workers, FreeMark(t)
            PROVE  nsent' = nsent /\ length' = length /\ receipt' = receipt /\ InFlight' = InFlight
        BY <1>0, <3>3, Zenon DEF FreeMark, Goto, InFlight, Receiving, client, info, locals
      <3>4. ASSUME NEW t \in Workers, FreeClear(t)
            PROVE  nsent' = nsent /\ length' = length /\ receipt' = receipt /\ InFlight' = InFlight
        BY <1>0, <3>4, Zenon DEF FreeClear, Return, Goto, InFlight, Receiving, client, info
      <3>5. ASSUME Quiet
            PROVE  nsent' = nsent /\ length' = length /\ receipt' = receipt /\ InFlight' = InFlight
        BY <3>5, Zenon DEF Quiet, InFlight
      <3>6. Quiet \/ \E t \in Workers : Loud(t)
        BY QuietFrame, Zenon DEF Unlapped, IInv
      <3> QED  BY <1>5, <3>1, <3>2, <3>3, <3>4, <3>5, <3>6, ZenonT(60) DEF Loud
    <2> QED  BY <1>a, <1>b, <2>1, <2>2, Zenon
  <1> QED  BY <1>1, <1>2, <1>3, <1>4, <1>5, ZenonT(60) DEF Queue!Next

\* README.md's promise that a coport is anycast: cosend, corecv, coclose and
\* coport_msg_free together implement the queue of Anycast as long as no sender
\* laps a worker.
THEOREM Refinement == NoLapSpec => IsAnycastQueue
  <1>1. Init => Unlapped
    BY TypeInit, LockInit, ClosingInit, RingInit, TakenInit, UnlappedInit, Zenon DEF IInv, Unlapped, Init
  <1>2. Unlapped /\ [Next /\ lapped' = {}]_vars => Unlapped'
    <2>1. IInv /\ [Next]_vars => IInv'
      BY TypeStep, LockStep, ClosingStep, RingStep, TakenStep, UnlappedStep, Zenon DEF IInv
    <2>2. UNCHANGED vars => lapped' = lapped
      BY Zenon DEF vars, client
    <2> QED  BY <2>1, <2>2, ZenonT(60) DEF Unlapped
  <1>3. Unlapped /\ Unlapped' /\ Mapped /\ Mapped' /\ [Next /\ lapped' = {}]_vars => [Queue!Next]_(Queue!vars)
    <2>1. UNCHANGED vars => UNCHANGED Queue!vars
      BY Zenon DEF vars, info, slots, locals, client, Queue!vars
    <2> QED  BY <2>1, QueueStep, Zenon
  <1> QED  BY <1>1, <1>2, <1>3, Mapping, QueueInit, PTL DEF NoLapSpec, IsAnycastQueue, Queue!Spec
=============================================================================
