------------------------------- MODULE Coport -------------------------------
(* What every cocarrier operation of ipcd shares: the values of the status    *)
(* word, the event mask, and the updates of the mask.  A mask is the set of   *)
(* its bits; NOEVENT is {}.                                                   *)
EXTENDS Integers

CONSTANT COCARRIER_SIZE        \* slots of the ring, 256 in the code

ASSUME SizeAssumption == COCARRIER_SIZE \in Nat \ {0}

\* COPORT_READY belongs to copipes and is never stored by a cocarrier.
Status == {"OPEN", "BUSY", "DONE", "POLLING", "CLOSING", "CLOSED"}

Bits == {"CLOSED", "IN", "OUT", "RERR", "WERR"}

COPOLL_INIT_EVENTS == {"OUT"}

Lengths == 0 .. COCARRIER_SIZE
Indices == 0 .. COCARRIER_SIZE - 1

\* Mutant: the index is not wrapped.
SuccNoWrap(i) == i + 1

Succ(i) == (i + 1) % COCARRIER_SIZE

-----------------------------------------------------------------------------
\* The two admission tests, each of the length and of the mask.
MaySend(mask, len) == len < COCARRIER_SIZE /\ "OUT" \in mask
MayRecv(mask, len) == len # 0 /\ "IN" \in mask

\* The mask after a message was queued, taken, and after coclose.
\* Mutant: the send that fills the ring leaves COPOLL_OUT set.
SentMaskNeverFull(mask, newLen) == (mask \cup {"IN"}) \ {"WERR"}

SentMask(mask, newLen) ==
    (mask \cup {"IN"}) \ (IF newLen = COCARRIER_SIZE THEN {"WERR", "OUT"} ELSE {"WERR"})

\* Mutant: the test of closing is dropped.
RecvMaskReopens(mask, newLen, closing) ==
    (mask \cup {"OUT"}) \ (IF newLen = 0 THEN {"RERR", "IN"} ELSE {"RERR"})

RecvMask(mask, newLen, closing) ==
    (mask \cup (IF closing THEN {} ELSE {"OUT"}))
        \ (IF newLen = 0 THEN {"RERR", "IN"} ELSE {"RERR"})

CloseMask(mask) == (mask \ {"OUT"}) \cup {"CLOSED"}
=============================================================================
