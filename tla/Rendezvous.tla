---------------------------- MODULE Rendezvous ----------------------------
(* What a copipe promises its users: one receiver at a time waits, a sender   *)
(* hands it one message (or an error), the receiver leaves with it, and the   *)
(* pipe closes only when nobody waits.                                        *)
CONSTANTS Threads, Messages
VARIABLES wait,     \* per thread: <<"no">>, <<"offered">> or <<"handed", m>>
          closed

vars == <<wait, closed>>

Init == wait = [t \in Threads |-> <<"no">>] /\ closed = FALSE

Offer(t) == /\ ~closed /\ \A u \in Threads : wait[u] = <<"no">>
            /\ wait' = [wait EXCEPT ![t] = <<"offered">>]
            /\ UNCHANGED closed

Hand(t, m) == /\ wait[t] = <<"offered">>
              /\ wait' = [wait EXCEPT ![t] = <<"handed", m>>]
              /\ UNCHANGED closed

Leave(t) == /\ wait[t] \notin {<<"no">>, <<"offered">>}
            /\ wait' = [wait EXCEPT ![t] = <<"no">>]
            /\ UNCHANGED closed

Close == /\ \A t \in Threads : wait[t] = <<"no">>
         /\ closed' = TRUE
         /\ UNCHANGED wait

Next == Close \/ \E t \in Threads : Offer(t) \/ Leave(t) \/ \E m \in Messages : Hand(t, m)

Spec == Init /\ [][Next]_vars
=============================================================================
