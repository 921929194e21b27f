------------------------------ MODULE Anycast -------------------------------
(* What README.md promises of a coport, as a queue: "All three mechanisms are *)
(* currently 'anycast' (a sent message can be received by one and only one of *)
(* the listening entities)".  Messages are numbered in the order they are     *)
(* accepted and handed out in that order, each to one receiver; a closed      *)
(* queue accepts nothing and can still be drained.                            *)
EXTENDS Integers, Sequences

CONSTANTS Receivers, Capacity

VARIABLES queue,       \* accepted and not yet taken
          sent,        \* how many were accepted
          flight,      \* what each receiver took and has not returned, or 0
          received,    \* what was returned to a caller
          closed

vars == <<queue, sent, flight, received, closed>>

Init ==
    /\ queue = << >> /\ sent = 0 /\ received = {} /\ closed = FALSE
    /\ flight = [t \in Receivers |-> 0]

Send ==
    /\ ~closed /\ Len(queue) < Capacity
    /\ sent' = sent + 1
    /\ queue' = Append(queue, sent')
    /\ UNCHANGED <<flight, received, closed>>

Take(t) ==
    /\ queue # << >> /\ flight[t] = 0
    /\ flight' = [flight EXCEPT ![t] = Head(queue)]
    /\ queue' = Tail(queue)
    /\ UNCHANGED <<sent, received, closed>>

Return(t) ==
    /\ flight[t] # 0
    /\ flight[t] \notin received
    /\ received' = received \cup {flight[t]}
    /\ flight' = [flight EXCEPT ![t] = 0]
    /\ UNCHANGED <<queue, sent, closed>>

Close ==
    /\ ~closed /\ closed' = TRUE
    /\ UNCHANGED <<queue, sent, flight, received>>

Next == Send \/ Close \/ \E t \in Receivers : Take(t) \/ Return(t)

Spec == Init /\ [][Next]_vars
=============================================================================
