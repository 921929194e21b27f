----------------------------- MODULE ScbIndex -----------------------------
(* get_scb_index: how codiscover and codiscover2 spread the callers of a      *)
(* service over its workers, with a shared counter and no lock.  A service    *)
(* with one worker does not use the counter and is not modelled here.         *)
EXTENDS Integers

CONSTANTS Threads, nworkers,
          MaxNext            \* bound: the counter is not followed past it

ASSUME WorkersAssumption == nworkers \in Nat \ {0, 1} /\ MaxNext \in Nat

VARIABLES next_worker,
          step, idx,         \* per thread: where it is, and its index
          handed             \* history: how often each index was dealt by the
                             \* counter, less the complete rounds

scbVars == <<next_worker, step, idx, handed>>

Indices == 0 .. nworkers - 1

ScbInit == /\ next_worker = 0
           /\ step = [t \in Threads |-> "out"]
           /\ idx = [t \in Threads |-> 0]
           /\ handed = [i \in Indices |-> 0]

Enter(t) == /\ step[t] = "out"
            /\ step' = [step EXCEPT ![t] = "add"]
            /\ UNCHANGED <<next_worker, idx, handed>>

\* Once every index was dealt, a round is complete.
Deal(i) == LET h == [handed EXCEPT ![i] = @ + 1] IN
           IF \A j \in Indices : h[j] > 0 THEN [j \in Indices |-> h[j] - 1] ELSE h

FetchAdd(t) ==
    /\ step[t] = "add" /\ next_worker < MaxNext
    /\ idx' = [idx EXCEPT ![t] = next_worker]
    /\ next_worker' = next_worker + 1
    /\ step' = [step EXCEPT ![t] = IF next_worker < nworkers THEN "got" ELSE "cas"]
    /\ handed' = IF next_worker < nworkers THEN Deal(next_worker) ELSE handed

\* Past the end: whoever finds the counter where it left it starts a new round
\* and takes index 0; the others try again.
\* Mutant: the counter is reset without looking at it.
ResetBlindly(t) ==
    /\ step[t] = "cas"
    /\ next_worker' = 0
    /\ idx' = [idx EXCEPT ![t] = 0]
    /\ step' = [step EXCEPT ![t] = "got"]
    /\ UNCHANGED handed

Reset(t) ==
    /\ step[t] = "cas"
    /\ \/ /\ next_worker = idx[t] + 1
          /\ next_worker' = 0
          /\ idx' = [idx EXCEPT ![t] = 0]
          /\ step' = [step EXCEPT ![t] = "got"]
          /\ UNCHANGED handed
       \/ /\ next_worker # idx[t] + 1
          /\ step' = [step EXCEPT ![t] = "add"]
          /\ UNCHANGED <<next_worker, idx, handed>>

\* get_coservice_scb returns the worker at that index.
Leave(t) == /\ step[t] = "got"
            /\ step' = [step EXCEPT ![t] = "out"]
            /\ idx' = [idx EXCEPT ![t] = 0]
            /\ UNCHANGED <<next_worker, handed>>

ScbNext == \E t \in Threads : Enter(t) \/ FetchAdd(t) \/ Reset(t) \/ Leave(t)

ScbSpec == ScbInit /\ [][ScbNext]_scbVars

-----------------------------------------------------------------------------
\* Whatever the interleaving, the index returned names a worker: the code
\* indexes worker_scbs with it unchecked (coservice.c 67-68).
IndexInRange == \A t \in Threads : step[t] = "got" => idx[t] \in Indices

\* Calls are spread evenly: no index is dealt a second time before every other
\* was dealt once, however many threads run past the end of the array together;
\* the indices below the counter are the ones ahead.  (Whoever resets the
\* counter takes index 0 in addition.)
RoundRobin == \A i \in Indices :
    handed[i] = IF i < next_worker /\ next_worker < nworkers THEN 1 ELSE 0

\* What the callers of get_scb_index rely on, both at once: a worker that
\* exists, and turns that are fair.
WorkerChoice == IndexInRange /\ RoundRobin
=============================================================================
