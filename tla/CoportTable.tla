---------------------------- MODULE CoportTable ----------------------------
(* ipcd's tables of coports and the coopen handler: a slot is claimed with a *)
(* fetch-and-add after a separate test of the number of coports.  Slots are  *)
(* never given back.  Each thread is a worker serving one call at a time.    *)
EXTENDS Integers, FiniteSets

CONSTANTS Threads,       \* workers of ipcd, and the threads that use a coport
          Types,         \* the coport types in use
          max_coports,   \* slots of a table, 256 in the code
          MaxCalls       \* bound: calls made in all

ASSUME TableAssumption == max_coports \in Nat /\ MaxCalls \in Nat /\ IsFiniteSet(Threads)

VARIABLES next_coport,   \* per type: the next slot to hand out
          ncoports,      \* per type: the coports counted
          entries,       \* per type: the slots whose ref_count is 1
          alive,         \* FALSE once ipcd took a capability fault
          pc, loc,       \* per thread: step and locals
          calls          \* calls left

tableVars == <<next_coport, ncoports, entries, alive>>

NoLocals == [type |-> "none"]

TableInit == /\ next_coport = [y \in Types |-> 0]
             /\ ncoports = [y \in Types |-> 0]
             /\ entries = [y \in Types |-> {}]
             /\ alive = TRUE

CallsInit == /\ pc = [t \in Threads |-> "idle"]
             /\ loc = [t \in Threads |-> NoLocals]
             /\ calls = MaxCalls

\* A thread starts a call, moves on inside it, and returns from it.
Call(t, step, locals) == /\ alive /\ pc[t] = "idle" /\ calls > 0
                         /\ pc' = [pc EXCEPT ![t] = step]
                         /\ loc' = [loc EXCEPT ![t] = locals]
                         /\ calls' = calls - 1

Step(t, from, to) == /\ alive /\ pc[t] = from
                     /\ pc' = [pc EXCEPT ![t] = to]
                     /\ UNCHANGED <<loc, calls>>

Return(t, from) == /\ alive /\ pc[t] = from
                   /\ pc' = [pc EXCEPT ![t] = "idle"]
                   /\ loc' = [loc EXCEPT ![t] = NoLocals]
                   /\ UNCHANGED calls

-----------------------------------------------------------------------------
\* Mutant: the test also admits a full table.
can_allocate_always(type) == ncoports[type] # max_coports + 1

can_allocate_coport(type) == ncoports[type] # max_coports

in_coport_table(i) == i < max_coports

coport_open(t) == \E type \in Types :
    /\ Call(t, "coopen_test", [type |-> type])
    /\ UNCHANGED tableVars

OpenRefused(t) == /\ Return(t, "coopen_test")          \* ENOMEM
                  /\ ~can_allocate_coport(loc[t].type)
                  /\ UNCHANGED tableVars

OpenAdmitted(t) ==
    /\ alive /\ pc[t] = "coopen_test"
    /\ can_allocate_coport(loc[t].type)
    /\ pc' = [pc EXCEPT ![t] = "allocate"]
    /\ loc' = [loc EXCEPT ![t] = [type |-> @.type, tested |-> ncoports[@.type]]]
    /\ UNCHANGED <<tableVars, calls>>

\* Claims a slot.  Setting bounds on an entry past the end of the table is a
\* capability fault, and the process dies of it.
\* Mutant: the number of coports serves as the index.
AllocateByCount(t) == LET y == loc[t].type IN
    /\ alive /\ pc[t] = "allocate"
    /\ pc' = [pc EXCEPT ![t] = "count"]
    /\ loc' = [loc EXCEPT ![t] = [type |-> y, tested |-> @.tested, index |-> ncoports[y]]]
    /\ next_coport' = [next_coport EXCEPT ![y] = @ + 1]
    /\ alive' = in_coport_table(ncoports[y])
    /\ UNCHANGED <<ncoports, entries, calls>>

allocate_coport(t) == LET y == loc[t].type IN
    /\ alive /\ pc[t] = "allocate"
    /\ pc' = [pc EXCEPT ![t] = "count"]
    /\ loc' = [loc EXCEPT ![t] = [type |-> y, tested |-> @.tested, index |-> next_coport[y]]]
    /\ next_coport' = [next_coport EXCEPT ![y] = @ + 1]
    /\ alive' = in_coport_table(next_coport[y])
    /\ UNCHANGED <<ncoports, entries, calls>>

\* Counts the coport, takes the first reference, initialises and returns it.
AllocateCount(t) == LET y == loc[t].type IN
    /\ Return(t, "count")
    /\ ncoports' = [ncoports EXCEPT ![y] = @ + 1]
    /\ entries' = [entries EXCEPT ![y] = @ \cup {loc[t].index}]
    /\ UNCHANGED <<next_coport, alive>>

\* Opening changes only the tables.
OpenSteps(t) == coport_open(t) \/ OpenRefused(t) \/ OpenAdmitted(t) \/ allocate_coport(t)

-----------------------------------------------------------------------------
Claiming(y) == {t \in Threads : pc[t] = "count" /\ loc[t].type = y}

\* coopen never hands the same slot to two callers: a slot being initialised by
\* one worker is neither in use nor being initialised by another, and every
\* slot handed out is accounted for by a coport or by a worker (coport_table.c
\* 113-120, where the slot is claimed and counted by two separate additions).
SlotsHandedOutOnce == \A y \in Types :
    /\ \A t \in Claiming(y) : loc[t].index \notin entries[y]
    /\ \A t, u \in Claiming(y) : loc[t].index = loc[u].index => t = u
    /\ next_coport[y] = ncoports[y] + Cardinality(Claiming(y))

\* The test of the number of coports and the claim of a slot are two steps.  A
\* claim overruns the table, and ipcd faults, only when another slot was claimed
\* that the worker's test had not counted: opens one at a time are refused at a
\* full table and never overrun it (coopen.c 139-143, coport_table.c 113-116).
OverrunNeedsTwoOpens == ~alive =>
    \E t \in Threads : /\ pc[t] = "count" /\ ~in_coport_table(loc[t].index)
                       /\ loc[t].tested < loc[t].index
=============================================================================
