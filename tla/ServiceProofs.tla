--------------------------- MODULE ServiceProofs ---------------------------
(* Proofs about services: the worker that get_scb_index chooses, the tables   *)
(* of coserviced, and the calls of the microkernel that threads make before   *)
(* and after they are initialised.                                            *)
EXTENDS UkernCalls, SequenceTheorems, TLAPS

-----------------------------------------------------------------------------
(* The choice of a worker *)

\* The inductive invariant: the two properties, with what a thread past the end
\* knows, that the index it was given is past the end.
ScbInv ==
    /\ next_worker \in Nat
    /\ step \in [Threads -> {"out", "add", "cas", "got"}]
    /\ idx \in [Threads -> Nat]
    /\ handed \in [Indices -> Nat]
    /\ \A t \in Threads : step[t] = "cas" => idx[t] >= nworkers
    /\ IndexInRange
    /\ RoundRobin

\* Dealing the index the counter stands at keeps the rounds even.
LEMMA DealEven ==
    ASSUME ScbInv, next_worker < nworkers
    PROVE  /\ Deal(next_worker) \in [Indices -> Nat]
           /\ \A i \in Indices : Deal(next_worker)[i] =
                IF i < next_worker + 1 /\ next_worker + 1 < nworkers THEN 1 ELSE 0
<1> DEFINE h == [handed EXCEPT ![next_worker] = @ + 1]
<1>1. next_worker \in Nat /\ handed \in [Indices -> Nat] /\ next_worker \in Indices
  BY WorkersAssumption DEF ScbInv, Indices
<1>2. \A i \in Indices : handed[i] = IF i < next_worker THEN 1 ELSE 0
  BY <1>1, Zenon DEF ScbInv, RoundRobin
<1>3. h \in [Indices -> Nat] /\ \A i \in Indices : h[i] = IF i < next_worker + 1 THEN 1 ELSE 0
  <2>1. h \in [Indices -> Nat]
    BY <1>1, <1>2
  <2>2. ASSUME NEW i \in Indices PROVE h[i] = IF i < next_worker + 1 THEN 1 ELSE 0
    <3>1. i \in Int
      BY WorkersAssumption DEF Indices
    <3>2. CASE i = next_worker
      BY <1>1, <1>2, <3>1, <3>2
    <3>3. CASE i # next_worker
      BY <1>1, <1>2, <3>1, <3>3
    <3> QED
      BY <3>2, <3>3, Zenon
  <2> QED
    BY <2>1, <2>2, Zenon
<1> HIDE DEF h
<1>4. CASE next_worker + 1 < nworkers
  <2>1. next_worker + 1 \in Indices /\ h[next_worker + 1] = 0
    BY <1>1, <1>3, <1>4, WorkersAssumption DEF Indices
  <2>2. Deal(next_worker) = h
    BY <2>1 DEF Deal, h
  <2> QED
    BY <1>3, <1>4, <2>2, Zenon
<1>5. CASE ~(next_worker + 1 < nworkers)
  <2>1. \A i \in Indices : h[i] = 1
    BY <1>1, <1>3, <1>5, WorkersAssumption DEF Indices
  <2>2. Deal(next_worker) = [i \in Indices |-> h[i] - 1]
    BY <2>1 DEF Deal, h
  <2> QED
    BY <1>5, <2>1, <2>2
<1> QED
  BY <1>4, <1>5, Zenon

\* Every step keeps it.
LEMMA ScbStep ==
    ASSUME ScbInv, [ScbNext]_scbVars
    PROVE  ScbInv'
<1> USE WorkersAssumption
<1>1. CASE UNCHANGED scbVars
  BY <1>1, Zenon DEF ScbInv, scbVars, IndexInRange, RoundRobin, Indices
<1>2. ASSUME NEW t \in Threads, Enter(t) PROVE ScbInv'
  BY <1>2, Zenon DEF ScbInv, Enter, IndexInRange, RoundRobin, Indices
<1>3. ASSUME NEW t \in Threads, FetchAdd(t) PROVE ScbInv'
  <2>1. /\ next_worker' \in Nat /\ idx' \in [Threads -> Nat]
        /\ step' \in [Threads -> {"out", "add", "cas", "got"}]
    BY <1>3 DEF ScbInv, FetchAdd
  <2>2. handed' \in [Indices -> Nat] /\ RoundRobin'
    <3>1. CASE next_worker < nworkers
      BY <1>3, <3>1, DealEven, Zenon DEF FetchAdd, RoundRobin, Indices
    <3>2. CASE ~(next_worker < nworkers)
      BY <1>3, <3>2 DEF ScbInv, FetchAdd, RoundRobin, Indices
    <3> QED
      BY <3>1, <3>2, Zenon
  <2>3. IndexInRange' /\ \A u \in Threads : step'[u] = "cas" => idx'[u] >= nworkers
    BY <1>3 DEF ScbInv, FetchAdd, IndexInRange, Indices
  <2> QED
    BY <2>1, <2>2, <2>3, Zenon DEF ScbInv, Indices
<1>4. ASSUME NEW t \in Threads, Reset(t) PROVE ScbInv'
  <2>1. CASE next_worker = idx[t] + 1
    <3>1. next_worker' = 0 /\ handed' = handed /\ next_worker >= nworkers
      BY <1>4, <2>1 DEF ScbInv, Reset
    <3>2. RoundRobin'
      BY <3>1 DEF ScbInv, RoundRobin, Indices
    <3>3. /\ idx' = [idx EXCEPT ![t] = 0] /\ step' = [step EXCEPT ![t] = "got"]
          /\ idx \in [Threads -> Nat] /\ step \in [Threads -> {"out", "add", "cas", "got"}]
      BY <1>4, <2>1, Zenon DEF ScbInv, Reset
    <3>4. IndexInRange'
      BY <3>3 DEF ScbInv, IndexInRange, Indices
    <3>5. \A u \in Threads : step'[u] = "cas" => idx'[u] >= nworkers
      BY <3>3, Zenon DEF ScbInv
    <3>6. handed' \in [Indices -> Nat]
      BY <3>1, Zenon DEF ScbInv
    <3> QED
      BY <3>1, <3>2, <3>3, <3>4, <3>5, <3>6, Zenon DEF ScbInv, Indices
  <2>2. CASE next_worker # idx[t] + 1
    BY <1>4, <2>2, ZenonT(60) DEF ScbInv, Reset, IndexInRange, RoundRobin, Indices
  <2> QED
    BY <2>1, <2>2, Zenon
<1>5. ASSUME NEW t \in Threads, Leave(t) PROVE ScbInv'
  BY <1>5, Zenon DEF ScbInv, Leave, IndexInRange, RoundRobin, Indices
<1> QED
  BY <1>1, <1>2, <1>3, <1>4, <1>5, Zenon DEF ScbNext

\* The worker get_coservice_scb reads is one of the service's, and the workers
\* take turns (coservice.c 37-71).
THEOREM WorkerIndexSafe == ScbSpec => []WorkerChoice
<1>1. ScbInit => ScbInv
  BY WorkersAssumption DEF ScbInit, ScbInv, IndexInRange, RoundRobin, Indices
<1>2. ScbInv => WorkerChoice
  BY Zenon DEF ScbInv, WorkerChoice
<1> QED
  BY <1>1, <1>2, ScbStep, PTL DEF ScbSpec

\* What a process does to the counter are steps of get_scb_index.
LEMMA CallsChoose == ASSUME Next PROVE [ScbNext]_scbVars
<1>1. ASSUME NEW t \in Threads, get_coservice_scb(t) PROVE [ScbNext]_scbVars
  BY <1>1, Zenon DEF get_coservice_scb, ScbNext
<1>2. ASSUME NEW t \in Threads,
             \/ Begin(t) \/ init_new_thread_calls(t) \/ InitCheck(t) \/ get_ukernel_service(t)
             \/ SelectService(t) \/ call_ukern_service(t) \/ refresh_target_scb(t)
             \/ call_ukern_target(t)
      PROVE  UNCHANGED scbVars
  BY <1>2, Zenon DEF Begin, init_new_thread_calls, InitCheck, get_ukernel_service, SelectService,
              call_ukern_service, refresh_target_scb, call_ukern_target
<1> QED  BY <1>1, <1>2, Zenon DEF Next, ClientNext, discover_coservice, discover_coservice2

\* The same for a process whose threads make calls: the worker each of them is
\* given exists, and the workers take turns.
THEOREM WorkerOfCallSafe == Spec => []WorkerChoice
<1>1. Init => ScbInit
  BY Zenon DEF Init
<1>2. [Next]_vars => [ScbNext]_scbVars
  BY CallsChoose, Zenon DEF vars
<1>3. Spec => ScbSpec
  BY <1>1, <1>2, PTL DEF Spec, ScbSpec
<1> QED  BY <1>3, WorkerIndexSafe, Zenon

-----------------------------------------------------------------------------
(* The tables of coserviced *)

\* A service whose endpoint is set has one with workers, in particular each one
\* whose handle was returned; a provider that is about to return a handle has
\* set the endpoint.
ServedInv ==
    /\ services \in [Slots -> Slots \cup {-1}] /\ endpoints \in [Slots -> Nat]
    /\ next_service \in Nat /\ next_endpoint \in Nat
    /\ ppc = [p \in Providers |-> ppc[p]] /\ pslot = [p \in Providers |-> pslot[p]]
    /\ \A s \in Slots : services[s] # -1 => endpoints[services[s]] > 0
    /\ \A s \in handles : s \in Slots /\ services[s] # -1
    /\ coserviced = "up" => \A p \in Providers :
         /\ ppc[p] \in {"endpoint", "publish"} => pslot[p] \in Slots
         /\ ppc[p] = "publish" => services[pslot[p]] # -1

\* Each step of a provider keeps it.
LEMMA ServedStep ==
    ASSUME ServedInv, NEW p \in Providers,
           \/ provide_coservice(p) \/ allocate_endpoint(p)
           \/ provide_coservice2(p) \/ create_coservice_handle(p)
    PROVE  ServedInv'
<1> USE ServicesAssumption
<1>1. CASE provide_coservice(p)
  <2>1. /\ next_service' \in Nat /\ pslot' = [pslot EXCEPT ![p] = next_service]
        /\ ppc' = [ppc EXCEPT ![p] = "endpoint"]
        /\ UNCHANGED <<next_endpoint, services, endpoints, handles>>
        /\ coserviced = "up" /\ (coserviced' = "up" => pslot'[p] < max_services)
    BY <1>1 DEF provide_coservice, allocate_coservice, Move, ServedInv
  <2>2. /\ ppc'[p] = "endpoint" /\ pslot'[p] = next_service
        /\ \A q \in Providers : q # p => ppc'[q] = ppc[q] /\ pslot'[q] = pslot[q]
        /\ ppc' = [q \in Providers |-> ppc'[q]] /\ pslot' = [q \in Providers |-> pslot'[q]]
    BY <2>1, Zenon DEF ServedInv
  <2>3. coserviced' = "up" => next_service \in Slots
    BY <2>1, <2>2 DEF ServedInv, Slots
  <2> QED  BY <2>1, <2>2, <2>3, Zenon DEF ServedInv
<1>2. CASE allocate_endpoint(p)
  <2>0. PICK n \in 0 .. COSERVICE_MAX_WORKERS :
          /\ n > 0 /\ next_endpoint' = next_endpoint + 1 /\ ppc[p] = "endpoint" /\ coserviced = "up"
          /\ ppc' = [ppc EXCEPT ![p] = "publish"] /\ UNCHANGED <<next_service, handles, pslot>>
          /\ \/ /\ next_endpoint < max_services /\ coserviced' = coserviced
                /\ services' = [services EXCEPT ![pslot[p]] = next_endpoint]
                /\ endpoints' = [endpoints EXCEPT ![next_endpoint] = n]
             \/ coserviced' # "up" /\ UNCHANGED <<services, endpoints>>
    BY <1>2, Zenon DEF allocate_endpoint, validate_coprovide_args, Move
  <2>1. /\ n \in Nat /\ next_endpoint' \in Nat
        /\ coserviced' = "up" => next_endpoint \in Slots
    BY <2>0 DEF ServedInv, Slots
  <2>2. /\ ppc'[p] = "publish" /\ \A q \in Providers : q # p => ppc'[q] = ppc[q]
        /\ ppc' = [q \in Providers |-> ppc'[q]]
    BY <2>0, <2>1, Zenon DEF ServedInv
  <2>3. CASE coserviced' # "up"
    BY <2>0, <2>1, <2>2, <2>3, Zenon DEF ServedInv
  <2>4. CASE coserviced' = "up"
    <3>1. pslot[p] \in Slots /\ next_endpoint \in Slots /\ -1 \notin Slots
      BY <2>0, <2>1, <2>4 DEF ServedInv, Slots
    <3>2. /\ services' \in [Slots -> Slots \cup {-1}] /\ endpoints' \in [Slots -> Nat]
          /\ services'[pslot[p]] = next_endpoint /\ endpoints'[next_endpoint] > 0
          /\ \A s \in Slots : s # pslot[p] => services'[s] = services[s]
          /\ \A e \in Slots : e # next_endpoint => endpoints'[e] = endpoints[e]
      BY <2>0, <2>1, <2>4, <3>1 DEF ServedInv
    <3>3. \A s \in Slots : services'[s] # -1 => endpoints'[services'[s]] > 0
      BY <3>1, <3>2 DEF ServedInv
    <3>4. \A s \in handles : s \in Slots /\ services'[s] # -1
      BY <3>1, <3>2 DEF ServedInv
    <3>5. \A q \in Providers :
            /\ ppc'[q] \in {"endpoint", "publish"} => pslot[q] \in Slots
            /\ ppc'[q] = "publish" => services'[pslot[q]] # -1
      BY <2>0, <2>1, <2>2, <3>1, <3>2 DEF ServedInv
    <3> QED  BY <2>0, <2>1, <2>2, <3>2, <3>3, <3>4, <3>5, Zenon DEF ServedInv
  <2> QED  BY <2>3, <2>4, Zenon
<1>3. CASE provide_coservice2(p)
  <2>1. PICK s \in handles :
          /\ next_service' \in Nat /\ pslot' = [pslot EXCEPT ![p] = next_service]
          /\ coserviced = "up"
          /\ ppc' = [ppc EXCEPT ![p] = "publish"] /\ UNCHANGED <<next_endpoint, endpoints, handles>>
          /\ \/ /\ pslot'[p] < max_services /\ coserviced' = "up"
                /\ services' = [services EXCEPT ![pslot'[p]] = services[s]]
             \/ coserviced' # "up" /\ UNCHANGED services
    BY <1>3 DEF provide_coservice2, allocate_coservice, Move, ServedInv
  <2>2. /\ ppc'[p] = "publish" /\ pslot'[p] = next_service
        /\ \A q \in Providers : q # p => ppc'[q] = ppc[q] /\ pslot'[q] = pslot[q]
        /\ ppc' = [q \in Providers |-> ppc'[q]] /\ pslot' = [q \in Providers |-> pslot'[q]]
    BY <2>1, Zenon DEF ServedInv
  <2>3. CASE coserviced' # "up"
    BY <2>1, <2>2, <2>3, ZenonT(60) DEF ServedInv
  <2>4. CASE coserviced' = "up"
    <3>1. /\ next_service \in Slots /\ s \in Slots /\ services[s] \in Slots
          /\ services[s] # -1 /\ endpoints[services[s]] > 0
      BY <2>1, <2>2, <2>4 DEF ServedInv, Slots
    <3>2. /\ services' \in [Slots -> Slots \cup {-1}] /\ services'[next_service] = services[s]
          /\ \A r \in Slots : r # next_service => services'[r] = services[r]
      BY <2>1, <2>2, <2>4, <3>1, ZenonT(60) DEF ServedInv
    <3>3. \A r \in Slots : services'[r] # -1 => endpoints'[services'[r]] > 0
      BY <2>1, <3>1, <3>2, Zenon DEF ServedInv
    <3>4. \A r \in handles : r \in Slots /\ services'[r] # -1
      BY <3>1, <3>2, Zenon DEF ServedInv
    <3>5. \A q \in Providers :
            /\ ppc'[q] \in {"endpoint", "publish"} => pslot'[q] \in Slots
            /\ ppc'[q] = "publish" => services'[pslot'[q]] # -1
      BY <2>1, <2>2, <3>1, <3>2, Zenon DEF ServedInv
    <3> QED  BY <2>1, <2>2, <3>2, <3>3, <3>4, <3>5, Zenon DEF ServedInv
  <2> QED  BY <2>3, <2>4, Zenon
<1>4. CASE create_coservice_handle(p)
  <2>1. /\ ppc[p] = "publish" /\ ppc' = [ppc EXCEPT ![p] = "idle"] /\ coserviced = "up"
        /\ pslot' = [pslot EXCEPT ![p] = -1] /\ handles' = handles \cup {pslot[p]}
        /\ UNCHANGED <<next_service, next_endpoint, services, endpoints, coserviced>>
    BY <1>4, Zenon DEF create_coservice_handle, Move
  <2>2. /\ ppc'[p] = "idle"
        /\ \A q \in Providers : q # p => ppc'[q] = ppc[q] /\ pslot'[q] = pslot[q]
        /\ ppc' = [q \in Providers |-> ppc'[q]] /\ pslot' = [q \in Providers |-> pslot'[q]]
    BY <2>1, Zenon DEF ServedInv
  <2>3. \A s \in handles' : s \in Slots /\ services[s] # -1
    BY <2>1, Zenon DEF ServedInv
  <2> QED  BY <2>1, <2>2, <2>3, Zenon DEF ServedInv
<1> QED  BY <1>1, <1>2, <1>3, <1>4, Zenon

\* Threads that make calls do not touch the tables.
LEMMA CallsLeaveTables == ASSUME ClientNext PROVE UNCHANGED svcVars
  BY ZenonT(60) DEF ClientNext, Begin, init_new_thread_calls, InitCheck, get_ukernel_service, SelectService,
        discover_coservice, discover_coservice2, get_coservice_scb, call_ukern_service,
        refresh_target_scb, call_ukern_target, Quiet

\* Every handle that coprovide or coprovide2 returned leads to an endpoint with
\* workers (coprovide.c 90-98, coprovide2.c 66-70), for any size of the tables
\* and any number of providers, until coserviced dies of a full table.
THEOREM HandlesServed == Spec => []HandlesAreServed
<1>1. Init => ServedInv
  <2> SUFFICES ASSUME Init PROVE ServedInv
    BY Zenon
  <2>1. /\ next_service = 1 /\ next_endpoint = 1 /\ handles = {0} /\ nworkers \in Nat /\ nworkers > 0
        /\ services = [s \in Slots |-> IF s = 0 THEN 0 ELSE -1]
        /\ endpoints = [e \in Slots |-> IF e = 0 THEN nworkers ELSE 0]
        /\ ppc = [p \in Providers |-> "idle"] /\ pslot = [p \in Providers |-> -1]
    BY WorkersAssumption DEF Init, ServiceInit
  <2>2. 0 \in Slots
    BY ServicesAssumption DEF Slots
  <2> QED  BY <2>1, <2>2 DEF ServedInv
<1>2. ServedInv /\ [Next]_vars => ServedInv'
  <2> SUFFICES ASSUME ServedInv, [Next]_vars PROVE ServedInv'
    BY Zenon
  <2>1. CASE ClientNext \/ UNCHANGED vars
    <3>1. UNCHANGED svcVars
      BY <2>1, CallsLeaveTables, Zenon DEF vars
    <3> QED  BY <3>1, Zenon DEF ServedInv, svcVars
  <2>2. CASE ProviderNext
    BY <2>2, ServedStep, Zenon DEF ProviderNext
  <2> QED  BY <2>1, <2>2, Zenon DEF Next
<1>3. ServedInv => HandlesAreServed
  BY Zenon DEF ServedInv, HandlesAreServed
<1> QED  BY <1>1, <1>2, <1>3, PTL DEF Spec

-----------------------------------------------------------------------------
(* Threads that make calls *)

Entries == Funcs \X {"load", "select"}
Records == [func : Funcs, ends : SUBSET Outcomes, then : Funcs \cup {"none"}]
Locals == [call : Seq(Records), func : Funcs \cup {"none"}, todo : Seq(Entries),
           depth : Nat, tries : Nat]

\* What the locals of a thread at p are.
At(p, l) ==
    /\ p = "idle" => l = NoLocals
    /\ p # "idle" => l.func \in Funcs /\ Len(l.call) = 1
    /\ p \in {"get", "select", "codiscover", "init", "init2"} => l.todo # <<>>
    /\ p \in {"try", "reply", "refresh"} => l.todo = <<>>

ThreadTypes == /\ pc = [t \in Threads |-> pc[t]] /\ loc = [t \in Threads |-> loc[t]]
               /\ \A t \in Threads : loc[t] \in Locals /\ At(pc[t], loc[t])
TargetTypes == targets \in [Threads -> [Funcs -> Int]] /\ global \in [Funcs -> Int]
TypeInv == ThreadTypes /\ TargetTypes

\* A step of thread t between two points, and one that ends the process.
Others(t) == \A u \in Threads : u # t => pc'[u] = pc[u] /\ loc'[u] = loc[u]
Goes(t, from, to) ==
    /\ exited = <<>> /\ exited' = <<>> /\ pc[t] = from /\ pc'[t] = to /\ Others(t)
    /\ pc' = [u \in Threads |-> pc'[u]] /\ loc' = [u \in Threads |-> loc'[u]]
    /\ loc'[t] \in Locals /\ At(to, loc'[t])
Ends(t, from, why) ==
    exited = <<>> /\ exited' = <<t, why>> /\ pc[t] = from /\ UNCHANGED <<pc, loc>>

\* The three services a thread is initialised with are among the functions.
LEMMA CoreFuncs == Core \subseteq Funcs
  BY Zenon DEF Funcs

\* A wrapper calls functions of the set, and ends the process on one of the
\* outcomes it tells apart.
LEMMA CallRecords == ASSUME NEW c \in Calls PROVE c \in Records
<1>1. c \in [func : STRING, ends : SUBSET Outcomes, then : STRING]
  BY CallsAssumption, Zenon
<1>2. c.func \in Funcs /\ c.then \in Funcs \cup {"none"} /\ c.ends \in SUBSET Outcomes
  BY <1>1, Zenon DEF Funcs
<1> QED  BY <1>1, <1>2, Zenon DEF Records

\* The step of a thread whose locals become l.
LEMMA GoesBy ==
    ASSUME TypeInv, NEW t \in Threads, NEW from, NEW to, NEW l,
           Running(t, from), Goto(t, to), Local(t, l), exited' = exited, l \in Locals, At(to, l)
    PROVE  Goes(t, from, to) /\ loc'[t] = l
<1>1. /\ pc' = [pc EXCEPT ![t] = to] /\ loc' = [loc EXCEPT ![t] = l]
      /\ pc = [u \in Threads |-> pc[u]] /\ loc = [u \in Threads |-> loc[u]]
      /\ exited = <<>> /\ pc[t] = from
  BY Zenon DEF Running, Goto, Local, TypeInv, ThreadTypes
<1>2. /\ pc'[t] = to /\ loc'[t] = l /\ Others(t)
      /\ pc' = [u \in Threads |-> pc'[u]] /\ loc' = [u \in Threads |-> loc'[u]]
  BY <1>1, Zenon DEF Others
<1> QED  BY <1>1, <1>2, Zenon DEF Goes

\* The step of a thread that keeps its locals.
LEMMA GoesOn ==
    ASSUME TypeInv, NEW t \in Threads, NEW from, NEW to,
           Running(t, from), Goto(t, to), loc' = loc, exited' = exited, At(to, loc[t])
    PROVE  Goes(t, from, to) /\ loc'[t] = loc[t]
<1>1. /\ pc' = [pc EXCEPT ![t] = to]
      /\ pc = [u \in Threads |-> pc[u]] /\ loc = [u \in Threads |-> loc[u]]
      /\ exited = <<>> /\ pc[t] = from /\ loc[t] \in Locals
  BY Zenon DEF Running, Goto, TypeInv, ThreadTypes
<1>2. /\ pc'[t] = to /\ Others(t) /\ pc' = [u \in Threads |-> pc'[u]]
  BY <1>1, Zenon DEF Others
<1>3. loc' = [u \in Threads |-> loc'[u]]
  BY <1>1, Zenon
<1> QED  BY <1>1, <1>2, <1>3, Zenon DEF Goes

\* What a thread that begins ukern_call(f) has to do.
Starts(t, to) ==
    /\ loc'[t].depth = 0
    /\ \/ to = "try" /\ targets[t][loc'[t].func] # NULL
       \/ to = "init" /\ should_init_thread(t)
       \/ to = "get" /\ ~should_init_thread(t)

\* It tries its worker, initialises, or asks for one.
LEMMA CallStarts ==
    ASSUME TypeInv, NEW t \in Threads, NEW from, NEW f \in Funcs, NEW c \in Records,
           NEW u, u = ukern_call(t, f, <<>>), Running(t, from), Goto(t, u[1]),
           Local(t, [NoLocals EXCEPT !.call = <<c>>, !.func = f, !.todo = u[2]]), exited' = exited
    PROVE  \E to : Goes(t, from, to) /\ Starts(t, to)
<1>1. PICK l : l = [NoLocals EXCEPT !.call = <<c>>, !.func = f, !.todo = u[2]]
  BY Zenon
<1>2. PICK to, todo : to = u[1] /\ todo = u[2]
  BY Zenon
<1>3. l = [call |-> <<c>>, func |-> f, todo |-> todo, depth |-> 0, tries |-> 0]
  BY <1>1, <1>2, Zenon DEF NoLocals
<1>4. \/ to = "try" /\ todo = <<>> /\ targets[t][f] # NULL
      \/ to = "init" /\ todo = <<<<f, "load">>>> \o <<>> /\ should_init_thread(t)
      \/ to = "get" /\ todo = <<<<f, "load">>>> \o <<>> /\ ~should_init_thread(t)
  BY <1>2, Zenon DEF ukern_call
<1>5. <<f, "load">> \in Entries
  BY Zenon DEF Entries
<1>6. <<<<f, "load">>>> \o <<>> \in Seq(Entries) /\ <<<<f, "load">>>> \o <<>> # <<>>
  <2>1. <<<<f, "load">>>> \in Seq(Entries) /\ <<>> \in Seq(Entries) /\ Len(<<<<f, "load">>>>) = 1
    BY <1>5
  <2> QED  BY <2>1
<1>7. /\ l.call = <<c>> /\ l.func = f /\ l.todo = todo /\ l.depth = 0 /\ l.tries = 0
      /\ <<c>> \in Seq(Records) /\ Len(<<c>>) = 1 /\ todo \in Seq(Entries)
  <2>1. <<c>> \in Seq(Records) /\ Len(<<c>>) = 1
    OBVIOUS
  <2>2. todo \in Seq(Entries)
    <3>1. <<>> \in Seq(Entries)
      OBVIOUS
    <3> QED  BY <1>4, <1>6, <3>1, Zenon
  <2> QED  BY <1>3, <2>1, <2>2, Zenon
<1>8. l \in Locals
  BY <1>3, <1>7, Zenon DEF Locals
<1>9. At(to, l)
  BY <1>4, <1>6, <1>7, Zenon DEF At
<1>10. Goes(t, from, to) /\ loc'[t] = l
  BY <1>1, <1>2, <1>8, <1>9, GoesBy
<1> QED  BY <1>4, <1>7, <1>10, Zenon DEF Starts

\* What every thread may rely on, once all three services are cached.
Cached == Core \subseteq ukernel_services /\ global["CODISCOVER2"] # NULL
kept == <<targets, global, ukernel_services, late>>

\* A thread begins a call, or its wrapper rejects an argument.
LEMMA BeginEffect ==
    ASSUME TypeInv, NEW t \in Threads, Begin(t)
    PROVE  /\ UNCHANGED <<targets, global, ukernel_services>>
           /\ late' = late \/ (late' = late \cup {t} /\ Cached)
           /\ Ends(t, "idle", "args") \/ \E to : Goes(t, "idle", to) /\ Starts(t, to)
<1>1. PICK c \in Calls :
        /\ Running(t, "idle")
        /\ late' = IF Core \subseteq ukernel_services /\ global["CODISCOVER2"] # NULL
                   THEN late \cup {t} ELSE late
        /\ \/ /\ Goto(t, ukern_call(t, c.func, <<>>)[1])
              /\ Local(t, [NoLocals EXCEPT !.call = <<c>>, !.func = c.func,
                                           !.todo = ukern_call(t, c.func, <<>>)[2]])
              /\ UNCHANGED exited
           \/ "args" \in c.ends /\ Exit(t, "args")
        /\ UNCHANGED <<targets, global, ukernel_services>>
  BY Zenon DEF Begin
<1>2. c \in Records /\ c.func \in Funcs
  BY CallRecords, Zenon DEF Records
<1>3. late' = late \/ (late' = late \cup {t} /\ Cached)
  BY <1>1, Zenon DEF Cached
<1>4. CASE Exit(t, "args")
  BY <1>1, <1>3, <1>4, Zenon DEF Exit, Ends, Running
<1>5. CASE ~Exit(t, "args")
  <2>1. PICK f, u : f = c.func /\ u = ukern_call(t, f, <<>>)
    BY Zenon
  <2>2. \E to : Goes(t, "idle", to) /\ Starts(t, to)
    BY <1>1, <1>2, <1>5, <2>1, CallStarts, Zenon
  <2> QED  BY <1>1, <1>3, <2>2, Zenon
<1> QED  BY <1>4, <1>5, Zenon

\* COSELECT is asked for next, after services that are cached.
Load(f) == <<f, "load">>
Ahead(s) ==
    \/ Len(s) >= 1 /\ s[1] = Load("COSELECT")
    \/ Len(s) >= 2 /\ s[1] = Load("CODISCOVER") /\ s[2] = Load("COSELECT")
    \/ /\ Len(s) >= 3 /\ s[1] = Load("CODISCOVER2") /\ s[2] = Load("CODISCOVER")
       /\ s[3] = Load("COSELECT")

Front(a, r) == Len(r) >= Len(a) /\ \A i \in 1 .. Len(a) : r[i] = a[i]

\* The first elements of a concatenation.
LEMMA ConcatFirst ==
    ASSUME NEW S, NEW a \in Seq(S), NEW s \in Seq(S), NEW r, r = a \o s
    PROVE  r \in Seq(S) /\ Front(a, r)
<1>0. Len(a) \in Nat /\ Len(s) \in Nat
  OBVIOUS
<1>1. PICK m, n : m = Len(a) /\ n = Len(s) /\ m \in Nat /\ n \in Nat
  BY <1>0, Zenon
<1>2. /\ r \in Seq(S) /\ Len(r) = m + n
      /\ \A i \in 1 .. m + n : r[i] = IF i <= m THEN a[i] ELSE s[i - m]
  BY <1>1, ConcatProperties, ZenonT(60)
<1>3. Len(r) >= m /\ \A i \in 1 .. m : i \in 1 .. m + n /\ i <= m
  BY <1>1, <1>2
<1> QED  BY <1>1, <1>2, <1>3, Zenon DEF Front

\* The list of what to do, with the two or three core services in front.
LEMMA CoreInFront ==
    ASSUME NEW s \in Seq(Entries), NEW new \in BOOLEAN, NEW r,
           r = (IF new THEN <<<<"CODISCOVER2", "load">>>> ELSE <<>>)
                 \o <<<<"CODISCOVER", "load">>, <<"COSELECT", "load">>>> \o s
    PROVE  r \in Seq(Entries) /\ r # <<>> /\ Ahead(r)
<1>1. PICK x, y, z : x = Load("CODISCOVER2") /\ y = Load("CODISCOVER") /\ z = Load("COSELECT")
  BY Zenon
<1>2. x \in Entries /\ y \in Entries /\ z \in Entries
  BY <1>1, CoreFuncs, Zenon DEF Entries, Load, Core
<1>3. r = (IF new THEN <<x>> ELSE <<>>) \o <<y, z>> \o s
  BY <1>1, Zenon DEF Load
<1>4. CASE new
  <2>1. r = (<<x>> \o <<y, z>>) \o s
    BY <1>3, <1>4, Zenon
  <2>2. <<x>> \in Seq(Entries) /\ <<y, z>> \in Seq(Entries) /\ Len(<<x>>) = 1 /\ Len(<<y, z>>) = 2
    BY <1>2
  <2>3. PICK a : a = <<x>> \o <<y, z>>
    BY Zenon
  <2>4. a \in Seq(Entries) /\ Len(a) = 3 /\ a[1] = x /\ a[2] = y /\ a[3] = z
    BY <2>2, <2>3
  <2>5. r \in Seq(Entries) /\ Len(r) >= 3 /\ r[1] = x /\ r[2] = y /\ r[3] = z
    <3>1. r = a \o s /\ a \in Seq(Entries)
      BY <2>1, <2>3, <2>4, Zenon
    <3>2. r \in Seq(Entries) /\ Front(a, r)
      BY <3>1, ConcatFirst, Zenon
    <3> QED  BY <2>4, <3>2 DEF Front
  <2> QED  BY <1>1, <2>5 DEF Ahead
<1>5. CASE ~new
  <2>1. r = (<<>> \o <<y, z>>) \o s
    BY <1>3, <1>5, Zenon
  <2>2. <<>> \in Seq(Entries) /\ <<y, z>> \in Seq(Entries) /\ Len(<<>>) = 0 /\ Len(<<y, z>>) = 2
    BY <1>2
  <2>3. PICK a : a = <<>> \o <<y, z>>
    BY Zenon
  <2>4. a \in Seq(Entries) /\ Len(a) = 2 /\ a[1] = y /\ a[2] = z
    BY <2>2, <2>3
  <2>5. r \in Seq(Entries) /\ Len(r) >= 2 /\ r[1] = y /\ r[2] = z
    <3>1. r = a \o s /\ a \in Seq(Entries)
      BY <2>1, <2>3, <2>4, Zenon
    <3>2. r \in Seq(Entries) /\ Front(a, r)
      BY <3>1, ConcatFirst, Zenon
    <3> QED  BY <2>4, <3>2 DEF Front
  <2> QED  BY <1>1, <2>5 DEF Ahead
<1> QED  BY <1>4, <1>5, Zenon

\* init_new_thread_calls takes the workers of CODISCOVER and CODISCOVER2 from the
\* fallback and puts the core services in front of what it has to do.
LEMMA InitEffect ==
    ASSUME TypeInv, NEW t \in Threads, init_new_thread_calls(t)
    PROVE  /\ UNCHANGED <<global, ukernel_services, late>> /\ TargetTypes'
           /\ \A u \in Threads : u # t => targets'[u] = targets[u]
           /\ \A f \in Funcs : targets'[t][f] = targets[t][f] \/
                (f \in {"CODISCOVER", "CODISCOVER2"} /\ targets[t][f] = NULL /\ targets'[t][f] = global[f])
           /\ targets'[t]["CODISCOVER2"] = NULL => global["CODISCOVER2"] = NULL
           /\ \E to \in {"get", "init2"} : Goes(t, "init", to) /\ (to = "init2" => global["CODISCOVER2"] = NULL)
           /\ loc'[t].depth = loc[t].depth + 1 /\ Ahead(loc'[t].todo)
<1>0. "CODISCOVER" \in Funcs /\ "CODISCOVER2" \in Funcs /\ loc[t] \in Locals /\ At(pc[t], loc[t])
  BY CoreFuncs, Zenon DEF Core, TypeInv, ThreadTypes
<1>1. PICK own : own = IF targets[t]["CODISCOVER"] = NULL
                       THEN [targets[t] EXCEPT !["CODISCOVER"] = global["CODISCOVER"]] ELSE targets[t]
  BY Zenon
<1>2. PICK new \in BOOLEAN : new = (own["CODISCOVER2"] = NULL)
  BY Zenon
<1>3. PICK row : row = IF new THEN [own EXCEPT !["CODISCOVER2"] = global["CODISCOVER2"]] ELSE own
  BY Zenon
<1>4. PICK todo : todo = (IF new THEN <<<<"CODISCOVER2", "load">>>> ELSE <<>>)
                 \o <<<<"CODISCOVER", "load">>, <<"COSELECT", "load">>>> \o loc[t].todo
  BY Zenon
<1>5. PICK to : to = IF new /\ global["CODISCOVER2"] = NULL THEN "init2" ELSE "get"
  BY Zenon
<1>6. PICK l : l = [loc[t] EXCEPT !.depth = @ + 1, !.todo = todo]
  BY Zenon
<1>7. /\ Running(t, "init") /\ targets' = [targets EXCEPT ![t] = row] /\ Goto(t, to) /\ Local(t, l)
      /\ UNCHANGED <<exited, global, ukernel_services, late>>
  BY <1>1, <1>2, <1>3, <1>4, <1>5, <1>6, Zenon DEF init_new_thread_calls, Quiet
<1>8. targets[t] \in [Funcs -> Int] /\ global \in [Funcs -> Int] /\ targets \in [Threads -> [Funcs -> Int]]
  BY Zenon DEF TypeInv, TargetTypes
<1>9. /\ own \in [Funcs -> Int] /\ own["CODISCOVER2"] = targets[t]["CODISCOVER2"]
      /\ \A f \in Funcs : own[f] = targets[t][f] \/
           (f = "CODISCOVER" /\ targets[t][f] = NULL /\ own[f] = global[f])
  BY <1>0, <1>1, <1>8, Zenon
<1>10. /\ row \in [Funcs -> Int]
       /\ \A f \in Funcs : row[f] = own[f] \/ (f = "CODISCOVER2" /\ own[f] = NULL /\ row[f] = global[f])
       /\ row["CODISCOVER2"] = NULL => global["CODISCOVER2"] = NULL
  BY <1>0, <1>2, <1>3, <1>8, <1>9, Zenon
<1>11. /\ targets' \in [Threads -> [Funcs -> Int]] /\ targets'[t] = row
       /\ \A u \in Threads : u # t => targets'[u] = targets[u]
  BY <1>7, <1>8, <1>10, Zenon
<1>12. todo \in Seq(Entries) /\ todo # <<>> /\ Ahead(todo)
  BY <1>0, <1>4, CoreInFront, Zenon DEF Locals
<1>13. /\ l \in Locals /\ l.depth = loc[t].depth + 1 /\ l.todo = todo
       /\ l.func = loc[t].func /\ l.call = loc[t].call
  <2>1. l = [call |-> loc[t].call, func |-> loc[t].func, todo |-> todo,
             depth |-> loc[t].depth + 1, tries |-> loc[t].tries]
    BY <1>0, <1>6, Zenon DEF Locals
  <2>2. /\ loc[t].call \in Seq(Records) /\ loc[t].func \in Funcs \cup {"none"}
        /\ loc[t].depth \in Nat /\ loc[t].tries \in Nat
    BY <1>0, Zenon DEF Locals
  <2>3. loc[t].depth + 1 \in Nat
    BY ONLY <2>2
  <2> QED  BY <1>12, <2>1, <2>2, <2>3, Zenon DEF Locals
<1>14. to \in {"get", "init2"} /\ pc[t] = "init"
  BY <1>5, <1>7, Zenon DEF Running
<1>15. At(to, l)
  BY <1>0, <1>12, <1>13, <1>14, Zenon DEF At
<1>16. Goes(t, "init", to) /\ loc'[t] = l
  BY <1>7, <1>13, <1>15, GoesBy, Zenon
<1>17. to = "init2" => global["CODISCOVER2"] = NULL
  BY <1>5, Zenon
<1>18. \A f \in Funcs : targets'[t][f] = targets[t][f] \/
         (f \in {"CODISCOVER", "CODISCOVER2"} /\ targets[t][f] = NULL /\ targets'[t][f] = global[f])
  BY <1>9, <1>10, <1>11, ZenonT(60)
<1> QED  BY <1>7, <1>8, <1>10, <1>11, <1>12, <1>13, <1>14, <1>16, <1>17, <1>18, ZenonT(60) DEF TargetTypes

\* The first element and the rest of a list of what to do.
LEMMA HeadTail ==
    ASSUME NEW s \in Seq(Entries), s # <<>>
    PROVE  /\ Head(s) \in Entries /\ Tail(s) \in Seq(Entries) /\ Head(s) = s[1]
           /\ Head(s)[1] \in Funcs /\ Len(s) >= 1 /\ Len(Tail(s)) = Len(s) - 1
           /\ \A i \in 1 .. Len(s) - 1 : Tail(s)[i] = s[i + 1]
<1>1. /\ Head(s) \in Entries /\ Tail(s) \in Seq(Entries) /\ Head(s) = s[1]
      /\ Len(s) >= 1 /\ Len(Tail(s)) = Len(s) - 1
      /\ \A i \in 1 .. Len(s) - 1 : Tail(s)[i] = s[i + 1]
  OBVIOUS
<1>2. Head(s)[1] \in Funcs
  BY <1>1, Zenon DEF Entries
<1> QED  BY <1>1, <1>2, Zenon

First(t) == IF loc[t].todo = <<>> THEN loc[t].func ELSE Head(loc[t].todo)[1]
Ready(t) == targets[t]["CODISCOVER2"] # NULL
Selects(t) == targets[t]["COSELECT"] # NULL

\* Without a worker for CODISCOVER2 its service should not be cached.
LEMMA CheckEffect ==
    ASSUME TypeInv, NEW t \in Threads, InitCheck(t)
    PROVE  /\ UNCHANGED kept
           /\ Ends(t, "init2", "no scb") \/ (Goes(t, "init2", "get") /\ loc'[t] = loc[t])
<1>1. At(pc[t], loc[t])
  BY Zenon DEF TypeInv, ThreadTypes
<1>2. CASE Exit(t, "no scb")
  BY <1>2, Zenon DEF InitCheck, Quiet, kept, Exit, Ends, Running
<1>3. CASE ~Exit(t, "no scb")
  <2>1. Running(t, "init2") /\ Goto(t, "get") /\ loc' = loc /\ exited' = exited /\ UNCHANGED kept
    BY <1>3, Zenon DEF InitCheck, Quiet, kept
  <2>2. At("get", loc[t])
    BY <1>1, <2>1, Zenon DEF At, Running
  <2> QED  BY <2>1, <2>2, GoesOn, Zenon
<1> QED  BY <1>2, <1>3, Zenon

\* The cache tells whether a service is asked of codiscover2 or of coselect.
LEMMA GetEffect ==
    ASSUME TypeInv, NEW t \in Threads, get_ukernel_service(t)
    PROVE  /\ UNCHANGED kept
           /\ \/ Ends(t, "get", "not initialized") /\ ~Ready(t)
              \/ /\ Goes(t, "get", "select") /\ loc'[t] = loc[t]
                 /\ First(t) \notin ukernel_services \/ loc[t].todo[1][2] = "select"
              \/ /\ Goes(t, "get", "codiscover2") /\ loc'[t] = loc[t] /\ Ready(t)
                 /\ First(t) \in ukernel_services
<1>1. /\ UNCHANGED kept /\ Running(t, "get") /\ pc[t] = "get"
      /\ At(pc[t], loc[t]) /\ loc[t] \in Locals
  BY Zenon DEF get_ukernel_service, Quiet, kept, TypeInv, ThreadTypes, Running
<1>2. loc[t].todo # <<>> /\ loc[t].todo \in Seq(Entries)
  BY <1>1, Zenon DEF At, Locals
<1>3. Head(loc[t].todo)[1] = First(t) /\ Head(loc[t].todo)[2] = loc[t].todo[1][2]
  BY <1>2, HeadTail, Zenon DEF First
<1>4. At("select", loc[t]) /\ At("codiscover2", loc[t])
  BY <1>1, Zenon DEF At
<1>5. CASE ~Ready(t) /\ Exit(t, "not initialized")
  BY <1>1, <1>5, Zenon DEF Exit, Ends, Running
<1>6. CASE /\ First(t) \notin ukernel_services \/ loc[t].todo[1][2] = "select"
           /\ Goto(t, "select") /\ UNCHANGED <<loc, exited>>
  <2>1. Goes(t, "get", "select") /\ loc'[t] = loc[t]
    BY <1>1, <1>4, <1>6, GoesOn, Zenon
  <2> QED  BY <1>1, <1>6, <2>1, Zenon
<1>7. CASE /\ First(t) \in ukernel_services /\ Ready(t)
           /\ Goto(t, "codiscover2") /\ UNCHANGED <<loc, exited>>
  <2>1. Goes(t, "get", "codiscover2") /\ loc'[t] = loc[t]
    BY <1>1, <1>4, <1>7, GoesOn, Zenon
  <2> QED  BY <1>1, <1>7, <2>1, Zenon
<1> QED  BY <1>3, <1>5, <1>6, <1>7, Zenon DEF get_ukernel_service, Ready

\* A service that is not cached is selected, for which the thread may have to
\* initialise.
LEMMA SelectEffect ==
    ASSUME TypeInv, NEW t \in Threads, SelectService(t)
    PROVE  /\ UNCHANGED <<targets, global, late>>
           /\ \/ /\ Goes(t, "select", "init") /\ ~Selects(t) /\ UNCHANGED ukernel_services
                 /\ loc'[t].depth = loc[t].depth
              \/ /\ Goes(t, "select", "codiscover") /\ Selects(t) /\ loc'[t] = loc[t]
                 /\ ukernel_services' = ukernel_services \cup {First(t)}
              \/ Ends(t, "select", "failed") /\ UNCHANGED ukernel_services
<1>1. /\ UNCHANGED <<targets, global, late>> /\ Running(t, "select") /\ pc[t] = "select"
      /\ At(pc[t], loc[t]) /\ loc[t] \in Locals
  BY Zenon DEF SelectService, Quiet, TypeInv, ThreadTypes, Running
<1>2. loc[t].todo # <<>> /\ loc[t].todo \in Seq(Entries)
  BY <1>1, Zenon DEF At, Locals
<1>3. /\ Head(loc[t].todo)[1] = First(t) /\ First(t) \in Funcs /\ Tail(loc[t].todo) \in Seq(Entries)
  BY <1>2, HeadTail, Zenon DEF First
<1>4. PICK todo : todo = <<<<"COSELECT", "load">>, <<First(t), "select">>>> \o Tail(loc[t].todo)
  BY Zenon
<1>5. CASE /\ ~Selects(t) /\ Goto(t, "init") /\ Local(t, [loc[t] EXCEPT !.todo = todo])
           /\ UNCHANGED <<exited, ukernel_services>>
  <2>1. PICK x, y : x = <<"COSELECT", "load">> /\ y = <<First(t), "select">>
    BY Zenon
  <2>2. x \in Entries /\ y \in Entries
    BY <1>3, <2>1, CoreFuncs, Zenon DEF Entries, Core
  <2>3. <<x, y>> \in Seq(Entries) /\ Len(<<x, y>>) = 2
    BY <2>2
  <2>4. todo \in Seq(Entries) /\ Front(<<x, y>>, todo)
    BY <1>3, <1>4, <2>1, <2>3, ConcatFirst, Zenon
  <2>5. todo # <<>>
    BY <2>3, <2>4 DEF Front
  <2>6. PICK l : l = [loc[t] EXCEPT !.todo = todo]
    BY Zenon
  <2>7. l = [call |-> loc[t].call, func |-> loc[t].func, todo |-> todo,
             depth |-> loc[t].depth, tries |-> loc[t].tries]
    BY <1>1, <2>6, Zenon DEF Locals
  <2>8. l \in Locals /\ l.depth = loc[t].depth
    BY <1>1, <2>4, <2>7, Zenon DEF Locals
  <2>9. At("init", l)
    BY <1>1, <2>5, <2>7, Zenon DEF At
  <2>10. Goes(t, "select", "init") /\ loc'[t] = l
    BY <1>1, <1>5, <2>6, <2>8, <2>9, GoesBy, Zenon
  <2> QED  BY <1>1, <1>5, <2>8, <2>10, Zenon
<1>6. CASE /\ Selects(t) /\ ukernel_services' = ukernel_services \cup {First(t)}
           /\ Goto(t, "codiscover") /\ UNCHANGED <<loc, exited>>
  <2>1. At("codiscover", loc[t])
    BY <1>1, Zenon DEF At
  <2>2. Goes(t, "select", "codiscover") /\ loc'[t] = loc[t]
    BY <1>1, <1>6, <2>1, GoesOn, Zenon
  <2> QED  BY <1>1, <1>6, <2>2, Zenon
<1>7. CASE Exit(t, "failed") /\ UNCHANGED ukernel_services
  BY <1>1, <1>7, Zenon DEF Exit, Ends, Running
<1> QED  BY <1>3, <1>4, <1>5, <1>6, <1>7, Zenon DEF SelectService, Selects

\* The thread's own worker for f becomes v, and the fallback if there is none.
Targets(t, f, v) ==
    /\ TargetTypes' /\ v \in Nat
    /\ targets'[t][f] = v /\ (\A g \in Funcs : g # f => targets'[t][g] = targets[t][g])
    /\ \A u \in Threads : u # t => targets'[u] = targets[u]
    /\ global'[f] # NULL /\ \A g \in Funcs : global[g] # NULL \/ g # f => global'[g] = global[g]

\* What is set is a worker, never NULL.
LEMMA TargetsEffect ==
    ASSUME TypeInv, NEW t \in Threads, NEW f \in Funcs, NEW v \in Nat, set_ukern_target(t, f, v)
    PROVE  Targets(t, f, v)
<1>1. /\ targets' = [targets EXCEPT ![t][f] = v]
      /\ global' = [global EXCEPT ![f] = IF @ = NULL THEN v ELSE @]
      /\ targets \in [Threads -> [Funcs -> Int]] /\ global \in [Funcs -> Int] /\ v \in Int /\ v # NULL
  BY DEF set_ukern_target, TypeInv, TargetTypes, NULL
<1>2. PICK row : row = [targets[t] EXCEPT ![f] = v]
  BY Zenon
<1>3. row \in [Funcs -> Int] /\ row[f] = v /\ \A g \in Funcs : g # f => row[g] = targets[t][g]
  BY <1>1, <1>2, Zenon
<1>4. /\ targets' \in [Threads -> [Funcs -> Int]] /\ targets'[t] = row
      /\ \A u \in Threads : u # t => targets'[u] = targets[u]
  BY <1>1, <1>2, <1>3, Zenon
<1>5. /\ global' \in [Funcs -> Int] /\ global'[f] # NULL
      /\ \A g \in Funcs : global[g] # NULL \/ g # f => global'[g] = global[g]
  BY <1>1, Zenon
<1> QED  BY <1>1, <1>3, <1>4, <1>5, Zenon DEF Targets, TargetTypes

\* codiscover and codiscover2 give the thread a worker for what it asks for;
\* counting the workers in between changes nothing else.
LEMMA DiscoverEffect ==
    ASSUME TypeInv, ScbInv, NEW t \in Threads, NEW from \in {"codiscover", "codiscover2"},
           Running(t, from), get_coservice_scb(t)
    PROVE  /\ UNCHANGED <<ukernel_services, late>>
           /\ \/ UNCHANGED <<targets, global, pc, loc, exited>>
              \/ /\ \E v : Targets(t, First(t), v)
                 /\ loc'[t].depth = loc[t].depth
                 /\ \/ /\ Goes(t, from, "try") /\ loc'[t].todo = <<>>
                       /\ loc[t].todo = <<>> \/ Tail(loc[t].todo) = <<>>
                    \/ Goes(t, from, "get") /\ loc[t].todo # <<>> /\ loc'[t].todo = Tail(loc[t].todo)
<1>1. /\ UNCHANGED <<ukernel_services, late>> /\ exited' = exited
      /\ At(pc[t], loc[t]) /\ loc[t] \in Locals /\ pc[t] = from
  BY Zenon DEF get_coservice_scb, Quiet, TypeInv, ThreadTypes, Running
<1>2. PICK rest : rest = IF loc[t].todo = <<>> THEN <<>> ELSE Tail(loc[t].todo)
  BY Zenon
<1>3. loc[t].todo \in Seq(Entries) /\ <<>> \in Seq(Entries) /\ loc[t].func \in Funcs
  BY <1>1 DEF Locals, At
<1>4. First(t) \in Funcs /\ rest \in Seq(Entries)
  BY <1>2, <1>3, HeadTail, Zenon DEF First
<1>5. CASE UNCHANGED <<targets, global, pc, loc>>
  BY <1>1, <1>5, Zenon
<1>6. CASE ~UNCHANGED <<targets, global, pc, loc>>
  <2>1. PICK v : v = IF First(t) \in Counted THEN idx[t] ELSE 0
    BY Zenon
  <2>2. v \in Nat
    BY <2>1, Zenon DEF ScbInv
  <2>3. PICK to, l : /\ to = (IF rest = <<>> THEN "try" ELSE "get")
                     /\ l = [loc[t] EXCEPT !.todo = rest]
    BY Zenon
  <2>4. set_ukern_target(t, First(t), v) /\ Goto(t, to) /\ Local(t, l)
    BY <1>2, <1>6, <2>1, <2>3, Zenon DEF get_coservice_scb, First
  <2>5. Targets(t, First(t), v)
    BY <1>4, <2>2, <2>4, TargetsEffect, Zenon
  <2>6. l = [call |-> loc[t].call, func |-> loc[t].func, todo |-> rest,
             depth |-> loc[t].depth, tries |-> loc[t].tries]
    BY <1>1, <2>3, Zenon DEF Locals
  <2>7. l \in Locals /\ l.depth = loc[t].depth /\ l.todo = rest /\ l.func = loc[t].func
        /\ l.call = loc[t].call
    BY <1>1, <1>4, <2>6, Zenon DEF Locals
  <2>8. At(to, l)
    BY <1>1, <2>3, <2>7, Zenon DEF At
  <2>9. Goes(t, from, to) /\ loc'[t] = l
    BY <1>1, <2>4, <2>7, <2>8, GoesBy, Zenon
  <2>10. \/ to = "try" /\ rest = <<>> /\ (loc[t].todo = <<>> \/ Tail(loc[t].todo) = <<>>)
         \/ to = "get" /\ loc[t].todo # <<>> /\ rest = Tail(loc[t].todo)
    BY <1>2, <2>3, Zenon
  <2> QED  BY <1>1, <2>5, <2>7, <2>9, <2>10, Zenon
<1> QED  BY <1>5, <1>6, Zenon

\* The wrapper returns, or ends the process.
LEMMA FinishEffect ==
    ASSUME TypeInv, NEW t \in Threads, NEW from, NEW outcome, Running(t, from), from # "idle",
           Finish(t, outcome)
    PROVE  \/ Goes(t, from, "idle") /\ loc'[t] = NoLocals
           \/ Ends(t, from, outcome) /\ outcome \in Outcomes \cup {"wrong path"}
<1>1. loc[t] \in Locals /\ At(pc[t], loc[t]) /\ pc[t] = from
  BY Zenon DEF TypeInv, ThreadTypes, Running
<1>2. loc[t].call[1] \in Records
  BY <1>1 DEF Locals, At
<1>3. CASE Exit(t, outcome) /\ outcome \in loc[t].call[1].ends \cup {"wrong path"}
  BY <1>2, <1>3, Zenon DEF Exit, Ends, Running, Records
<1>4. CASE Goto(t, "idle") /\ Local(t, NoLocals) /\ UNCHANGED exited
  <2>1. NoLocals \in Locals
    <3>1. <<>> \in Seq(Records) /\ <<>> \in Seq(Entries)
      OBVIOUS
    <3> QED  BY <3>1, Zenon DEF NoLocals, Locals
  <2>2. At("idle", NoLocals)
    BY Zenon DEF At
  <2> QED  BY <1>4, <2>1, <2>2, GoesBy, Zenon
<1> QED  BY <1>3, <1>4, Zenon DEF Finish

\* A worker that is busy is replaced by another, at most twice.
LEMMA TryEffect ==
    ASSUME TypeInv, NEW t \in Threads, call_ukern_service(t)
    PROVE  /\ UNCHANGED kept
           /\ \/ Goes(t, "try", "reply") /\ loc'[t] = loc[t]
              \/ /\ Goes(t, "try", "refresh") /\ loc'[t].depth = loc[t].depth
                 /\ loc'[t].func = loc[t].func /\ loc'[t].func \in ukernel_services
              \/ Goes(t, "try", "get") /\ loc'[t].depth = loc[t].depth
              \/ Goes(t, "try", "idle") /\ loc'[t] = NoLocals
              \/ Ends(t, "try", "failed")
<1>1. /\ UNCHANGED kept /\ Running(t, "try") /\ pc[t] = "try"
      /\ At(pc[t], loc[t]) /\ loc[t] \in Locals
  BY Zenon DEF call_ukern_service, Quiet, kept, TypeInv, ThreadTypes, Running
<1>2. loc[t].todo = <<>> /\ loc[t].func \in Funcs /\ Len(loc[t].call) = 1
  BY <1>1, Zenon DEF At
<1>3. CASE Goto(t, "reply") /\ UNCHANGED <<loc, exited>>
  <2>1. At("reply", loc[t])
    BY <1>1, <1>2, Zenon DEF At
  <2> QED  BY <1>1, <1>3, <2>1, GoesOn, Zenon
<1>4. PICK to, todo : /\ to = IF loc[t].func \in ukernel_services THEN "refresh" ELSE "get"
                      /\ todo = IF loc[t].func \in ukernel_services THEN loc[t].todo
                                ELSE <<<<loc[t].func, "load">>>>
  BY Zenon
<1>5. CASE /\ UNCHANGED exited /\ Goto(t, to)
           /\ Local(t, [loc[t] EXCEPT !.tries = @ + 1, !.todo = todo])
  <2>1. PICK l : l = [loc[t] EXCEPT !.tries = @ + 1, !.todo = todo]
    BY Zenon
  <2>2. l = [call |-> loc[t].call, func |-> loc[t].func, todo |-> todo,
             depth |-> loc[t].depth, tries |-> loc[t].tries + 1]
    BY <1>1, <2>1, Zenon DEF Locals
  <2>3. PICK x : x = <<loc[t].func, "load">>
    BY Zenon
  <2>4. <<x>> \in Seq(Entries) /\ <<x>> # <<>>
    BY <1>2, <2>3 DEF Entries
  <2>5. todo \in Seq(Entries) /\ (to = "get" => todo # <<>>) /\ (to = "refresh" => todo = <<>>)
    BY <1>1, <1>2, <1>4, <2>3, <2>4, ZenonT(60) DEF Locals
  <2>6. /\ l \in Locals /\ l.depth = loc[t].depth /\ l.todo = todo /\ l.func = loc[t].func
        /\ l.call = loc[t].call
    BY <1>1, <2>2, <2>5 DEF Locals
  <2>7. to \in {"get", "refresh"} /\ (to = "refresh" => loc[t].func \in ukernel_services)
    BY <1>4, Zenon
  <2>8. At(to, l)
    BY <1>2, <2>5, <2>6, <2>7, Zenon DEF At
  <2>9. Goes(t, "try", to) /\ loc'[t] = l
    <3>1. Goto(t, to) /\ Local(t, l) /\ exited' = exited
      BY <1>5, <2>1, Zenon
    <3> QED  BY <1>1, <2>6, <2>8, <3>1, GoesBy, Zenon
  <2> QED  BY <1>1, <2>6, <2>7, <2>9, Zenon
<1>6. CASE Finish(t, "failed")
  BY <1>1, <1>6, FinishEffect, Zenon
<1> QED  BY <1>3, <1>4, <1>5, <1>6, Zenon DEF call_ukern_service

\* codiscover2, for which the thread may have to initialise.
LEMMA RefreshEffect ==
    ASSUME TypeInv, NEW t \in Threads, refresh_target_scb(t)
    PROVE  /\ UNCHANGED kept
           /\ \/ Goes(t, "refresh", "codiscover2") /\ Ready(t) /\ loc'[t] = loc[t]
              \/ Goes(t, "refresh", "init") /\ ~Ready(t)
<1>1. /\ UNCHANGED kept /\ Running(t, "refresh") /\ pc[t] = "refresh" /\ exited' = exited
      /\ At(pc[t], loc[t]) /\ loc[t] \in Locals
  BY Zenon DEF refresh_target_scb, Quiet, kept, TypeInv, ThreadTypes, Running
<1>2. loc[t].todo \in Seq(Entries) /\ loc[t].func \in Funcs /\ Len(loc[t].call) = 1
  BY <1>1, Zenon DEF At, Locals
<1>3. CASE Ready(t) /\ Goto(t, "codiscover2") /\ UNCHANGED loc
  <2>1. At("codiscover2", loc[t])
    BY <1>2, Zenon DEF At
  <2>2. Goes(t, "refresh", "codiscover2") /\ loc'[t] = loc[t]
    BY <1>1, <1>3, <2>1, GoesOn, Zenon
  <2> QED  BY <1>1, <1>3, <2>2, Zenon
<1>4. PICK todo : todo = <<<<"CODISCOVER2", "load">>, <<loc[t].func, "load">>>> \o loc[t].todo
  BY Zenon
<1>5. CASE ~Ready(t) /\ Goto(t, "init") /\ Local(t, [loc[t] EXCEPT !.todo = todo])
  <2>1. PICK x, y : x = <<"CODISCOVER2", "load">> /\ y = <<loc[t].func, "load">>
    BY Zenon
  <2>2. x \in Entries /\ y \in Entries
    BY <1>2, <2>1, CoreFuncs, Zenon DEF Entries, Core
  <2>3. <<x, y>> \in Seq(Entries) /\ Len(<<x, y>>) = 2
    BY <2>2
  <2>4. todo \in Seq(Entries) /\ Front(<<x, y>>, todo)
    BY <1>2, <1>4, <2>1, <2>3, ConcatFirst, Zenon
  <2>5. todo # <<>>
    BY <2>3, <2>4 DEF Front
  <2>6. PICK l : l = [loc[t] EXCEPT !.todo = todo]
    BY Zenon
  <2>7. l = [call |-> loc[t].call, func |-> loc[t].func, todo |-> todo,
             depth |-> loc[t].depth, tries |-> loc[t].tries]
    BY <1>1, <2>6, Zenon DEF Locals
  <2>8. l \in Locals
    BY <1>1, <2>4, <2>7, Zenon DEF Locals
  <2>9. At("init", l)
    BY <1>2, <2>5, <2>7, Zenon DEF At
  <2>10. Goes(t, "refresh", "init")
    BY <1>1, <1>5, <2>6, <2>8, <2>9, GoesBy, Zenon
  <2> QED  BY <1>1, <1>5, <2>10, Zenon
<1> QED  BY <1>3, <1>4, <1>5, Zenon DEF refresh_target_scb, Ready

\* The call of the worker: its answer, after which the wrapper returns, ends the
\* process, or makes the slow call.
LEMMA ReplyEffect ==
    ASSUME TypeInv, NEW t \in Threads, call_ukern_target(t)
    PROVE  /\ UNCHANGED kept
           /\ \/ Goes(t, "reply", "idle") /\ loc'[t] = NoLocals
              \/ \E to : Goes(t, "reply", to) /\ Starts(t, to)
              \/ \E why \in Outcomes : Ends(t, "reply", why)
              \/ /\ Ends(t, "reply", "wrong path") /\ targets[t][loc[t].func] # NULL
                 /\ ~(is_slocall(loc[t].func) <=> loc[t].func \in SlowServices)
<1>1. /\ UNCHANGED kept /\ Running(t, "reply") /\ pc[t] = "reply"
      /\ At(pc[t], loc[t]) /\ loc[t] \in Locals
  BY Zenon DEF call_ukern_target, Quiet, kept, TypeInv, ThreadTypes, Running
<1>2. PICK f, c : f = loc[t].func /\ c = loc[t].call[1]
  BY Zenon
<1>3. c \in Records
  BY <1>1, <1>2 DEF Locals, At
<1>4. PICK outcome :
        /\ outcome \in IF is_slocall(f) THEN targeted_slocall(t, f) ELSE targeted_cocall(t, f)
        /\ \/ /\ c.then # "none"
              /\ Goto(t, ukern_call(t, c.then, <<>>)[1])
              /\ Local(t, [NoLocals EXCEPT !.func = c.then, !.todo = ukern_call(t, c.then, <<>>)[2],
                                           !.call = <<[c EXCEPT !.then = "none"]>>])
              /\ UNCHANGED exited
           \/ Finish(t, outcome)
  BY <1>2, Zenon DEF call_ukern_target
<1>5. CASE Finish(t, outcome)
  <2>1. CASE outcome = "wrong path"
    <3>1. targets[t][f] # NULL /\ ~(is_slocall(f) <=> f \in SlowServices)
      <4>1. PICK slow \in BOOLEAN : (slow <=> is_slocall(f)) /\ outcome \in Answers(t, f, slow)
        BY <1>4, Zenon DEF targeted_slocall, targeted_cocall
      <4>2. targets[t][f] # NULL /\ slow # (f \in SlowServices)
        BY <2>1, <4>1, Zenon DEF Answers
      <4>3. CASE slow = TRUE
        BY <4>1, <4>2, <4>3, Zenon
      <4>4. CASE slow = FALSE
        <5>1. FALSE # (f \in SlowServices)
          BY <4>2, <4>4, Zenon
        <5>2. f \in SlowServices
          <6>1. CASE f \notin SlowServices
            <7>1. (f \in SlowServices) <=> FALSE
              BY <6>1, Zenon
            <7>2. (f \in SlowServices) = FALSE
              BY <7>1
            <7> QED  BY <5>1, <7>2, Zenon
          <6> QED  BY <6>1, Zenon
        <5> QED  BY <4>1, <4>2, <4>4, <5>2, Zenon
      <4> QED  BY <4>3, <4>4, Zenon
    <3>2. Ends(t, "reply", "wrong path") \/ (Goes(t, "reply", "idle") /\ loc'[t] = NoLocals)
      BY <1>1, <1>5, <2>1, FinishEffect, Zenon
    <3> QED  BY <1>1, <1>2, <3>1, <3>2, Zenon
  <2>2. CASE outcome # "wrong path"
    BY <1>1, <1>5, <2>2, FinishEffect, Zenon
  <2> QED  BY <2>1, <2>2, Zenon
<1>6. CASE ~Finish(t, outcome)
  <2>1. PICK g, d, u : g = c.then /\ d = [c EXCEPT !.then = "none"] /\ u = ukern_call(t, g, <<>>)
    BY Zenon
  <2>2. g \in Funcs
    BY <1>3, <1>4, <1>6, <2>1, Zenon DEF Records
  <2>3. d = [func |-> c.func, ends |-> c.ends, then |-> "none"]
    BY <1>3, <2>1, Zenon DEF Records
  <2>4. d \in Records
    BY <1>3, <2>3, Zenon DEF Records
  <2>5. [NoLocals EXCEPT !.func = g, !.todo = u[2], !.call = <<d>>]
          = [NoLocals EXCEPT !.call = <<d>>, !.func = g, !.todo = u[2]]
    BY Zenon DEF NoLocals
  <2>6. /\ Goto(t, u[1]) /\ Local(t, [NoLocals EXCEPT !.call = <<d>>, !.func = g, !.todo = u[2]])
        /\ exited' = exited
    BY <1>4, <1>6, <2>1, <2>5, Zenon
  <2>7. \E to : Goes(t, "reply", to) /\ Starts(t, to)
    BY <1>1, <2>1, <2>2, <2>4, <2>6, CallStarts, Zenon
  <2> QED  BY <1>1, <2>7, Zenon
<1> QED  BY <1>5, <1>6, Zenon

\* A step of the process in the large: one of the steps above by some thread, or
\* nothing that a thread sees.
LEMMA NextEffects ==
    ASSUME TypeInv, [Next]_vars
    PROVE  \/ UNCHANGED <<kept, pc, loc, exited>>
           \/ \E t \in Threads :
                \/ Begin(t) \/ init_new_thread_calls(t) \/ InitCheck(t) \/ get_ukernel_service(t)
                \/ SelectService(t) \/ call_ukern_service(t) \/ refresh_target_scb(t)
                \/ call_ukern_target(t)
                \/ \E from \in {"codiscover", "codiscover2"} :
                     Running(t, from) /\ get_coservice_scb(t)
<1>1. CASE UNCHANGED vars
  BY <1>1, Zenon DEF vars, callVars, kept
<1>2. CASE ClientNext
  BY <1>2, Zenon DEF ClientNext, discover_coservice, discover_coservice2
<1>3. CASE ~ClientNext /\ Next
  BY <1>3, Zenon DEF Next, kept
<1> QED  BY <1>1, <1>2, <1>3, Zenon

\* Types are kept.
LEMMA TypeStep == ASSUME TypeInv, ScbInv, [Next]_vars PROVE TypeInv'
<1>1. CASE UNCHANGED <<kept, pc, loc, exited>>
  BY <1>1, Zenon DEF kept, TypeInv, ThreadTypes, TargetTypes
<1>2. ASSUME NEW t \in Threads, NEW from, NEW to, Goes(t, from, to) PROVE ThreadTypes'
  <2>1. \A u \in Threads : loc'[u] \in Locals /\ At(pc'[u], loc'[u])
    BY <1>2, Zenon DEF Goes, Others, TypeInv, ThreadTypes
  <2>2. pc' = [u \in Threads |-> pc'[u]] /\ loc' = [u \in Threads |-> loc'[u]]
    BY <1>2, Zenon DEF Goes
  <2> QED  BY <2>1, <2>2, Zenon DEF ThreadTypes
<1>3. ASSUME NEW t \in Threads, NEW from, NEW why, Ends(t, from, why) PROVE ThreadTypes'
  BY <1>3, Zenon DEF Ends, TypeInv, ThreadTypes
<1>4. ASSUME UNCHANGED <<targets, global>> PROVE TargetTypes'
  BY <1>4, Zenon DEF TypeInv, TargetTypes
<1>5. ASSUME NEW t \in Threads, Begin(t) PROVE TypeInv'
  BY <1>2, <1>3, <1>4, <1>5, BeginEffect, Zenon DEF TypeInv
<1>6. ASSUME NEW t \in Threads, init_new_thread_calls(t) PROVE TypeInv'
  BY <1>2, <1>6, InitEffect, Zenon DEF TypeInv
<1>7. ASSUME NEW t \in Threads, InitCheck(t) PROVE TypeInv'
  BY <1>2, <1>3, <1>4, <1>7, CheckEffect, Zenon DEF TypeInv, kept
<1>8. ASSUME NEW t \in Threads, get_ukernel_service(t) PROVE TypeInv'
  BY <1>2, <1>3, <1>4, <1>8, GetEffect, Zenon DEF TypeInv, kept
<1>9. ASSUME NEW t \in Threads, SelectService(t) PROVE TypeInv'
  BY <1>2, <1>3, <1>4, <1>9, SelectEffect, Zenon DEF TypeInv
<1>10. ASSUME NEW t \in Threads, call_ukern_service(t) PROVE TypeInv'
  BY <1>2, <1>3, <1>4, <1>10, TryEffect, Zenon DEF TypeInv, kept
<1>11. ASSUME NEW t \in Threads, refresh_target_scb(t) PROVE TypeInv'
  BY <1>2, <1>3, <1>4, <1>11, RefreshEffect, Zenon DEF TypeInv, kept
<1>12. ASSUME NEW t \in Threads, call_ukern_target(t) PROVE TypeInv'
  BY <1>2, <1>3, <1>4, <1>12, ReplyEffect, Zenon DEF TypeInv, kept
<1>13. ASSUME NEW t \in Threads, NEW from \in {"codiscover", "codiscover2"},
              Running(t, from), get_coservice_scb(t)
       PROVE  TypeInv'
  <2>1. CASE UNCHANGED <<targets, global, pc, loc, exited>>
    BY <2>1, Zenon DEF TypeInv, ThreadTypes, TargetTypes
  <2>2. CASE ~UNCHANGED <<targets, global, pc, loc, exited>>
    <3>1. TargetTypes' /\ \E to : Goes(t, from, to)
      BY <1>13, <2>2, DiscoverEffect, Zenon DEF Targets
    <3> QED  BY <1>2, <3>1, Zenon DEF TypeInv
  <2> QED  BY <2>1, <2>2, Zenon
<1> QED  BY <1>1, <1>5, <1>6, <1>7, <1>8, <1>9, <1>10, <1>11, <1>12, <1>13, NextEffects, ZenonT(60)

\* Who has which worker: a thread gets one for CODISCOVER2 only after the
\* fallback has one, a thread other than the main one gets one for COSELECT only
\* through CODISCOVER2, and the fallback gets one from the main thread.
TargetInv ==
    /\ \A t \in Threads : Ready(t) => global["CODISCOVER2"] # NULL
    /\ \A t \in Threads : t # main /\ Selects(t) => Ready(t)
    /\ main \in Threads /\ global["CODISCOVER2"] # NULL => Ready(main)

\* What a thread knows where it is.
PointOK(t) ==
    /\ pc[t] = "codiscover" => Selects(t)
    /\ pc[t] = "codiscover2" => Ready(t)
    /\ pc[t] \in {"codiscover", "codiscover2", "refresh"} => First(t) \in ukernel_services
    /\ t # main /\ pc[t] \in {"try", "reply", "refresh"} => Ready(t)
    /\ t # main /\ pc[t] = "idle" /\ ~Ready(t) => \A f \in Funcs : targets[t][f] = NULL
PointInv == \A t \in Threads : PointOK(t)

\* A step of thread t leaves the workers of the others, and forgets no service.
Frame(t) == /\ \A u \in Threads : u # t => targets'[u] = targets[u]
            /\ ukernel_services \subseteq ukernel_services'

\* Steps that change no worker and no service are such.
LEMMA KeptFrame ==
    ASSUME UNCHANGED <<targets, global, ukernel_services>>, NEW t \in Threads
    PROVE  Frame(t) /\ Ready(t)' = Ready(t) /\ Selects(t)' = Selects(t)
  BY Zenon DEF Frame, Ready, Selects

\* Only t's own point is to be looked at.
LEMMA PointOfOthers ==
    ASSUME PointInv, NEW t \in Threads, NEW from, NEW to, Goes(t, from, to), Frame(t), PointOK(t)'
    PROVE  PointInv'
<1>1. ASSUME NEW u \in Threads, u # t PROVE PointOK(u)'
  <2>1. PointOK(u) /\ pc'[u] = pc[u] /\ loc'[u] = loc[u] /\ targets'[u] = targets[u]
    BY <1>1, Zenon DEF PointInv, Goes, Others, Frame
  <2>2. First(u)' = First(u) /\ Ready(u)' = Ready(u) /\ Selects(u)' = Selects(u)
    BY <2>1, Zenon DEF First, Ready, Selects
  <2> QED  BY <2>1, <2>2, Zenon DEF PointOK, Frame
<1> QED  BY <1>1, Zenon DEF PointInv

\* The switch points' invariant is about nothing else.
LEMMA PointEnds ==
    ASSUME PointInv, UNCHANGED <<targets, global, ukernel_services, pc, loc>>
    PROVE  PointInv'
<1> SUFFICES ASSUME NEW u \in Threads PROVE PointOK(u)'
  BY Zenon DEF PointInv
<1>1. PointOK(u) /\ First(u)' = First(u) /\ Ready(u)' = Ready(u) /\ Selects(u)' = Selects(u)
  BY Zenon DEF PointInv, First, Ready, Selects
<1> QED  BY <1>1, Zenon DEF PointOK

\* A thread that begins a call has the worker for CODISCOVER2 if it has any.
LEMMA PointStarts ==
    ASSUME TypeInv, PointInv, NEW t \in Threads, NEW from \in {"idle", "reply"}, NEW to,
           Goes(t, from, to), Starts(t, to), UNCHANGED <<targets, global, ukernel_services>>
    PROVE  PointInv'
<1>1. PointOK(t) /\ pc[t] = from /\ pc'[t] = to /\ At(to, loc'[t]) /\ to \in {"try", "init", "get"}
  BY Zenon DEF PointInv, Goes, Starts
<1>2. Frame(t) /\ Ready(t)' = Ready(t)
  BY KeptFrame, Zenon
<1>3. to = "try" => loc'[t].func \in Funcs /\ targets[t][loc'[t].func] # NULL
  BY <1>1, Zenon DEF Starts, At
<1>4. t # main /\ to = "try" => Ready(t)
  BY <1>1, <1>3, Zenon DEF PointOK
<1>5. PointOK(t)'
  BY <1>1, <1>2, <1>4, Zenon DEF PointOK
<1> QED  BY <1>2, <1>5, PointOfOthers, Zenon

\* After codiscover or codiscover2 the thread has a worker for CODISCOVER2.
LEMMA PointDiscover ==
    ASSUME TypeInv, ScbInv, TargetInv, PointInv, NEW t \in Threads,
           NEW from \in {"codiscover", "codiscover2"}, Running(t, from), get_coservice_scb(t)
    PROVE  PointInv' /\ TargetInv'
<1>0. PointOK(t) /\ pc[t] = from /\ "CODISCOVER2" \in Funcs /\ "COSELECT" \in Funcs
  BY CoreFuncs, Zenon DEF PointInv, Running, Core
<1>1. t # main => Ready(t)
  BY <1>0, Zenon DEF PointOK, TargetInv
<1>2. CASE UNCHANGED <<targets, global, pc, loc, exited>>
  <2>1. UNCHANGED ukernel_services
    BY DiscoverEffect, Zenon
  <2>2. PointInv'
    BY <1>2, <2>1, PointEnds, Zenon
  <2>3. TargetInv'
    BY <1>2, Zenon DEF TargetInv, Ready, Selects
  <2> QED  BY <2>2, <2>3, Zenon
<1>3. CASE ~UNCHANGED <<targets, global, pc, loc, exited>>
  <2>1. PICK f, v, to : /\ Targets(t, f, v) /\ f = First(t) /\ UNCHANGED <<ukernel_services, late>>
                        /\ Goes(t, from, to) /\ to \in {"try", "get"}
    BY <1>3, DiscoverEffect, Zenon
  <2>2. v # NULL
    BY <2>1 DEF Targets, NULL
  <2>3. /\ Ready(t)' <=> Ready(t) \/ f = "CODISCOVER2"
        /\ Selects(t)' <=> Selects(t) \/ f = "COSELECT"
    BY <1>0, <2>1, <2>2, Zenon DEF Ready, Selects, Targets
  <2>4. \A u \in Threads : u # t => (Ready(u)' <=> Ready(u)) /\ (Selects(u)' <=> Selects(u))
    BY <2>1, Zenon DEF Ready, Selects, Targets
  <2>5. global'["CODISCOVER2"] # NULL <=> global["CODISCOVER2"] # NULL \/ f = "CODISCOVER2"
    BY <1>0, <2>1, Zenon DEF Targets
  <2>6. TargetInv'
    <3>1. \A u \in Threads : Ready(u)' => global'["CODISCOVER2"] # NULL
      BY <2>3, <2>4, <2>5, Zenon DEF TargetInv
    <3>2. \A u \in Threads : u # main /\ Selects(u)' => Ready(u)'
      BY <1>1, <2>3, <2>4, Zenon DEF TargetInv
    <3>3. main \in Threads /\ global'["CODISCOVER2"] # NULL => Ready(main)'
      BY <1>1, <2>3, <2>4, <2>5, Zenon DEF TargetInv
    <3> QED  BY <3>1, <3>2, <3>3, Zenon DEF TargetInv
  <2>7. Frame(t)
    BY <2>1, Zenon DEF Frame, Targets
  <2>8. PointOK(t)'
    BY <1>1, <2>1, <2>3, Zenon DEF PointOK, Goes
  <2> QED  BY <2>1, <2>6, <2>7, <2>8, PointOfOthers, Zenon
<1> QED  BY <1>2, <1>3, Zenon

\* init_new_thread_calls copies workers of the fallback.
LEMMA PointInitialises ==
    ASSUME TypeInv, TargetInv, PointInv, NEW t \in Threads, init_new_thread_calls(t)
    PROVE  PointInv' /\ TargetInv'
<1>0. "CODISCOVER2" \in Funcs /\ "COSELECT" \in Funcs
  BY CoreFuncs, Zenon DEF Core
<1>1. PICK to \in {"get", "init2"} : Goes(t, "init", to)
  BY InitEffect, Zenon
<1>2. /\ UNCHANGED <<global, ukernel_services>> /\ \A u \in Threads : u # t => targets'[u] = targets[u]
      /\ targets'[t]["COSELECT"] = targets[t]["COSELECT"]
      /\ \/ targets'[t]["CODISCOVER2"] = targets[t]["CODISCOVER2"]
         \/ /\ targets[t]["CODISCOVER2"] = NULL
            /\ targets'[t]["CODISCOVER2"] = global["CODISCOVER2"]
  BY <1>0, InitEffect, Zenon
<1>3. /\ \A u \in Threads : u # t => (Ready(u)' <=> Ready(u)) /\ (Selects(u)' <=> Selects(u))
      /\ Selects(t)' <=> Selects(t)
      /\ Ready(t) => Ready(t)'
      /\ Ready(t)' => Ready(t) \/ global["CODISCOVER2"] # NULL
  BY <1>2, Zenon DEF Ready, Selects
<1>4. TargetInv'
  BY <1>2, <1>3, Zenon DEF TargetInv
<1>5. PointOK(t)' /\ Frame(t)
  BY <1>1, <1>2, Zenon DEF PointOK, Goes, Frame
<1> QED  BY <1>1, <1>4, <1>5, PointOfOthers, Zenon

\* Every step keeps the two.
LEMMA PointStep ==
    ASSUME TypeInv, ScbInv, TargetInv, PointInv, [Next]_vars
    PROVE  TargetInv' /\ PointInv'
<1>1. ASSUME UNCHANGED <<targets, global>> PROVE TargetInv'
  BY <1>1, Zenon DEF TargetInv, Ready, Selects
<1>2. CASE UNCHANGED <<kept, pc, loc, exited>>
  BY <1>1, <1>2, PointEnds, Zenon DEF kept
<1>3. ASSUME NEW t \in Threads, NEW from, NEW to, Goes(t, from, to),
             UNCHANGED <<targets, global>>, ukernel_services \subseteq ukernel_services',
             PointOK(t)'
      PROVE  PointInv'
  BY <1>3, PointOfOthers, Zenon DEF Frame
<1>4. ASSUME NEW t \in Threads, NEW from, NEW why, Ends(t, from, why),
             UNCHANGED <<targets, global, ukernel_services>>
      PROVE  PointInv'
  BY <1>4, PointEnds, Zenon DEF Ends
<1>5. ASSUME NEW t \in Threads, Begin(t) PROVE PointInv' /\ TargetInv'
  BY <1>1, <1>4, <1>5, BeginEffect, PointStarts, Zenon
<1>6. ASSUME NEW t \in Threads, init_new_thread_calls(t) PROVE PointInv' /\ TargetInv'
  BY <1>6, PointInitialises, Zenon
<1>7. ASSUME NEW t \in Threads, InitCheck(t) PROVE PointInv' /\ TargetInv'
  <2>1. Goes(t, "init2", "get") => PointOK(t)'
    BY Zenon DEF PointOK, Goes
  <2> QED  BY <1>1, <1>3, <1>4, <1>7, <2>1, CheckEffect, Zenon DEF kept
<1>8. ASSUME NEW t \in Threads, get_ukernel_service(t) PROVE PointInv' /\ TargetInv'
  <2>0. UNCHANGED kept
    BY <1>8, GetEffect, Zenon
  <2>1. Goes(t, "get", "select") => PointOK(t)'
    BY Zenon DEF PointOK, Goes
  <2>2. Goes(t, "get", "codiscover2") /\ loc'[t] = loc[t] /\ Ready(t) /\ First(t) \in ukernel_services
        => PointOK(t)'
    BY <2>0, Zenon DEF PointOK, Goes, First, Ready, kept
  <2> QED  BY <1>1, <1>3, <1>4, <1>8, <2>0, <2>1, <2>2, GetEffect, ZenonT(60) DEF kept
<1>9. ASSUME NEW t \in Threads, SelectService(t) PROVE PointInv' /\ TargetInv'
  <2>0. UNCHANGED <<targets, global>>
    BY <1>9, SelectEffect, Zenon
  <2>1. Goes(t, "select", "init") => PointOK(t)'
    BY Zenon DEF PointOK, Goes
  <2>2. Goes(t, "select", "codiscover") /\ Selects(t) /\ loc'[t] = loc[t]
        /\ ukernel_services' = ukernel_services \cup {First(t)} => PointOK(t)'
    BY <2>0, Zenon DEF PointOK, Goes, First, Selects
  <2> QED  BY <1>1, <1>3, <1>4, <1>9, <2>0, <2>1, <2>2, SelectEffect, ZenonT(60)
<1>10. ASSUME NEW t \in Threads, call_ukern_service(t) PROVE PointInv' /\ TargetInv'
  <2>0. UNCHANGED kept /\ PointOK(t)
    BY <1>10, TryEffect, Zenon DEF PointInv
  <2>1. ASSUME NEW to, Goes(t, "try", to), to \in {"reply", "idle", "get"} PROVE PointOK(t)'
    BY <2>0, <2>1, Zenon DEF PointOK, Goes, Ready, kept
  <2>2. Goes(t, "try", "refresh") /\ loc'[t].func \in ukernel_services => PointOK(t)'
    BY <2>0, Zenon DEF PointOK, Goes, At, First, Ready, kept
  <2> QED  BY <1>1, <1>3, <1>4, <1>10, <2>0, <2>1, <2>2, TryEffect, ZenonT(60) DEF kept
<1>11. ASSUME NEW t \in Threads, refresh_target_scb(t) PROVE PointInv' /\ TargetInv'
  <2>0. UNCHANGED kept /\ PointOK(t)
    BY <1>11, RefreshEffect, Zenon DEF PointInv
  <2>1. Goes(t, "refresh", "codiscover2") /\ Ready(t) /\ loc'[t] = loc[t] => PointOK(t)'
    BY <2>0, Zenon DEF PointOK, Goes, First, Ready, kept
  <2>2. Goes(t, "refresh", "init") => PointOK(t)'
    BY Zenon DEF PointOK, Goes
  <2> QED  BY <1>1, <1>3, <1>4, <1>11, <2>0, <2>1, <2>2, RefreshEffect, ZenonT(60) DEF kept
<1>12. ASSUME NEW t \in Threads, call_ukern_target(t) PROVE PointInv' /\ TargetInv'
  <2>0. UNCHANGED kept /\ PointOK(t)
    BY <1>12, ReplyEffect, Zenon DEF PointInv
  <2>1. Goes(t, "reply", "idle") => PointOK(t)'
    BY <2>0, Zenon DEF PointOK, Goes, Ready, kept
  <2> QED  BY <1>1, <1>3, <1>4, <1>12, <2>0, <2>1, PointStarts, ReplyEffect, ZenonT(60) DEF kept
<1> QED  BY <1>2, <1>5, <1>6, <1>7, <1>8, <1>9, <1>10, <1>11, <1>12, NextEffects, PointDiscover, ZenonT(60)

\* A worker is known only for a service that is cached, or for one of the three
\* that coproc_init gives.
Given == {"COINSERT", "CODISCOVER", "COSELECT"}
KnownInv ==
    \A f \in Funcs : global[f] # NULL \/ (\E t \in Threads : targets[t][f] # NULL)
                     => f \in ukernel_services \cup Given

\* Every step keeps that.
LEMMA KnownStep ==
    ASSUME TypeInv, ScbInv, PointInv, KnownInv, [Next]_vars PROVE KnownInv'
<1>1. ASSUME UNCHANGED <<targets, global>>, ukernel_services \subseteq ukernel_services'
      PROVE  KnownInv'
  BY <1>1, Zenon DEF KnownInv
<1>2. CASE UNCHANGED <<kept, pc, loc, exited>>
  BY <1>1, <1>2, Zenon DEF kept
<1>3. ASSUME NEW t \in Threads, init_new_thread_calls(t) PROVE KnownInv'
  <2>1. /\ UNCHANGED <<global, ukernel_services>>
        /\ \A u \in Threads : u # t => targets'[u] = targets[u]
        /\ \A f \in Funcs : targets'[t][f] = targets[t][f] \/ targets'[t][f] = global[f]
    BY <1>3, InitEffect, Zenon
  <2> QED  BY <2>1, Zenon DEF KnownInv
<1>4. ASSUME NEW t \in Threads, NEW from \in {"codiscover", "codiscover2"},
             Running(t, from), get_coservice_scb(t)
      PROVE  KnownInv'
  <2>1. First(t) \in ukernel_services /\ UNCHANGED ukernel_services
    BY <1>4, DiscoverEffect, Zenon DEF PointInv, PointOK, Running
  <2>2. CASE UNCHANGED <<targets, global, pc, loc, exited>>
    BY <1>1, <2>1, <2>2, Zenon
  <2>3. CASE ~UNCHANGED <<targets, global, pc, loc, exited>>
    <3>1. PICK v : Targets(t, First(t), v)
      BY <1>4, <2>3, DiscoverEffect, Zenon
    <3>2. \A f \in Funcs : f # First(t) => global'[f] = global[f]
                                           /\ \A u \in Threads : targets'[u][f] = targets[u][f]
      BY <3>1, Zenon DEF Targets
    <3> QED  BY <2>1, <3>2, Zenon DEF KnownInv
  <2> QED  BY <2>2, <2>3, Zenon
<1>5. ASSUME NEW t \in Threads, Begin(t) \/ InitCheck(t) \/ get_ukernel_service(t) \/ call_ukern_service(t)
             \/ refresh_target_scb(t) \/ call_ukern_target(t)
      PROVE  UNCHANGED <<targets, global, ukernel_services>>
  BY <1>5, BeginEffect, CheckEffect, GetEffect, TryEffect, RefreshEffect, ReplyEffect, Zenon DEF kept
<1>6. ASSUME NEW t \in Threads, SelectService(t) PROVE KnownInv'
  BY <1>1, <1>6, SelectEffect, Zenon
<1> QED  BY <1>1, <1>2, <1>3, <1>4, <1>5, <1>6, NextEffects, ZenonT(60)

\* A thread that begins when all is cached initialises once: it finds workers for
\* CODISCOVER and CODISCOVER2 in the fallback, and gets to COSELECT through
\* services that are cached, before it needs coselect for one that is not.
LateOK(t) ==
    /\ pc[t] # "init2"
    /\ pc[t] \notin {"idle", "init"} => Ready(t)
    /\ loc[t].depth <= 1
    /\ pc[t] = "init" => loc[t].depth = 0
    /\ loc[t].depth = 1 => Selects(t) \/ Ahead(loc[t].todo)
    /\ pc[t] = "select" => loc[t].todo[1] \notin Core \X {"load"}
LateInv ==
    /\ late \subseteq Threads /\ (late # {} => Cached)
    /\ \A t \in late : LateOK(t)

\* Only t's own part is to be looked at.
LEMMA LateOfOthers ==
    ASSUME LateInv, NEW t \in Threads, Frame(t), Others(t), late' \in {late, late \cup {t}},
           late' # {} => Cached', t \in late' => LateOK(t)'
    PROVE  LateInv'
<1>1. ASSUME NEW u \in late', u # t PROVE LateOK(u)'
  <2>1. u \in Threads /\ LateOK(u)
    BY <1>1, Zenon DEF LateInv
  <2>2. pc'[u] = pc[u] /\ loc'[u] = loc[u] /\ targets'[u] = targets[u]
    BY <1>1, <2>1, Zenon DEF Others, Frame
  <2> QED  BY <2>1, <2>2, Zenon DEF LateOK, Ready, Selects
<1> QED  BY <1>1, Zenon DEF LateInv

\* A step that ends the process, or that no thread sees.
LEMMA LateUnchanged ==
    ASSUME LateInv, UNCHANGED <<targets, global, ukernel_services, late, pc, loc>>
    PROVE  LateInv'
<1>1. \A u \in late : LateOK(u)'
  BY Zenon DEF LateInv, LateOK, Ready, Selects
<1> QED  BY <1>1, Zenon DEF LateInv, Cached

\* The first of what there is to do is a core service as long as COSELECT is ahead,
\* and getting a worker for it brings COSELECT nearer.
LEMMA AheadFirst ==
    ASSUME NEW s \in Seq(Entries), Ahead(s)
    PROVE  /\ s # <<>> /\ s[1] \in Core \X {"load"}
           /\ Head(s)[1] = "COSELECT" \/ (Tail(s) # <<>> /\ Ahead(Tail(s)))
<1>1. Len(s) \in Nat /\ Len(s) >= 1 /\ s # <<>>
  BY DEF Ahead
<1>2. s[1] \in Core \X {"load"}
  <2>1. \A f \in Core : Load(f) \in Core \X {"load"}
    BY Zenon DEF Load
  <2>2. s[1] \in {Load("COSELECT"), Load("CODISCOVER"), Load("CODISCOVER2")}
    BY Zenon DEF Ahead
  <2> QED  BY <2>1, <2>2, Zenon DEF Core
<1>3. /\ Head(s) = s[1] /\ Len(Tail(s)) = Len(s) - 1 /\ Tail(s) \in Seq(Entries)
      /\ \A i \in 1 .. Len(s) - 1 : Tail(s)[i] = s[i + 1]
  BY <1>1, HeadTail, Zenon
<1>7. Len(Tail(s)) >= 1 => Tail(s) # <<>>
  <2>1. PICK r : r = Tail(s)
    BY Zenon
  <2>2. Len(r) >= 1 => r # <<>>
    OBVIOUS
  <2> QED  BY <2>1, <2>2, Zenon
<1>4. CASE s[1] = Load("COSELECT")
  BY <1>1, <1>2, <1>3, <1>4 DEF Load
<1>5. CASE Len(s) >= 2 /\ s[1] = Load("CODISCOVER") /\ s[2] = Load("COSELECT")
  <2>1. Len(Tail(s)) >= 1 /\ Tail(s)[1] = Load("COSELECT")
    BY <1>1, <1>3, <1>5
  <2>2. Tail(s) # <<>>
    BY <1>7, <2>1, Zenon
  <2> QED  BY <1>1, <1>2, <2>1, <2>2, Zenon DEF Ahead
<1>6. CASE Len(s) >= 3 /\ s[1] = Load("CODISCOVER2") /\ s[2] = Load("CODISCOVER") /\ s[3] = Load("COSELECT")
  <2>1. Len(Tail(s)) >= 2 /\ Tail(s)[1] = Load("CODISCOVER") /\ Tail(s)[2] = Load("COSELECT")
    BY <1>1, <1>3, <1>6
  <2>2. Tail(s) # <<>>
    BY <1>7, <2>1
  <2> QED  BY <1>1, <1>2, <2>1, <2>2, Zenon DEF Ahead
<1> QED  BY <1>4, <1>5, <1>6, Zenon DEF Ahead

\* A call begins, by a wrapper or as the slow call after one that was refused.
LEMMA LateStarts ==
    ASSUME TypeInv, LateInv, TargetInv, PointInv, NEW t \in Threads, NEW from \in {"idle", "reply"},
           NEW to, Goes(t, from, to), Starts(t, to), UNCHANGED <<targets, global, ukernel_services>>,
           late' = late \/ (late' = late \cup {t} /\ Cached)
    PROVE  LateInv'
<1>1. Frame(t) /\ Ready(t)' = Ready(t) /\ Others(t)
  BY KeptFrame, Zenon DEF Goes
<1>2. late' # {} => Cached /\ Cached'
  BY Zenon DEF LateInv, Cached
<1>3. ASSUME t \in late' PROVE LateOK(t)'
  <2>1. /\ PointOK(t) /\ pc[t] = from /\ pc'[t] = to /\ At(to, loc'[t]) /\ to \in {"try", "init", "get"}
        /\ loc'[t].depth = 0
    BY Zenon DEF PointInv, Goes, Starts
  <2>2. t = main => Ready(t)
    BY <1>2, <1>3, Zenon DEF Cached, TargetInv
  <2>3. to = "try" => Ready(t)
    <3>1. to = "try" => loc'[t].func \in Funcs /\ targets[t][loc'[t].func] # NULL
      BY <2>1, Zenon DEF Starts, At
    <3> QED  BY <2>1, <2>2, <3>1, Zenon DEF PointOK
  <2>4. to = "get" => Ready(t)
    BY Zenon DEF Starts, should_init_thread, Ready, Core
  <2> QED  BY <1>1, <2>1, <2>3, <2>4 DEF LateOK
<1> QED  BY <1>1, <1>2, <1>3, LateOfOthers, Zenon

\* What late threads rely on stays.
LEMMA CachedStays ==
    ASSUME Cached, ukernel_services \subseteq ukernel_services',
           global'["CODISCOVER2"] = global["CODISCOVER2"]
    PROVE  Cached'
  BY Zenon DEF Cached

\* Every step keeps the promise to the late threads.
LEMMA LateStep ==
    ASSUME TypeInv, ScbInv, TargetInv, PointInv, LateInv, [Next]_vars
    PROVE  LateInv'
<1>1. CASE UNCHANGED <<kept, pc, loc, exited>>
  BY <1>1, LateUnchanged, Zenon DEF kept
<1>2. ASSUME NEW t \in Threads, NEW from, NEW to, Goes(t, from, to), UNCHANGED kept,
             t \in late => LateOK(t)'
      PROVE  LateInv'
  <2>1. Frame(t) /\ Others(t) /\ (late # {} => Cached')
    BY <1>2, KeptFrame, Zenon DEF Goes, kept, LateInv, Cached
  <2> QED  BY <1>2, <2>1, LateOfOthers, Zenon DEF kept
<1>3. ASSUME NEW t \in Threads, NEW from, NEW why, Ends(t, from, why),
             UNCHANGED <<targets, global, ukernel_services, late>>
      PROVE  LateInv'
  BY <1>3, LateUnchanged, Zenon DEF Ends
<1>4. ASSUME NEW t \in Threads, t \in late
      PROVE  LateOK(t) /\ Cached /\ loc[t] \in Locals /\ At(pc[t], loc[t])
  BY <1>4, Zenon DEF LateInv, TypeInv, ThreadTypes
<1>5. ASSUME NEW t \in Threads, Begin(t) PROVE LateInv'
  <2>1. CASE \E to : Goes(t, "idle", to) /\ Starts(t, to)
    BY <1>5, <2>1, BeginEffect, LateStarts, Zenon
  <2>2. CASE Ends(t, "idle", "args")
    <3>1. Frame(t) /\ Others(t) /\ (late' # {} => Cached')
      BY <1>5, <2>2, BeginEffect, KeptFrame, ZenonT(60) DEF Ends, Others, LateInv, Cached
    <3>2. pc'[t] = "idle" /\ loc'[t] = NoLocals
      BY <2>2, Zenon DEF Ends, TypeInv, ThreadTypes, At
    <3>3. LateOK(t)'
      BY <3>2 DEF LateOK, NoLocals
    <3> QED  BY <1>5, <3>1, <3>3, BeginEffect, LateOfOthers, ZenonT(60)
  <2> QED  BY <1>5, <2>1, <2>2, BeginEffect, Zenon
<1>6. ASSUME NEW t \in Threads, init_new_thread_calls(t) PROVE LateInv'
  <2>1. /\ UNCHANGED <<global, ukernel_services, late>>
        /\ \A u \in Threads : u # t => targets'[u] = targets[u]
        /\ targets'[t]["CODISCOVER2"] = NULL => global["CODISCOVER2"] = NULL
        /\ loc'[t].depth = loc[t].depth + 1 /\ Ahead(loc'[t].todo)
    BY <1>6, InitEffect, Zenon
  <2>2. PICK to \in {"get", "init2"} : Goes(t, "init", to) /\ (to = "init2" => global["CODISCOVER2"] = NULL)
    BY <1>6, InitEffect, ZenonT(60)
  <2>3. t \in late => LateOK(t)'
    BY <1>4, <2>1, <2>2 DEF LateOK, Goes, Cached, Ready
  <2>4. Frame(t) /\ Others(t) /\ (late' # {} => Cached')
    BY <2>1, <2>2, Zenon DEF Frame, Goes, LateInv, Cached
  <2> QED  BY <2>1, <2>3, <2>4, LateOfOthers, Zenon
<1>7. ASSUME NEW t \in Threads, InitCheck(t) PROVE LateInv'
  <2>1. Goes(t, "init2", "get") => t \notin late
    BY <1>4, Zenon DEF Goes, LateOK
  <2> QED  BY <1>2, <1>3, <1>7, <2>1, CheckEffect, ZenonT(60) DEF kept
<1>8. ASSUME NEW t \in Threads, get_ukernel_service(t) PROVE LateInv'
  <2>0. UNCHANGED kept
    BY <1>8, GetEffect, Zenon
  <2>1. ASSUME Goes(t, "get", "select"), loc'[t] = loc[t], t \in late,
               First(t) \notin ukernel_services \/ loc[t].todo[1][2] = "select"
        PROVE  LateOK(t)'
    <3>1. /\ LateOK(t) /\ Cached /\ loc[t].todo \in Seq(Entries) /\ loc[t].todo # <<>> /\ pc[t] = "get"
          /\ pc'[t] = "select"
      BY <1>4, <2>1, ZenonT(60) DEF Locals, At, Goes
    <3>2. First(t) = loc[t].todo[1][1]
      BY <3>1, HeadTail, Zenon DEF First
    <3>3. loc[t].todo[1] \notin Core \X {"load"}
      BY <2>1, <3>1, <3>2, Zenon DEF Cached
    <3> QED  BY <2>0, <2>1, <3>1, <3>3, ZenonT(60) DEF LateOK, Ready, Selects, kept
  <2>2. ASSUME Goes(t, "get", "codiscover2"), loc'[t] = loc[t], t \in late
        PROVE  LateOK(t)'
    BY <1>4, <2>0, <2>2, Zenon DEF LateOK, Ready, Selects, kept, Goes
  <2> QED  BY <1>2, <1>3, <1>8, <2>0, <2>1, <2>2, GetEffect, ZenonT(60) DEF kept
<1>9. ASSUME NEW t \in Threads, SelectService(t) PROVE LateInv'
  <2>0. UNCHANGED <<targets, global, late>>
    BY <1>9, SelectEffect, ZenonT(60)
  <2>1. ASSUME Goes(t, "select", "init"), ~Selects(t), loc'[t].depth = loc[t].depth, t \in late
        PROVE  LateOK(t)'
    <3>1. LateOK(t) /\ loc[t].todo \in Seq(Entries) /\ loc[t].depth \in Nat /\ pc[t] = "select" /\ pc'[t] = "init"
      BY <1>4, <2>1, ZenonT(60) DEF Locals, Goes
    <3>2. ~Ahead(loc[t].todo)
      BY <3>1, AheadFirst, ZenonT(60) DEF LateOK
    <3>3. loc[t].depth = 0
      BY <2>1, <3>1, <3>2 DEF LateOK
    <3> QED  BY <2>1, <3>1, <3>3 DEF LateOK
  <2>2. ASSUME Goes(t, "select", "codiscover"), loc'[t] = loc[t], t \in late
        PROVE  LateOK(t)'
    BY <1>4, <2>0, <2>2, Zenon DEF LateOK, Ready, Selects, Goes
  <2>3. ASSUME Goes(t, "select", "codiscover"), loc'[t] = loc[t],
               ukernel_services' = ukernel_services \cup {First(t)}
        PROVE  LateInv'
    <3>1. Frame(t) /\ Others(t) /\ (late' # {} => Cached')
      BY <2>0, <2>3, Zenon DEF Frame, Goes, LateInv, Cached
    <3> QED  BY <2>0, <2>2, <2>3, <3>1, LateOfOthers, ZenonT(60)
  <2> QED  BY <1>2, <1>3, <1>9, <2>0, <2>1, <2>3, SelectEffect, ZenonT(60) DEF kept
<1>10. ASSUME NEW t \in Threads, call_ukern_service(t) PROVE LateInv'
  <2>0. UNCHANGED kept
    BY <1>10, TryEffect, Zenon
  <2>1. ASSUME Goes(t, "try", "reply"), loc'[t] = loc[t], t \in late PROVE LateOK(t)'
    BY <1>4, <2>0, <2>1, Zenon DEF LateOK, Ready, Selects, kept, Goes
  <2>2. ASSUME NEW to \in {"refresh", "get"}, Goes(t, "try", to), loc'[t].depth = loc[t].depth, t \in late
        PROVE  LateOK(t)'
    <3>1. LateOK(t) /\ pc[t] = "try" /\ pc'[t] = to /\ loc[t].todo = <<>> /\ <<>> \in Seq(Entries)
      BY <1>4, <2>2 DEF Goes, At
    <3>2. ~Ahead(loc[t].todo)
      BY <3>1, AheadFirst, Zenon
    <3> QED  BY <2>0, <2>2, <3>1, <3>2, ZenonT(60) DEF LateOK, Ready, Selects, kept
  <2>3. ASSUME Goes(t, "try", "idle"), loc'[t] = NoLocals PROVE LateOK(t)'
    BY <2>3 DEF LateOK, Goes, NoLocals
  <2> QED  BY <1>2, <1>3, <1>10, <2>0, <2>1, <2>2, <2>3, TryEffect, ZenonT(60) DEF kept
<1>11. ASSUME NEW t \in Threads, refresh_target_scb(t) PROVE LateInv'
  <2>0. UNCHANGED kept
    BY <1>11, RefreshEffect, Zenon
  <2>1. ASSUME Goes(t, "refresh", "codiscover2"), loc'[t] = loc[t], t \in late PROVE LateOK(t)'
    BY <1>4, <2>0, <2>1, Zenon DEF LateOK, Ready, Selects, kept, Goes
  <2>2. Goes(t, "refresh", "init") /\ ~Ready(t) => t \notin late
    BY <1>4, Zenon DEF LateOK, Goes
  <2> QED  BY <1>2, <1>11, <2>0, <2>1, <2>2, RefreshEffect, ZenonT(60)
<1>12. ASSUME NEW t \in Threads, call_ukern_target(t) PROVE LateInv'
  <2>0. UNCHANGED kept
    BY <1>12, ReplyEffect, Zenon
  <2>1. ASSUME Goes(t, "reply", "idle"), loc'[t] = NoLocals PROVE LateOK(t)'
    BY <2>1 DEF LateOK, Goes, NoLocals
  <2> QED  BY <1>2, <1>3, <1>12, <2>0, <2>1, LateStarts, ReplyEffect, ZenonT(60) DEF kept
<1>13. ASSUME NEW t \in Threads, NEW from \in {"codiscover", "codiscover2"},
              Running(t, from), get_coservice_scb(t)
       PROVE  LateInv'
  <2>0. UNCHANGED <<ukernel_services, late>>
    BY <1>13, DiscoverEffect, Zenon
  <2>1. CASE UNCHANGED <<targets, global, pc, loc, exited>>
    BY <2>0, <2>1, LateUnchanged, Zenon
  <2>2. CASE ~UNCHANGED <<targets, global, pc, loc, exited>>
    <3>1. PICK v : Targets(t, First(t), v)
      BY <1>13, <2>2, DiscoverEffect, Zenon
    <3>2. PICK to \in {"try", "get"} :
            /\ Goes(t, from, to) /\ loc'[t].depth = loc[t].depth
            /\ \/ to = "try" /\ (loc[t].todo = <<>> \/ Tail(loc[t].todo) = <<>>)
               \/ to = "get" /\ loc[t].todo # <<>> /\ loc'[t].todo = Tail(loc[t].todo)
      BY <1>13, <2>2, DiscoverEffect, ZenonT(60)
    <3>3. "CODISCOVER2" \in Funcs /\ "COSELECT" \in Funcs /\ v # NULL
      BY <3>1, CoreFuncs DEF Core, Targets, NULL
    <3>4. (Ready(t) => Ready(t)') /\ (Selects(t) \/ First(t) = "COSELECT" => Selects(t)')
      BY <3>1, <3>3, Zenon DEF Targets, Ready, Selects
    <3>5. t \in late => LateOK(t)'
      <4> SUFFICES ASSUME t \in late PROVE LateOK(t)'
        BY Zenon
      <4>1. LateOK(t) /\ loc[t].todo \in Seq(Entries) /\ pc[t] = from /\ pc'[t] = to
        BY <1>4, <3>2, Zenon DEF Locals, Goes
      <4>2. Ahead(loc[t].todo) => First(t) = "COSELECT" \/ (to = "get" /\ Ahead(loc'[t].todo))
        BY <3>2, <4>1, AheadFirst, Zenon DEF First
      <4> QED  BY <3>2, <3>4, <4>1, <4>2, Zenon DEF LateOK
    <3>6. Frame(t) /\ Others(t)
      BY <2>0, <3>1, <3>2, Zenon DEF Frame, Targets, Goes
    <3>7. late # {} => Cached'
      BY <2>0, <3>1, <3>3, Zenon DEF LateInv, Cached, Targets
    <3> QED  BY <2>0, <3>5, <3>6, <3>7, LateOfOthers, ZenonT(60)
  <2> QED  BY <2>1, <2>2, Zenon
<1> QED  BY <1>1, <1>5, <1>6, <1>7, <1>8, <1>9, <1>10, <1>11, <1>12, <1>13, NextEffects, ZenonT(60)

\* Why the process has ended, if it has.
ExitInv ==
    exited # <<>> => /\ exited[1] \in late => exited[2] \in Outcomes
                     /\ exited[2] # "wrong path"

\* Only a thread that is not late ends the process with a consistency check; the
\* flags of a service are known where there is a worker to call.
LEMMA ExitStep ==
    ASSUME TypeInv, ScbInv, LateInv, KnownInv, ExitInv, [Next]_vars
    PROVE  ExitInv'
<1>1. CASE UNCHANGED <<kept, pc, loc, exited>>
  BY <1>1, Zenon DEF ExitInv, kept
<1>2. ASSUME NEW t, NEW from, NEW to, Goes(t, from, to) PROVE ExitInv'
  BY <1>2, Zenon DEF Goes, ExitInv
<1>3. ASSUME NEW t, NEW from, NEW why, Ends(t, from, why), why # "wrong path",
             why \in Outcomes \/ t \notin late'
      PROVE  ExitInv'
  BY <1>3, Zenon DEF Ends, ExitInv
<1>4. "args" \in Outcomes /\ "failed" \in Outcomes /\ "wrong path" \notin Outcomes
  BY Zenon DEF Outcomes
<1>5. ASSUME NEW t \in Threads, Begin(t) PROVE ExitInv'
  BY <1>2, <1>3, <1>4, <1>5, BeginEffect, Zenon
<1>6. ASSUME NEW t \in Threads, init_new_thread_calls(t) PROVE ExitInv'
  BY <1>2, <1>6, InitEffect, Zenon
<1>7. ASSUME NEW t \in Threads, InitCheck(t) PROVE ExitInv'
  <2>1. Ends(t, "init2", "no scb") => t \notin late
    BY Zenon DEF Ends, LateInv, LateOK
  <2> QED  BY <1>2, <1>3, <1>7, <2>1, CheckEffect, ZenonT(60) DEF kept
<1>8. ASSUME NEW t \in Threads, get_ukernel_service(t) PROVE ExitInv'
  <2>1. Ends(t, "get", "not initialized") /\ ~Ready(t) => t \notin late
    BY Zenon DEF Ends, LateInv, LateOK
  <2> QED  BY <1>2, <1>3, <1>8, <2>1, GetEffect, ZenonT(60) DEF kept
<1>9. ASSUME NEW t \in Threads, SelectService(t) PROVE ExitInv'
  BY <1>2, <1>3, <1>4, <1>9, SelectEffect, Zenon
<1>10. ASSUME NEW t \in Threads, call_ukern_service(t) PROVE ExitInv'
  BY <1>2, <1>3, <1>4, <1>10, TryEffect, ZenonT(60)
<1>11. ASSUME NEW t \in Threads, refresh_target_scb(t) PROVE ExitInv'
  BY <1>2, <1>11, RefreshEffect, Zenon
<1>12. ASSUME NEW t \in Threads, call_ukern_target(t) PROVE ExitInv'
  <2>1. ASSUME Ends(t, "reply", "wrong path"), targets[t][loc[t].func] # NULL,
               ~(is_slocall(loc[t].func) <=> loc[t].func \in SlowServices)
        PROVE  FALSE
    <3>1. loc[t].func \in Funcs
      BY <2>1, Zenon DEF Ends, TypeInv, ThreadTypes, At
    <3>2. loc[t].func \in ukernel_services \cup Given
      BY <2>1, <3>1, Zenon DEF KnownInv
    <3> QED  BY <2>1, <3>2, Zenon DEF is_slocall, SlowServices, Given
  <2> QED  BY <1>2, <1>3, <1>4, <1>12, <2>1, ReplyEffect, ZenonT(60)
<1>13. ASSUME NEW t \in Threads, NEW from \in {"codiscover", "codiscover2"},
              Running(t, from), get_coservice_scb(t)
       PROVE  ExitInv'
  <2>1. UNCHANGED <<exited, late>>
    BY <1>13, Zenon DEF get_coservice_scb, Quiet
  <2> QED  BY <2>1, Zenon DEF ExitInv
<1> QED  BY <1>1, <1>5, <1>6, <1>7, <1>8, <1>9, <1>10, <1>11, <1>12, <1>13, NextEffects, ZenonT(60)

\* The inductive invariant of the client side.
ClientInv == TypeInv /\ ScbInv /\ TargetInv /\ PointInv /\ KnownInv /\ LateInv /\ ExitInv

\* The initial states satisfy the client's invariant.
LEMMA ClientInit == ASSUME Init PROVE ClientInv
<1>0. "CODISCOVER2" \in Funcs /\ "COSELECT" \in Funcs /\ "CODISCOVER" \in Funcs
  BY CoreFuncs, Zenon DEF Core
<1>1. ScbInv
  BY WorkersAssumption DEF Init, ScbInit, ScbInv, IndexInRange, RoundRobin, Indices
<1>2. coproc_init \in [Funcs -> Int] /\ coproc_init["CODISCOVER2"] = NULL
      /\ \A f \in Funcs : coproc_init[f] # NULL => f \in Given
  BY <1>0 DEF coproc_init, NULL, Given
<1>3. TargetTypes
  BY <1>2 DEF Init, TargetTypes, NULL
<1>4. NoLocals \in Locals
  <2>1. <<>> \in Seq(Records) /\ <<>> \in Seq(Entries)
    OBVIOUS
  <2> QED  BY <2>1, Zenon DEF NoLocals, Locals
<1>5. /\ pc = [t \in Threads |-> "idle"] /\ loc = [t \in Threads |-> NoLocals]
      /\ late = {} /\ exited = <<>> /\ global = coproc_init
      /\ \A t \in Threads : /\ t = main => targets[t] = coproc_init
                            /\ t # main => \A f \in Funcs : targets[t][f] = NULL
  BY Zenon DEF Init
<1>6. ThreadTypes
  BY <1>4, <1>5, Zenon DEF ThreadTypes, At
<1>7. TargetInv /\ PointInv
  BY <1>0, <1>2, <1>5, ZenonT(60) DEF TargetInv, PointInv, PointOK, Ready, Selects
<1>8. KnownInv
  BY <1>2, <1>5, Zenon DEF KnownInv
<1>9. LateInv /\ ExitInv
  BY <1>5, Zenon DEF LateInv, ExitInv
<1> QED  BY <1>1, <1>3, <1>6, <1>7, <1>8, <1>9, ZenonT(60) DEF ClientInv, TypeInv

\* Once all is cached, a thread's first call initialises it exactly once and never
\* ends the process by a consistency check; and no worker is called the wrong way
\* (ukern_calls.c 94-122, 133-181, 189-215).
THEOREM LateThreadsSafe == Spec => []LateThreadsAreSafe
<1>1. Init => ClientInv
  BY ClientInit, Zenon
<1>2. ClientInv /\ [Next]_vars => ClientInv'
  <2> SUFFICES ASSUME ClientInv, [Next]_vars PROVE ClientInv'
    BY Zenon
  <2>1. [ScbNext]_scbVars
    BY CallsChoose, Zenon DEF vars, scbVars
  <2>2. ScbInv'
    BY <2>1, ScbStep, Zenon DEF ClientInv
  <2> QED  BY <2>2, TypeStep, PointStep, KnownStep, LateStep, ExitStep, ZenonT(60) DEF ClientInv
<1>3. ClientInv => LateThreadsAreSafe
  BY Zenon DEF ClientInv, LateInv, LateOK, ExitInv, LateThreadsAreSafe
<1> QED  BY <1>1, <1>2, <1>3, PTL DEF Spec
=============================================================================
