------------------------------ MODULE Endpoint ------------------------------
(* Worker threads: a creator starts one thread after the other and waits for *)
(* each to register with the switcher before the next.  libcocall does so for *)
(* a daemon's endpoints; coprocd has a version of its own for the start-up    *)
(* workers, which takes failure differently.  The mutex is robust: a thread   *)
(* that exits holding it leaves it to the next locker as owner-dead, and      *)
(* nobody makes it consistent again.                                          *)
EXTENDS Integers

CONSTANTS NSlow, NFast,     \* the endpoints a daemon asks for
          NCpu

\* At least one worker per processor, unless none is asked for.
init_endpoints(wanted) == IF wanted = 0 THEN 0 ELSE IF wanted < NCpu THEN NCpu ELSE wanted
NEndpoints == init_endpoints(NSlow) + init_endpoints(NFast)
Endpoints == 1 .. NEndpoints

\* Owners of the mutex besides the threads: nobody, the creator, one that
\* exited, and the mark of a mutex that cannot be recovered.
free == 0
creator == -1
dead == -2
bad == -3

VARIABLES lib,              \* whose code runs: "endpoint" (libcocall) or "coprocd"
          epc, n,           \* the creator and the endpoint it starts
          tpc, scb,         \* each thread's step; whether its scb is set
          mtx,              \* registration_mutex: its owner, or one of the below
          ownerdead,        \* the creator holds it having got EOWNERDEAD
          signalled,        \* the wait's wake-up
          served,           \* threads that have run a call
          endfault          \* history: the faults the environment produced

endVars == <<lib, epc, n, tpc, scb, mtx, ownerdead, signalled, served, endfault>>

EndpointInit ==
    /\ lib \in {"endpoint", "coprocd"} /\ epc = "lock" /\ n = 1 /\ served = {}
    /\ tpc = [t \in Endpoints |-> "none"] /\ scb = [t \in Endpoints |-> FALSE]
    /\ mtx = free /\ ownerdead = FALSE /\ signalled = FALSE /\ endfault = {}

\* Whoever locks gets a free mutex or one whose owner died; an unrecoverable
\* one is not got, which the code does not look at.
Lockable == mtx \in {free, dead, bad}
Taken(who) == IF mtx = bad THEN bad ELSE who
Released(who) == IF mtx = who THEN (IF ownerdead THEN bad ELSE free) ELSE mtx

Slow(t) == IF lib = "coprocd" THEN t < NEndpoints ELSE t <= init_endpoints(NSlow)

\* spawn_endpoints starts the next thread whatever became of this one.
spawn_endpoints == IF n < NEndpoints THEN epc' = "lock" /\ n' = n + 1
                   ELSE epc' = "done" /\ UNCHANGED n

\* coprocd's callers: the start-up workers' map is used without a test for
\* NULL, that of the last one ends the process if it is NULL.
spawn_slow_worker(ok) == IF ok THEN spawn_endpoints ELSE epc' = "fault" /\ UNCHANGED n
spawn_worker(ok) == IF ok THEN spawn_endpoints ELSE epc' = "exited" /\ UNCHANGED n
Return(ok) == IF lib = "endpoint" THEN spawn_endpoints
              ELSE IF Slow(n) THEN spawn_slow_worker(ok) ELSE spawn_worker(ok)

\* Up to pthread_create: worker_creation_mutex is the creator's alone.
Lock ==
    /\ epc = "lock" /\ Lockable
    /\ mtx' = Taken(creator) /\ ownerdead' = (mtx = dead)
    /\ epc' = "create" /\ UNCHANGED <<lib, n, tpc, scb, signalled, served, endfault>>

LockRegistration == lib = "endpoint" /\ Lock

\* coprocd's workers have a map of one worker each.
spawn_slow_worker_thread == lib = "coprocd" /\ Slow(n) /\ Lock
spawn_worker_thread == lib = "coprocd" /\ ~Slow(n) /\ Lock

\* The thread is created and the creator waits, or it is not and false is
\* returned.  A wait on a mutex not held returns at once.
CreateThread ==
    /\ epc = "create"
    /\ \/ /\ tpc' = [tpc EXCEPT ![n] = "start"]
          /\ mtx' = Released(creator) /\ epc' = IF mtx = creator THEN "wait" ELSE "woke"
          /\ signalled' = FALSE /\ UNCHANGED <<n, endfault, ownerdead>>
       \/ /\ mtx' = Released(creator) /\ ownerdead' = FALSE
          /\ endfault' = endfault \cup {"create"} /\ Return(FALSE)
          /\ UNCHANGED <<tpc, signalled>>
    /\ UNCHANGED <<lib, scb, served>>

SpuriousWake ==
    /\ epc = "wait" /\ ~signalled /\ signalled' = TRUE
    /\ endfault' = endfault \cup {"spurious"}
    /\ UNCHANGED <<lib, epc, n, tpc, scb, mtx, ownerdead, served>>

Wake ==
    /\ epc = "wait" /\ signalled /\ Lockable
    /\ mtx' = Taken(creator) /\ ownerdead' = (mtx = dead)
    /\ epc' = "woke" /\ UNCHANGED <<lib, n, tpc, scb, signalled, served, endfault>>

\* After the wait: a thread that failed must have ended, or the creator aborts.
Woken(failed) ==
    /\ epc = "woke"
    /\ IF failed /\ tpc[n] # "zombie"
       THEN epc' = "aborted" /\ UNCHANGED <<n, mtx, ownerdead>>
       ELSE Return(~failed) /\ mtx' = Released(creator) /\ ownerdead' = FALSE
    /\ UNCHANGED <<lib, tpc, scb, signalled, served, endfault>>

start_endpoint_thread == lib = "endpoint" /\ Woken(~scb[n] \/ ownerdead)
start_coaccept_worker == lib = "coprocd" /\ ~Slow(n) /\ Woken(~scb[n] \/ ownerdead)
start_sloaccept_worker == lib = "coprocd" /\ Slow(n) /\ Woken(~scb[n])

Thread(t, from, to) ==
    /\ tpc[t] = from /\ tpc' = [tpc EXCEPT ![t] = to]
    /\ epc \notin {"aborted", "exited", "fault", "returned"}

\* The new thread.
coaccept_endpoint(t) ==
    /\ Thread(t, "start", "register") /\ Lockable
    /\ mtx' = Taken(t)
    /\ UNCHANGED <<lib, epc, n, scb, ownerdead, signalled, served, endfault>>

\* cosetup(2) fails: the process ends.
SetupFails(t, at) ==
    /\ Thread(t, at, at) /\ epc' = "exited" /\ endfault' = endfault \cup {"setup"}
    /\ UNCHANGED <<lib, n, scb, mtx, ownerdead, signalled, served>>

\* Mutant: the creator is woken before the thread has registered.
signal_first(t) ==
    /\ Thread(t, "register", "late")
    /\ signalled' = TRUE /\ mtx' = Released(t)
    /\ UNCHANGED <<lib, epc, n, scb, ownerdead, served, endfault>>

\* Registered: scb set, creator signalled, mutex released; or the registration
\* fails, the creator is signalled and the thread exits holding the mutex.
Register(t) ==
    \/ /\ Thread(t, "register", "accept")
       /\ scb' = [scb EXCEPT ![t] = TRUE] /\ signalled' = TRUE /\ mtx' = Released(t)
       /\ UNCHANGED <<lib, epc, n, ownerdead, served, endfault>>
    \/ /\ Thread(t, "register", "exiting") /\ signalled' = TRUE
       /\ endfault' = endfault \cup {"register"}
       /\ UNCHANGED <<lib, epc, n, scb, mtx, ownerdead, served>>

\* libcocall's ends the process if the switcher's set-up fails, coprocd's does
\* not look.
coaccept_endpoint_init(t) == /\ lib = "endpoint"
                             /\ Register(t) \/ SetupFails(t, "register")
coaccept_init(t) == lib = "coprocd" /\ Register(t)

\* The dying thread gives up the robust mutex first and can be joined later.
ThreadExit(t) ==
    \/ /\ Thread(t, "exiting", "exited") /\ mtx' = IF mtx = t THEN dead ELSE mtx
       /\ UNCHANGED <<lib, epc, n, scb, ownerdead, signalled, served, endfault>>
    \/ /\ Thread(t, "exited", "zombie")
       /\ UNCHANGED <<lib, epc, n, scb, mtx, ownerdead, signalled, served, endfault>>

\* Before its first accept a thread is set up for it, once.
cocall_init(t) ==
    \/ SetupFails(t, "accept")
    \/ /\ Thread(t, "accept", "ready")
       /\ UNCHANGED <<lib, epc, n, scb, mtx, ownerdead, signalled, served, endfault>>

\* A registered thread runs one call after the other; a failing accept ends the
\* process.  coprocd's workers have no validation function.
Accept(t) ==
    /\ Thread(t, "ready", "ready")
    /\ \/ t \notin served /\ served' = served \cup {t} /\ UNCHANGED <<epc, endfault>>
       \/ epc' = "exited" /\ endfault' = endfault \cup {"accept"} /\ UNCHANGED served
    /\ UNCHANGED <<lib, n, scb, mtx, ownerdead, signalled>>

coaccept_tls(t) == ~Slow(t) /\ (cocall_init(t) \/ Accept(t))
sloaccept_tls(t) == Slow(t) /\ (cocall_init(t) \/ Accept(t))

coaccept_wrapper(t) == lib = "endpoint" /\ (coaccept_tls(t) \/ sloaccept_tls(t))
coaccept_worker(t) == lib = "coprocd" /\ coaccept_tls(t)
sloaccept_worker(t) == lib = "coprocd" /\ sloaccept_tls(t)

\* The daemon's main thread waits for the workers: it returns if there is none.
join_endpoint_thread ==
    /\ lib = "endpoint" /\ epc = "done" /\ epc' = "returned"
    /\ \A t \in Endpoints : tpc[t] \in {"none", "zombie"}
    /\ UNCHANGED <<lib, n, tpc, scb, mtx, ownerdead, signalled, served, endfault>>

\* The endpoints handed to coserviced.
get_endpoints(slow) == [t \in {x \in Endpoints : Slow(x) = slow} |-> scb[t]]
get_slow_endpoints == get_endpoints(TRUE)
get_fast_endpoints == get_endpoints(FALSE)

EndpointProgress ==
    \/ LockRegistration \/ spawn_slow_worker_thread \/ spawn_worker_thread \/ CreateThread \/ Wake
    \/ start_endpoint_thread \/ start_coaccept_worker \/ start_sloaccept_worker
    \/ \E t \in Endpoints : \/ coaccept_endpoint(t) \/ coaccept_endpoint_init(t)
                           \/ coaccept_init(t) \/ ThreadExit(t)

EndpointNext ==
    \/ EndpointProgress \/ SpuriousWake \/ join_endpoint_thread
    \/ \E t \in Endpoints : coaccept_wrapper(t) \/ coaccept_worker(t) \/ sloaccept_worker(t)

-----------------------------------------------------------------------------
\* Starting the workers ends: no wake-up is lost between a worker's
\* registration and its creator's wait.  The creator aborts only if a
\* registration failed or a wait returned for nothing, and a process goes down,
\* or its main thread returns, only if a thread could not be made or failed;
\* otherwise every endpoint handed out is a registered thread.  No thread runs calls that has not
\* registered (endpoint.c 72-205, dynamic_endpoint.c 66-158).
EndpointsStart ==
    /\ <>(epc \in {"done", "aborted", "exited", "fault"})
    /\ [](epc = "aborted" => endfault \cap {"register", "spurious"} # {})
    /\ [](epc \in {"exited", "fault", "returned"} => endfault # {})
    /\ [](epc = "done" /\ endfault = {} =>
            /\ \A t \in DOMAIN get_slow_endpoints : get_slow_endpoints[t]
            /\ \A t \in DOMAIN get_fast_endpoints : get_fast_endpoints[t])
    /\ [](\A t \in served : scb[t])
=============================================================================
