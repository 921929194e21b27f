------------------------------ MODULE Startup ------------------------------
(* coprocd starts the microkernel's daemons one after the other and then      *)
(* admits users.  nsd and coserviced need each other: nsd waits inside        *)
(* coprocd until coserviced, started meanwhile, has delivered codiscover.     *)
(* Daemons may die; condition variables may wake up for nothing.              *)
EXTENDS Integers, Sequences, FiniteSets

CONSTANT MaxDeaths          \* bound: daemons that die by themselves

Order == <<"nsd", "coserviced", "coeventd", "ipcd">>
Daemons == {Order[j] : j \in 1 .. Len(Order)}

\* The services of each daemon's endpoint lists; ipcd's last one is slow.
services == [nsd |-> 6, coserviced |-> 4, coeventd |-> 3, ipcd |-> 6 + 1]

VARIABLES cpc, i,           \* coprocd's main thread and the daemon it starts
          status, up,       \* status as coprocd sees it; daemons that live
          reaped, handler,  \* dead daemons waited for; the SIGCHLD handler
          blocked,          \* coprocd's threads that block SIGCHLD
          dpc, capv,        \* per daemon: step; the capabilities handed to it
          root_ns, codiscover_scb, coproc_inited, ukern_inited,
          wait,             \* nsd's wait in nsd_setup: "no", "waiting", "woken"
          got,              \* nsd was given codiscover
          inserted,         \* services each daemon has in the root namespace
          user,             \* the answer to the last coproc_init of a user
          exited, deaths

startVars == <<cpc, i, status, up, reaped, handler, blocked, dpc, capv, root_ns, codiscover_scb,
               coproc_inited, ukern_inited, wait, got, inserted, user, exited, deaths>>

StartupInit ==
    /\ cpc = "begin" /\ i = 1 /\ blocked = {}
    /\ status = [d \in Daemons |-> "PENDING"] /\ up = {} /\ reaped = {} /\ handler = "none"
    /\ dpc = [d \in Daemons |-> "off"] /\ capv = [d \in Daemons |-> <<>>]
    /\ root_ns = FALSE /\ codiscover_scb = FALSE /\ coproc_inited = FALSE /\ ukern_inited = FALSE
    /\ wait = "no" /\ got = FALSE /\ inserted = [d \in Daemons |-> 0] /\ user = "none" /\ exited = "no" /\ deaths = 0

Dead == {d \in Daemons : dpc[d] = "dead"}
Started(n) == {Order[j] : j \in 1 .. n}

\* check_core: coprocd waits for each daemon started; one that died ends it.
check_core(n) == Dead \cap Started(n) = {}

\* The workers that coprocd runs for each daemon's start-up, and the
\* capabilities its get_capv function appends, with the room declared for them.
setup_info ==
    LET core == <<"root_ns", "codiscover", "coinsert", "coselect">> IN
    [nsd        |-> [setup |-> <<"coproc_init">>, done |-> <<"coproc_init_done">>,
                     capv |-> <<>>, n_caps |-> 0],
     coserviced |-> [setup |-> <<"coproc_init">>, done |-> <<>>,
                     capv |-> <<"root_ns", "coinsert", "coselect">>, n_caps |-> 3],
     coeventd   |-> [setup |-> <<>>, done |-> <<"coproc_init_done">>, capv |-> core, n_caps |-> 4],
     ipcd       |-> [setup |-> <<>>, done |-> <<"coproc_init_done">>, capv |-> core, n_caps |-> 4]]

\* A vector with room for maxlen entries and a NULL.  The appends of one
\* supplier go together: beyond the room one of them fails an assertion.
capvec_allocate(maxlen) == [length |-> maxlen + 1, capv |-> <<>>, ok |-> TRUE]
capvec_append(v, caps) == [v EXCEPT !.capv = @ \o caps,
                                    !.ok = @ /\ Len(v.capv) + Len(caps) < v.length]
capvec_finalize(v) == [v EXCEPT !.ok = @ /\ Len(v.capv) + 1 <= v.length]

\* Room for the set-up worker, the completion worker and the rest.
build_daemon_capvec(d) == LET info == setup_info[d] IN
    capvec_finalize(capvec_append(capvec_append(capvec_append(
        capvec_allocate(info.n_caps + 2), info.setup), info.done), info.capv))

\* What each daemon's process_capvec takes the entries for.
nsd_process_capvec == <<"coproc_init", "coproc_init_done">>
coserviced_process_capvec == <<"coproc_init", "root_ns", "coinsert", "coselect">>
coeventd_process_capvec == <<"coproc_init_done", "root_ns", "codiscover", "coinsert", "coselect">>
ipcd_process_capvec == <<"coproc_init_done", "root_ns", "codiscover", "coinsert", "coselect">>
process_capvec == [nsd |-> nsd_process_capvec, coserviced |-> coserviced_process_capvec,
                   coeventd |-> coeventd_process_capvec, ipcd |-> ipcd_process_capvec]

\* What get_capv asserts.
get_capv_asserts(d) ==
    /\ d # "nsd" => root_ns
    /\ d \in {"coeventd", "ipcd"} => coproc_inited /\ codiscover_scb

\* The workers of the daemon's start-up; one that does not start leaves a NULL
\* that is followed at once.
spawn_daemon_initializer(d) == IF setup_info[d].setup \o setup_info[d].done = <<>> THEN {"ok"}
                               ELSE {"ok", "fault"}

\* The process, with its capability vector; rfork may fail.
spawn_daemon_proc(d) == IF get_capv_asserts(d) /\ build_daemon_capvec(d).ok
                        THEN {"ok", "unavailable"} ELSE {"assert"}

\* The threads of coprocd: workers inherit the mask of the main thread, which
\* creates them.  Only the main thread may change the handler.
Threads == {"main"} \cup (IF up \cup Dead = {} THEN {} ELSE {"workers"})
is_main_thread(t) == t = "main"
set_sigmask == blocked \cup {"main"}
clear_sigmask == blocked \ {"main"}
set_sigchld_handler(t, func) ==
    IF is_main_thread(t) THEN handler' = func /\ UNCHANGED exited
    ELSE exited' = "not main" /\ UNCHANGED handler

\* SIGCHLD is blocked before any thread or daemon is made.
init_microkernel ==
    /\ cpc = "begin" /\ exited = "no" /\ cpc' = "spawn"
    /\ set_sigchld_handler("main", "daemon_died") /\ blocked' = set_sigmask
    /\ UNCHANGED <<i, status, up, reaped, dpc, capv, root_ns, codiscover_scb, coproc_inited,
                   ukern_inited, wait, got, inserted, user, deaths>>

\* init_daemon: set-up workers, capability vector, process.
init_daemon ==
    /\ cpc = "spawn" /\ exited = "no"
    /\ LET d == Order[i] IN
       IF ~check_core(i - 1) THEN exited' = "died" /\ UNCHANGED <<cpc, status, up, dpc, capv>>
       ELSE /\ status' = [status EXCEPT ![d] = "STARTING"]
            /\ \E worker \in spawn_daemon_initializer(d), proc \in spawn_daemon_proc(d) :
               IF worker = "ok" /\ proc = "ok"
               THEN /\ capv' = [capv EXCEPT ![d] = build_daemon_capvec(d).capv]
                    /\ up' = up \cup {d} /\ dpc' = [dpc EXCEPT ![d] = "start"]
                    /\ cpc' = "wait" /\ UNCHANGED exited
               ELSE /\ exited' = IF worker = "ok" THEN proc ELSE worker
                    /\ UNCHANGED <<cpc, up, dpc, capv>>
    /\ blocked' = blocked \cup (IF "main" \in blocked THEN {"workers"} ELSE {})
    /\ UNCHANGED <<i, reaped, handler, root_ns, codiscover_scb, coproc_inited, ukern_inited,
                   wait, got, inserted, user, deaths>>

\* Mutant: the next daemon is started at once.
init_core_async ==
    /\ cpc = "wait" /\ exited = "no"
    /\ IF i < Len(Order) THEN cpc' = "spawn" /\ i' = i + 1 ELSE cpc' = "worker" /\ UNCHANGED i
    /\ UNCHANGED <<exited, status, up, reaped, handler, blocked, dpc, capv, root_ns, codiscover_scb,
                   coproc_inited, ukern_inited, wait, got, inserted, user, deaths>>

\* init_core waits for each daemon (all are SYNCHRONOUS) to be CONTINUING or
\* RUNNING, looking for dead ones in between.
init_core ==
    /\ cpc = "wait" /\ exited = "no"
    /\ \/ /\ status[Order[i]] \in {"CONTINUING", "RUNNING"} /\ UNCHANGED exited
          /\ IF i < Len(Order) THEN cpc' = "spawn" /\ i' = i + 1 ELSE cpc' = "worker" /\ UNCHANGED i
       \/ /\ status[Order[i]] \notin {"CONTINUING", "RUNNING"} /\ ~check_core(i)
          /\ exited' = "died" /\ UNCHANGED <<cpc, i>>
    /\ UNCHANGED <<status, up, reaped, handler, blocked, dpc, capv, root_ns, codiscover_scb,
                   coproc_inited, ukern_inited, wait, got, inserted, user, deaths>>

\* The worker for users is started, SIGCHLD unblocked, the run loop entered.
FinishMicrokernel ==
    /\ cpc = "worker" /\ exited = "no" /\ cpc' = "loop" /\ blocked' = clear_sigmask
    /\ UNCHANGED <<i, status, up, reaped, handler, dpc, capv, root_ns, codiscover_scb,
                   coproc_inited, ukern_inited, wait, got, inserted, user, exited, deaths>>

\* kill_module looks for modules that are RUNNING; none ever is, since nothing
\* sets a module's status.
module_status == "PENDING"
kill_module == IF module_status = "RUNNING" THEN Daemons ELSE {}

\* SIGCHLD goes to any thread that does not block it: the main one, once it is
\* in the run loop.
runloop(t) == exited = "no" /\ t \in Threads \ blocked

\* The first death halts the microkernel: the core daemons' fail_act is HCF.
halt_and_catch_fire(t, cause) ==
    /\ set_sigchld_handler(t, "just_reap") /\ up' = up \ (kill_module \ {cause})
    /\ status' = [e \in Daemons |-> IF e = cause THEN "DIED"
                                    ELSE IF e \in kill_module THEN "KILLED" ELSE status[e]]

daemon_died == \E t \in Threads, d \in Dead \ reaped :
    /\ runloop(t) /\ handler = "daemon_died"
    /\ reaped' = reaped \cup {d} /\ halt_and_catch_fire(t, d)
    /\ UNCHANGED <<cpc, i, blocked, dpc, capv, root_ns, codiscover_scb, coproc_inited,
                   ukern_inited, wait, got, inserted, user, deaths>>

\* Later deaths are only waited for.
just_reap == \E t \in Threads, d \in Dead \ reaped :
    /\ runloop(t) /\ handler = "just_reap"
    /\ reaped' = reaped \cup {d}
    /\ UNCHANGED <<cpc, i, status, up, handler, blocked, dpc, capv, root_ns, codiscover_scb,
                   coproc_inited, ukern_inited, wait, got, inserted, user, exited, deaths>>

coproc_user_init ==
    /\ cpc = "loop" /\ exited = "no" /\ user # "ok"
    /\ user' = IF ukern_inited THEN "ok" ELSE "again"
    /\ UNCHANGED <<cpc, i, status, up, reaped, handler, blocked, dpc, capv, root_ns, codiscover_scb,
                   coproc_inited, ukern_inited, wait, got, inserted, exited, deaths>>

-----------------------------------------------------------------------------
Step(d, from, to) == exited = "no" /\ dpc[d] = from /\ dpc' = [dpc EXCEPT ![d] = to]
Coprocd == UNCHANGED <<cpc, i, reaped, handler, blocked, capv, user, exited>>
Dies(d) == dpc' = [dpc EXCEPT ![d] = "dead"] /\ up' = up \ {d}

\* nsd's init_services: its names are reserved in the root namespace before
\* anyone knows of it.
init_service ==
    /\ Step("nsd", "start", "reserved")
    /\ UNCHANGED <<status, up, root_ns, codiscover_scb, coproc_inited, ukern_inited, wait, got,
                   inserted, deaths>> /\ Coprocd

\* nsd_setup, run for nsd in coprocd under ukernel_init_lock.
nsd_setup ==
    /\ Step("nsd", "reserved", "setup")
    /\ codiscover_scb' = FALSE /\ root_ns' = TRUE
    /\ status' = [status EXCEPT !["nsd"] = "CONTINUING"]
    /\ wait' = "waiting"
    /\ UNCHANGED <<up, coproc_inited, ukern_inited, got, inserted, deaths>> /\ Coprocd

\* The wait has no predicate: it also returns when nothing was signalled.
SpuriousWakeup ==
    /\ exited = "no" /\ wait = "waiting" /\ wait' = "woken"
    /\ UNCHANGED <<dpc, status, up, root_ns, codiscover_scb, coproc_inited, ukern_inited, got,
                   inserted, deaths>> /\ Coprocd

NsdWoken ==
    /\ Step("nsd", "setup", "lookup") /\ wait = "woken"
    /\ wait' = "no" /\ got' = codiscover_scb
    /\ UNCHANGED <<status, up, root_ns, codiscover_scb, coproc_inited, ukern_inited, inserted,
                   deaths>> /\ Coprocd

\* startup_dance: once coserviced's last service is in the root namespace, nsd
\* asks coserviced for workers; without codiscover, or coserviced, it dies.
startup_dance ==
    /\ exited = "no" /\ dpc["nsd"] = "lookup" /\ inserted["coserviced"] = services["coserviced"]
    /\ IF got /\ "coserviced" \in up THEN dpc' = [dpc EXCEPT !["nsd"] = "provide"] /\ UNCHANGED up
       ELSE Dies("nsd")
    /\ UNCHANGED <<status, root_ns, codiscover_scb, coproc_inited, ukern_inited, wait, got,
                   inserted, deaths>> /\ Coprocd

\* One service more of d is in the root namespace: ready after the last.
Provided(d, next) ==
    /\ inserted' = [inserted EXCEPT ![d] = @ + 1]
    /\ dpc' = [dpc EXCEPT ![d] = IF inserted[d] + 1 = services[d] THEN "done" ELSE next]

\* coserviced provides the service, whose reservation nsd itself fills in.
start_fast_service ==
    /\ exited = "no" /\ dpc["nsd"] = "provide"
    /\ IF "coserviced" \in up THEN Provided("nsd", "provide") /\ UNCHANGED up
       ELSE Dies("nsd") /\ UNCHANGED inserted
    /\ UNCHANGED <<status, root_ns, codiscover_scb, coproc_inited, ukern_inited, wait, got,
                   deaths>> /\ Coprocd

nsd_setup_complete ==
    /\ Step("nsd", "done", "main")
    /\ coproc_inited' = TRUE
    /\ status' = [status EXCEPT !["nsd"] = "RUNNING", !["coserviced"] = "RUNNING"]
    /\ UNCHANGED <<up, root_ns, codiscover_scb, ukern_inited, wait, got, inserted, deaths>> /\ Coprocd

\* coserviced makes its services itself and inserts them at nsd.
init_own_service ==
    /\ exited = "no" /\ dpc["coserviced"] = "start"
    /\ IF "nsd" \in up THEN Provided("coserviced", "start") /\ UNCHANGED up
       ELSE Dies("coserviced") /\ UNCHANGED inserted
    /\ UNCHANGED <<status, root_ns, codiscover_scb, coproc_inited, ukern_inited, wait, got,
                   deaths>> /\ Coprocd

\* Mutant: coserviced does not signal.
coserviced_setup_silent ==
    /\ Step("coserviced", "done", "main") /\ root_ns
    /\ codiscover_scb' = TRUE
    /\ UNCHANGED <<status, up, root_ns, coproc_inited, ukern_inited, wait, got, inserted,
                   deaths>> /\ Coprocd

\* It waits for the root namespace, which is there whenever coserviced is.
coserviced_setup ==
    /\ Step("coserviced", "done", "main") /\ root_ns
    /\ codiscover_scb' = TRUE
    /\ wait' = IF wait = "waiting" THEN "woken" ELSE wait
    /\ UNCHANGED <<status, up, root_ns, coproc_inited, ukern_inited, got, inserted, deaths>>
    /\ Coprocd

\* coeventd and ipcd look up coprovide at nsd and coserviced; then each of their
\* services is provided by coserviced and inserted at nsd.
Attempt(d, from, to, callees) ==
    /\ exited = "no" /\ dpc[d] = from
    /\ IF callees \subseteq up THEN dpc' = [dpc EXCEPT ![d] = to] /\ UNCHANGED up ELSE Dies(d)
    /\ UNCHANGED <<status, root_ns, codiscover_scb, coproc_inited, ukern_inited, wait, got,
                   inserted, deaths>> /\ Coprocd

coeventd_startup == Attempt("coeventd", "start", "provide", {"nsd", "coserviced"})
ipcd_startup == Attempt("ipcd", "start", "provide", {"nsd", "coserviced"})

Insert(d) ==
    /\ exited = "no" /\ dpc[d] = "insert"
    /\ IF "nsd" \in up THEN Provided(d, "provide") /\ UNCHANGED up
       ELSE Dies(d) /\ UNCHANGED inserted
    /\ UNCHANGED <<status, root_ns, codiscover_scb, coproc_inited, ukern_inited, wait, got,
                   deaths>> /\ Coprocd

Slowest(d) == inserted[d] + 1 = services[d]
init_event_service == Attempt("coeventd", "provide", "insert", {"coserviced"}) \/ Insert("coeventd")
init_fast_service == /\ ~Slowest("ipcd")
                     /\ Attempt("ipcd", "provide", "insert", {"coserviced"}) \/ Insert("ipcd")
init_slow_service == /\ Slowest("ipcd")
                     /\ Attempt("ipcd", "provide", "insert", {"coserviced"}) \/ Insert("ipcd")

coeventd_setup_complete ==
    /\ Step("coeventd", "done", "main")
    /\ status' = [status EXCEPT !["coeventd"] = "RUNNING"]
    /\ UNCHANGED <<up, root_ns, codiscover_scb, coproc_inited, ukern_inited, wait, got, inserted,
                   deaths>> /\ Coprocd

ipcd_setup_complete ==
    /\ Step("ipcd", "done", "main")
    /\ ukern_inited' = TRUE
    /\ status' = [status EXCEPT !["ipcd"] = "RUNNING"]
    /\ UNCHANGED <<up, root_ns, codiscover_scb, coproc_inited, wait, got, inserted, deaths>>
    /\ Coprocd

Crash == \E d \in up :
    /\ exited = "no" /\ deaths < MaxDeaths /\ deaths' = deaths + 1
    /\ Dies(d)
    /\ UNCHANGED <<status, root_ns, codiscover_scb, coproc_inited, ukern_inited, wait, got,
                   inserted>> /\ Coprocd

StartupProgress ==
    \/ init_microkernel \/ init_daemon \/ init_core \/ FinishMicrokernel \/ daemon_died \/ just_reap
    \/ init_service \/ nsd_setup \/ NsdWoken \/ startup_dance \/ start_fast_service \/ nsd_setup_complete
    \/ init_own_service \/ coserviced_setup
    \/ coeventd_startup \/ init_event_service \/ ipcd_startup \/ init_fast_service \/ init_slow_service
    \/ coeventd_setup_complete \/ ipcd_setup_complete

StartupNext == StartupProgress \/ SpuriousWakeup \/ Crash \/ coproc_user_init

-----------------------------------------------------------------------------
\* No assertion of the start-up code fails, whatever dies or wakes up when, and
\* no thread but the main one takes SIGCHLD; every daemon finds each capability
\* where its structure has it; and a user whose coproc_init succeeds is given
\* every capability, with all the daemons having come up and each of their
\* services in the root namespace (core.c 217-272, monitor.c 131-148).
CapabilitiesReady ==
    /\ exited \notin {"assert", "not main"}
    /\ \A d \in Daemons : capv[d] # <<>> => capv[d] = process_capvec[d]
    /\ user = "ok" => /\ root_ns /\ codiscover_scb
                      /\ \A d \in Daemons : /\ status[d] \in {"RUNNING", "DIED"}
                                         /\ inserted[d] = services[d]

\* Starting up ends: coprocd admits users or gives up, although the waits in
\* nsd_setup and init_core have no timeout; and a daemon's death makes coprocd
\* give up or is recorded by its signal handler.
StartupSettles ==
    /\ <>(cpc = "loop" \/ exited # "no")
    /\ (Dead # {}) ~> (exited # "no" \/ \E d \in Daemons : status[d] = "DIED")
=============================================================================
