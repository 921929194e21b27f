----------------------------- MODULE UkernCalls -----------------------------
(* libcomsg's side of a microkernel call: each thread of a process has its    *)
(* own worker (scb) for each function, found on first use; the process caches *)
(* the services.  Threads initialise lazily and concurrently, without a lock. *)
(* The process has called coproc_init in its main thread.  Calls of nsd and   *)
(* coserviced made on the way are one step each.                              *)
EXTENDS ScbIndex, Coservice, UkernWrappers, Sequences

CONSTANTS main, Calls,      \* the wrappers the threads call
          MaxCalls,         \* bound: calls of all threads and providers
          MaxDepth          \* bound: nested initialisations followed

Outcomes == {"args", "failed", "refused", "oob"}
ASSUME CallsAssumption == Calls \subseteq [func : STRING, ends : SUBSET Outcomes, then : STRING]

VARIABLES targets, global,  \* worker per thread and function, and the fallback
          ukernel_services, \* functions whose service is cached
          pc, loc,          \* per thread: step, locals
          late,             \* history: threads that began once all was cached
          exited,           \* why and in which thread the process ended
          calls

callVars == <<targets, global, ukernel_services, pc, loc, late, exited, calls>>
vars == <<scbVars, svcVars, callVars>>

NULL == -1
Core == {"CODISCOVER", "COSELECT", "CODISCOVER2"}
Funcs == Core \cup {c.func : c \in Calls} \cup ({c.then : c \in Calls} \ {"none"})
NoLocals == [call |-> <<>>, func |-> "none", todo |-> <<>>, depth |-> 0, tries |-> 0]

\* coproc_init gives the main thread, and the fallback, three workers.
coproc_init == [f \in Funcs |-> IF f \in {"COINSERT", "CODISCOVER", "COSELECT"} THEN 0 ELSE NULL]

Init == /\ ScbInit /\ ServiceInit(nworkers)
        /\ targets = [t \in Threads |-> IF t = main THEN coproc_init ELSE [f \in Funcs |-> NULL]]
        /\ global = coproc_init
        /\ ukernel_services = {}
        /\ pc = [t \in Threads |-> "idle"] /\ loc = [t \in Threads |-> NoLocals]
        /\ late = {} /\ exited = <<>> /\ calls = 0

Running(t, at) == exited = <<>> /\ coserviced = "up" /\ pc[t] = at
Goto(t, to) == pc' = [pc EXCEPT ![t] = to]
Local(t, l) == loc' = [loc EXCEPT ![t] = l]
Exit(t, why) == exited' = <<t, why>> /\ UNCHANGED <<pc, loc>>
Quiet == UNCHANGED <<svcVars, late, calls>>

\* set_cocall_target: the thread's own set, and the fallback if it has none.
set_ukern_target(t, f, scb) ==
    /\ targets' = [targets EXCEPT ![t][f] = scb]
    /\ global' = [global EXCEPT ![f] = IF @ = NULL THEN scb ELSE @]

should_init_thread(t) == \E f \in Core : targets[t][f] = NULL \/ f \notin ukernel_services

\* Where ukern_call(func) begins, and what is left to do in the frames above.
ukern_call(t, f, rest) ==
    IF targets[t][f] # NULL THEN <<"try", rest>>
    ELSE <<IF should_init_thread(t) THEN "init" ELSE "get", <<<<f, "load">>>> \o rest>>

Begin(t) == \E c \in Calls :
    /\ Running(t, "idle") /\ calls < MaxCalls /\ calls' = calls + 1
    /\ late' = IF Core \subseteq ukernel_services /\ global["CODISCOVER2"] # NULL
               THEN late \cup {t} ELSE late
    /\ \/ /\ Goto(t, ukern_call(t, c.func, <<>>)[1])
          /\ Local(t, [NoLocals EXCEPT !.call = <<c>>, !.func = c.func,
                                       !.todo = ukern_call(t, c.func, <<>>)[2]])
          /\ UNCHANGED exited
       \/ "args" \in c.ends /\ Exit(t, "args")
    /\ UNCHANGED <<scbVars, svcVars, targets, global, ukernel_services>>

\* init_new_thread_calls: CODISCOVER from the fallback (twice; COSELECT is not
\* set), CODISCOVER2 from the fallback if there is one, else from its service,
\* then all three again through their services.
\* Mutant: the fallback of CODISCOVER2 is not used.
InitNoFallback(t) ==
    /\ Running(t, "init") /\ loc[t].depth < MaxDepth
    /\ set_ukern_target(t, "CODISCOVER", global["CODISCOVER"])
    /\ Goto(t, IF targets[t]["CODISCOVER2"] = NULL THEN "init2" ELSE "get")
    /\ Local(t, [loc[t] EXCEPT !.depth = @ + 1, !.todo =
         (IF targets[t]["CODISCOVER2"] = NULL THEN <<<<"CODISCOVER2", "load">>>> ELSE <<>>)
           \o <<<<"CODISCOVER", "load">>, <<"COSELECT", "load">>>> \o @])
    /\ UNCHANGED <<scbVars, exited, ukernel_services>> /\ Quiet

init_new_thread_calls(t) ==
    /\ Running(t, "init") /\ loc[t].depth < MaxDepth
    /\ LET own == IF targets[t]["CODISCOVER"] = NULL
                  THEN [targets[t] EXCEPT !["CODISCOVER"] = global["CODISCOVER"]] ELSE targets[t]
           new == own["CODISCOVER2"] = NULL
       IN /\ targets' = [targets EXCEPT ![t] =
                IF new THEN [own EXCEPT !["CODISCOVER2"] = global["CODISCOVER2"]] ELSE own]
          /\ Goto(t, IF new /\ global["CODISCOVER2"] = NULL THEN "init2" ELSE "get")
          /\ Local(t, [loc[t] EXCEPT !.depth = @ + 1, !.todo =
               (IF new THEN <<<<"CODISCOVER2", "load">>>> ELSE <<>>)
                 \o <<<<"CODISCOVER", "load">>, <<"COSELECT", "load">>>> \o @])
    /\ UNCHANGED <<scbVars, exited, global, ukernel_services>> /\ Quiet

\* No worker for CODISCOVER2 anywhere, so its service should not be cached.
InitCheck(t) ==
    /\ Running(t, "init2")
    /\ \/ "CODISCOVER2" \in ukernel_services /\ Exit(t, "no scb")
       \/ "CODISCOVER2" \notin ukernel_services /\ Goto(t, "get") /\ UNCHANGED <<loc, exited>>
    /\ UNCHANGED <<scbVars, targets, global, ukernel_services>> /\ Quiet

\* get_ukernel_service of the first function to do: look in the cache.
get_ukernel_service(t) == LET f == Head(loc[t].todo)[1] IN
    /\ Running(t, "get")
    /\ \/ /\ f \notin ukernel_services \/ Head(loc[t].todo)[2] = "select"
          /\ Goto(t, "select") /\ UNCHANGED <<loc, exited>>
       \/ /\ f \in ukernel_services /\ Head(loc[t].todo)[2] = "load"
          /\ \/ targets[t]["CODISCOVER2"] = NULL /\ Exit(t, "not initialized")
             \/ targets[t]["CODISCOVER2"] # NULL /\ Goto(t, "codiscover2") /\ UNCHANGED <<loc, exited>>
    /\ UNCHANGED <<scbVars, targets, global, ukernel_services>> /\ Quiet

\* Not cached: coselect, for which this thread may have to initialise first;
\* then the service is cached and codiscover asked for a worker.
SelectService(t) == LET f == Head(loc[t].todo)[1] IN
    /\ Running(t, "select")
    /\ \/ /\ targets[t]["COSELECT"] = NULL
          /\ Goto(t, "init")
          /\ Local(t, [loc[t] EXCEPT !.todo =
               <<<<"COSELECT", "load">>, <<f, "select">>>> \o Tail(@)])
          /\ UNCHANGED <<exited, ukernel_services>>
       \/ /\ targets[t]["COSELECT"] # NULL
          /\ ukernel_services' = ukernel_services \cup {f}
          /\ Goto(t, "codiscover") /\ UNCHANGED <<loc, exited>>
       \/ /\ targets[t]["COSELECT"] # NULL /\ "failed" \in coselect.ends
          /\ Exit(t, "failed") /\ UNCHANGED ukernel_services
    /\ UNCHANGED <<scbVars, targets, global>> /\ Quiet

\* coserviced's answer: the only worker, or the next of several.
Counted == {"COPOLL"}
get_coservice_scb(t) == LET f == IF loc[t].todo = <<>> THEN loc[t].func ELSE Head(loc[t].todo)[1]
                            rest == IF loc[t].todo = <<>> THEN <<>> ELSE Tail(loc[t].todo) IN
    /\ \/ /\ f \in Counted /\ UNCHANGED <<targets, global, pc, loc>>
          /\ Enter(t) \/ FetchAdd(t) \/ Reset(t)
       \/ /\ f \notin Counted \/ step[t] = "got"
          /\ IF f \in Counted THEN Leave(t) ELSE UNCHANGED scbVars
          /\ set_ukern_target(t, f, IF f \in Counted THEN idx[t] ELSE 0)
          /\ Goto(t, IF rest = <<>> THEN "try" ELSE "get")
          /\ Local(t, [loc[t] EXCEPT !.todo = rest])
    /\ UNCHANGED <<exited, ukernel_services>> /\ Quiet

discover_coservice(t) == Running(t, "codiscover") /\ get_coservice_scb(t)
discover_coservice2(t) == Running(t, "codiscover2") /\ get_coservice_scb(t)

\* The wrapper returns, or ends the process if that is what it does.
Finish(t, outcome) ==
    IF outcome \in loc[t].call[1].ends \cup {"wrong path"} THEN Exit(t, outcome)
    ELSE Goto(t, "idle") /\ Local(t, NoLocals) /\ UNCHANGED exited

\* call_ukern_service: a worker serving someone else answers EBUSY.  Each time
\* another is asked for; the second one is set as the target but not called.
call_ukern_service(t) ==
    /\ Running(t, "try")
    /\ \/ loc[t].tries < 2 /\ Goto(t, "reply") /\ UNCHANGED <<loc, exited>>
       \/ /\ loc[t].tries < 2 /\ UNCHANGED exited
          /\ Goto(t, IF loc[t].func \in ukernel_services THEN "refresh" ELSE "get")
          /\ Local(t, [loc[t] EXCEPT !.tries = @ + 1, !.todo =
               IF loc[t].func \in ukernel_services THEN @ ELSE <<<<loc[t].func, "load">>>>])
       \/ loc[t].tries = 2 /\ Finish(t, "failed")
    /\ UNCHANGED <<scbVars, targets, global, ukernel_services>> /\ Quiet

\* refresh_target_scb by codiscover2, which may itself have to initialise.
refresh_target_scb(t) ==
    /\ Running(t, "refresh")
    /\ \/ targets[t]["CODISCOVER2"] # NULL /\ Goto(t, "codiscover2") /\ UNCHANGED loc
       \/ /\ targets[t]["CODISCOVER2"] = NULL /\ Goto(t, "init")
          /\ Local(t, [loc[t] EXCEPT !.todo =
               <<<<"CODISCOVER2", "load">>, <<loc[t].func, "load">>>> \o @])
    /\ UNCHANGED <<scbVars, exited, targets, global, ukernel_services>> /\ Quiet

\* Which way a service is called is known from its flags, once it is cached.
SlowServices == {"SLOPOLL"}
is_slocall(f) == f \in ukernel_services /\ f \in SlowServices

\* What the caller may get: "failed" is any error but EBUSY, "wrong path" a call
\* of a worker that accepts the other way.
Answers(t, f, slow) == IF targets[t][f] = NULL THEN {"failed"}
                       ELSE IF slow # (f \in SlowServices) THEN {"wrong path"}
                       ELSE {"ok", "refused", "oob", "failed"}
targeted_cocall(t, f) == Answers(t, f, FALSE)
targeted_slocall(t, f) == Answers(t, f, TRUE)

call_ukern_target(t) == LET f == loc[t].func IN
    /\ Running(t, "reply")
    /\ \E outcome \in IF is_slocall(f) THEN targeted_slocall(t, f) ELSE targeted_cocall(t, f) :
       \/ /\ outcome = "refused" /\ loc[t].call[1].then # "none"
          /\ LET c == loc[t].call[1]  u == ukern_call(t, c.then, <<>>) IN
             /\ Goto(t, u[1])
             /\ Local(t, [NoLocals EXCEPT !.func = c.then, !.todo = u[2],
                                          !.call = <<[c EXCEPT !.then = "none"]>>])
          /\ UNCHANGED exited
       \/ Finish(t, outcome)
    /\ UNCHANGED <<scbVars, targets, global, ukernel_services>> /\ Quiet

ClientNext == \E t \in Threads :
    \/ Begin(t) \/ init_new_thread_calls(t) \/ InitCheck(t) \/ get_ukernel_service(t)
    \/ SelectService(t) \/ discover_coservice(t) \/ discover_coservice2(t)
    \/ call_ukern_service(t) \/ refresh_target_scb(t) \/ call_ukern_target(t)

Next == \/ ClientNext
        \/ /\ exited = <<>> /\ ProviderNext
           /\ calls' = calls + Cardinality({p \in Providers : ppc[p] = "idle" /\ ppc'[p] # "idle"})
           /\ calls' <= MaxCalls
           /\ UNCHANGED <<scbVars, targets, global, ukernel_services, pc, loc, late, exited>>

Spec == Init /\ [][Next]_vars

-----------------------------------------------------------------------------
\* Once one thread has cached the three core services and found a worker for
\* CODISCOVER2, a thread that makes its first call initialises exactly once,
\* without re-entering init_new_thread_calls (ukern_calls.c 161-162 set
\* CODISCOVER twice and COSELECT never), and does not end the process with one
\* of its consistency checks (lines 112 and 166).  No thread calls a worker of
\* a slow service the fast way or the other way round.
LateThreadsAreSafe ==
    /\ \A t \in late : loc[t].depth <= 1
    /\ exited # <<>> /\ exited[1] \in late =>
         exited[2] \in Outcomes
    /\ exited # <<>> => exited[2] # "wrong path"
=============================================================================
