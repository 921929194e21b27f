------------------------------ MODULE Coevent ------------------------------
(* coeventd: callbacks run when a process dies.  The table has one event per  *)
(* pid, locked by in_progress (0 free, 1 held, -1 the process is dead); this  *)
(* is the event of one pid, which may be used again by a later process.       *)
(* Workers serve colisten, ccb_register (called by the process itself) and    *)
(* ccb_install; the main thread waits for exits and runs the callbacks.       *)
EXTENDS Integers, Sequences, FiniteSets, Functions

CONSTANTS Workers,
          base_tbl_len,     \* growth of the function table, 4096 in the code
          MaxCalls,         \* bound: calls served
          MaxGen            \* bound: times the pid is used again

ASSUME TableAssumption ==
    base_tbl_len \in Nat \ {0} /\ IsFiniteSet(Workers) /\ base_tbl_len >= Cardinality(Workers)

VARIABLES
  in_progress, inited, callbacks,
  proc,                     \* which process has the pid, and whether it lives
  watch, queued,            \* its kevent is set; its exit is queued
  kq,                       \* the kqueue exists
  idx, tbl_len, dead,       \* the function table; the functions flagged dead
  pc, loc, mpc, mcb,        \* workers; the main thread and its callback
  ended,                    \* why coeventd ended, or "no"
  calls, handle,            \* calls so far; a consumer has the event's handle
  overrun, first,           \* history: the lock was taken by force; a consumer's
                            \* callback was installed before the provider's own
  installed, executed       \* history: calls whose callback is in; has run

lockVars == <<in_progress, inited, callbacks, watch, first>>
funcVars == <<idx, tbl_len, dead>>
envVars == <<proc, queued, kq, mpc, mcb, overrun, executed>>
vars == <<lockVars, funcVars, envVars, pc, loc, ended, calls, handle, installed>>

NoLocals == [op |-> "none", id |-> 0, fresh |-> FALSE, v |-> 0, func |-> 0, next |-> "none"]
provider_death == 0         \* coeventd's own function, the table's first

\* The function table has coeventd's own function in it.
init_cocallback_func_utils == idx = provider_death + 1 /\ tbl_len = base_tbl_len /\ dead = {}

Init == /\ in_progress = 0 /\ inited = FALSE /\ callbacks = <<>>
        /\ proc = [gen |-> 0, live |-> TRUE] /\ watch = FALSE /\ queued = FALSE /\ kq = FALSE
        /\ init_cocallback_func_utils
        /\ pc = [w \in Workers |-> "idle"] /\ loc = [w \in Workers |-> NoLocals]
        /\ mpc = "start" /\ mcb = <<>> /\ ended = "no" /\ calls = 0 /\ handle = FALSE
        /\ overrun = FALSE /\ first = FALSE /\ installed = {} /\ executed = {}

At(w, p) == ended = "no" /\ pc[w] = p
Goto(w, p, l) == pc' = [pc EXCEPT ![w] = p] /\ loc' = [loc EXCEPT ![w] = l]
End(why) == ended' = why /\ UNCHANGED <<pc, loc>>
Return(w) == Goto(w, "idle", NoLocals)

Call(w, op, to) ==
    /\ At(w, "idle") /\ calls < MaxCalls /\ calls' = calls + 1
    /\ Goto(w, to, [NoLocals EXCEPT !.op = op, !.id = calls + 1, !.next = "add"])
    /\ UNCHANGED <<lockVars, funcVars, envVars, ended, handle, installed>>

\* colisten and ccb_register are calls of the process itself.
add_event_listener(w) == proc.live /\ Call(w, "listen", "alloc")
cocallback_register(w) == proc.live /\ Call(w, "register", "alloc")

\* ccb_install needs the handle that a colisten returned, which validate_coevent
\* finds to be in the table.
validate_coevent == handle
install_cocallback(w) == validate_coevent /\ Call(w, "install", "lock")

\* allocate_procdeath_event: a free event or a dead one is taken, a held one
\* gives NULL: colisten refuses, ccb_register uses it and coeventd faults.
allocate_procdeath_event(w) ==
    /\ At(w, "alloc")
    /\ \/ /\ in_progress # 1
          /\ in_progress' = 1
          /\ Goto(w, "init", [loc[w] EXCEPT !.fresh = in_progress = -1 \/ ~inited])
          /\ UNCHANGED ended
       \/ /\ in_progress = 1 /\ UNCHANGED in_progress
          /\ IF loc[w].op = "listen" THEN Return(w) /\ UNCHANGED ended ELSE End("null event")
    /\ UNCHANGED <<inited, callbacks, watch, first, funcVars, envVars, calls, handle, installed>>

\* A fresh event is set up and watched; a process already gone is not.
monitor_proc(w) ==
    /\ At(w, "init")
    /\ IF loc[w].fresh
       THEN /\ inited' = TRUE /\ callbacks' = <<>>
            /\ watch' = (kq /\ proc.live)
            /\ IF kq THEN Goto(w, "publish", loc[w]) /\ UNCHANGED ended ELSE End("no kqueue")
       ELSE Goto(w, "publish", loc[w]) /\ UNCHANGED <<inited, callbacks, watch, ended>>
    /\ UNCHANGED <<in_progress, first, funcVars, envVars, calls, handle, installed>>

Publish(w) ==
    /\ At(w, "publish")
    /\ in_progress' = 0
    /\ IF loc[w].op = "listen" THEN handle' = TRUE /\ Return(w)
                               ELSE Goto(w, "lock", loc[w]) /\ UNCHANGED handle
    /\ UNCHANGED <<inited, callbacks, watch, first, funcVars, envVars, ended, calls, installed>>

\* Mutant: test, then set.
lock_no_test(w) ==
    /\ At(w, "lock") /\ in_progress # -1
    /\ in_progress' = 1 /\ Goto(w, loc[w].next, loc[w])
    /\ UNCHANGED <<inited, callbacks, watch, first, funcVars, envVars, ended, calls, handle, installed>>

\* lock_coevent waits for 0, and for ever if the process is dead.
lock_coevent(w) ==
    /\ At(w, "lock") /\ in_progress = 0
    /\ in_progress' = 1 /\ Goto(w, loc[w].next, loc[w])
    /\ UNCHANGED <<inited, callbacks, watch, first, funcVars, envVars, ended, calls, handle, installed>>

\* A callback is appended.  Beside a main thread that removes the head, the
\* unsynchronised list may lose it.
add_cocallback(w, own) ==
    /\ \/ callbacks' = Append(callbacks, [id |-> loc[w].id, own |-> own, funcs |-> {}])
       \/ mpc \in {"next", "run"} /\ UNCHANGED callbacks
    /\ first' = (first \/ (~own /\ callbacks = <<>>))
    /\ Goto(w, "unlock", [loc[w] EXCEPT !.next = IF own THEN "func" ELSE "none"])

\* For a provider, coeventd's own callback, unless the list has some already.
monitor_provider(w) ==
    \/ callbacks = <<>> /\ add_cocallback(w, TRUE)
    \/ /\ callbacks # <<>>
       /\ Goto(w, "unlock", [loc[w] EXCEPT !.next = "func", !.id = 0])
       /\ UNCHANGED <<callbacks, first>>

Add(w) ==
    /\ At(w, "add")
    /\ IF loc[w].op = "register" THEN monitor_provider(w) ELSE add_cocallback(w, FALSE)
    /\ UNCHANGED <<in_progress, inited, watch, funcVars, envVars, ended, calls, handle, installed>>

\* unlock_coevent asserts that the lock is held and that it still has the value
\* it loaded.
UnlockLoad(w) ==
    /\ At(w, "unlock")
    /\ IF in_progress = 0 THEN End("unlock")
       ELSE Goto(w, "free", [loc[w] EXCEPT !.v = in_progress]) /\ UNCHANGED ended
    /\ UNCHANGED <<lockVars, funcVars, envVars, calls, handle, installed>>

unlock_coevent(w) ==
    /\ At(w, "free")
    /\ IF in_progress # loc[w].v THEN End("unlock") /\ UNCHANGED <<in_progress, installed>>
       ELSE /\ in_progress' = 0 /\ UNCHANGED ended
            /\ installed' = IF loc[w].id = 0 THEN installed ELSE installed \cup {loc[w].id}
            /\ IF loc[w].next = "func" THEN Goto(w, "func", [loc[w] EXCEPT !.id = 0]) ELSE Return(w)
    /\ UNCHANGED <<inited, callbacks, watch, first, funcVars, envVars, calls, handle>>

\* allocate_ccb_func: the next index; one past the end extends the table first.
\* (The loop around it never repeats: its condition is 0.)
allocate_ccb_func(w) ==
    /\ At(w, "func")
    /\ idx' = idx + 1
    /\ Goto(w, IF idx >= tbl_len THEN "extend" ELSE "lock",
            [loc[w] EXCEPT !.func = idx, !.next = "provide"])
    /\ UNCHANGED <<lockVars, tbl_len, dead, envVars, ended, calls, handle, installed>>

\* Mutant: whoever comes late finds the table extended.
extend_if_just_full(w) ==
    /\ At(w, "extend")
    /\ tbl_len' = IF idx > tbl_len + 1 THEN tbl_len ELSE tbl_len + base_tbl_len
    /\ Goto(w, "lock", loc[w])
    /\ UNCHANGED <<lockVars, idx, dead, envVars, ended, calls, handle, installed>>

\* Under table_alloc_lock.
extend_ccb_table(w) ==
    /\ At(w, "extend")
    /\ tbl_len' = IF idx < tbl_len THEN tbl_len ELSE tbl_len + base_tbl_len
    /\ Goto(w, "lock", loc[w])
    /\ UNCHANGED <<lockVars, idx, dead, envVars, ended, calls, handle, installed>>

\* The first callback must be coeventd's own: it holds the provider's functions.
add_func_to_provider(w) ==
    /\ At(w, "provide")
    /\ IF callbacks = <<>> \/ ~Head(callbacks).own THEN End("head") /\ UNCHANGED callbacks
       ELSE /\ callbacks' = [callbacks EXCEPT ![1].funcs = @ \cup {loc[w].func}]
            /\ Goto(w, "unlock", [loc[w] EXCEPT !.next = "none"]) /\ UNCHANGED ended
    /\ UNCHANGED <<in_progress, inited, watch, first, funcVars, envVars, calls, handle, installed>>

Work(w) == \/ allocate_procdeath_event(w) \/ monitor_proc(w) \/ Publish(w) \/ lock_coevent(w)
           \/ Add(w) \/ UnlockLoad(w) \/ unlock_coevent(w)
           \/ allocate_ccb_func(w) \/ extend_ccb_table(w) \/ add_func_to_provider(w)

-----------------------------------------------------------------------------
Main(from, to) == ended = "no" /\ mpc = from /\ mpc' = to
Workers0 == UNCHANGED <<pc, loc, ended, calls, handle, installed>>

\* handle_proc_events starts once the services are published.
init_monitoring ==
    /\ Main("start", "wait") /\ kq' = TRUE
    /\ UNCHANGED <<lockVars, funcVars, proc, queued, mcb, overrun, executed>> /\ Workers0

\* trigger_cocallbacks takes the lock without looking at it.
trigger_cocallbacks ==
    /\ Main("wait", "next") /\ queued
    /\ queued' = FALSE /\ in_progress' = 1
    /\ overrun' = (overrun \/ in_progress = 1)
    /\ UNCHANGED <<inited, callbacks, watch, first, funcVars, proc, kq, mcb, executed>> /\ Workers0

\* Mutant: the last callback is left.
get_next_but_last ==
    /\ \/ /\ in_progress = 1 /\ Len(callbacks) > 1
          /\ Main("next", "run")
          /\ mcb' = <<Head(callbacks)>> /\ callbacks' = Tail(callbacks) /\ UNCHANGED in_progress
       \/ /\ in_progress # 1 \/ Len(callbacks) <= 1
          /\ Main("next", "wait")
          /\ in_progress' = -1 /\ UNCHANGED <<mcb, callbacks>>
    /\ UNCHANGED <<inited, watch, first, funcVars, proc, queued, kq, overrun, executed>> /\ Workers0

\* The drain ends when the list is empty or the lock is no longer held; then
\* the event is marked dead.
get_next_cocallback ==
    /\ \/ /\ in_progress = 1 /\ callbacks # <<>>
          /\ Main("next", "run")
          /\ mcb' = <<Head(callbacks)>> /\ callbacks' = Tail(callbacks) /\ UNCHANGED in_progress
       \/ /\ in_progress # 1 \/ callbacks = <<>>
          /\ Main("next", "wait")
          /\ in_progress' = -1 /\ UNCHANGED <<mcb, callbacks>>
    /\ UNCHANGED <<inited, watch, first, funcVars, proc, queued, kq, overrun, executed>> /\ Workers0

\* coeventd's own callback flags the provider's functions dead.
flag_dead_provider(ccb) == dead' = dead \cup ccb.funcs

\* Any other is a call of its provider, or is left out if that is flagged dead;
\* a call that fails ends coeventd.
execute_cocallback ==
    \/ /\ Main("run", "next")
       /\ executed' = executed \cup {mcb[1].id}
       /\ flag_dead_provider(mcb[1])
       /\ mcb' = <<>>
       /\ UNCHANGED <<lockVars, idx, tbl_len, proc, queued, kq, overrun>> /\ Workers0
    \/ /\ Main("run", "run") /\ ~mcb[1].own /\ ended' = "callback"
       /\ UNCHANGED <<lockVars, funcVars, proc, queued, kq, mcb, overrun, executed, pc, loc, calls,
                      handle, installed>>

Monitor == init_monitoring \/ trigger_cocallbacks \/ get_next_cocallback \/ execute_cocallback

\* The process exits; its pid is used again.
ProcExit == /\ ended = "no" /\ proc.live
            /\ proc' = [proc EXCEPT !.live = FALSE]
            /\ queued' = (queued \/ watch) /\ watch' = FALSE
            /\ UNCHANGED <<in_progress, inited, callbacks, first, funcVars, kq, mpc, mcb,
                           overrun, executed>> /\ Workers0
PidReused == /\ ended = "no" /\ ~proc.live /\ proc.gen < MaxGen
             /\ proc' = [gen |-> proc.gen + 1, live |-> TRUE]
             /\ UNCHANGED <<lockVars, funcVars, queued, kq, mpc, mcb, overrun, executed>> /\ Workers0

Next == \/ \E w \in Workers : \/ add_event_listener(w) \/ cocallback_register(w)
                             \/ install_cocallback(w) \/ Work(w)
        \/ Monitor \/ ProcExit \/ PidReused

Fairness == WF_vars(Monitor) /\ \A w \in Workers : WF_vars(Work(w))
Spec == Init /\ [][Next]_vars /\ Fairness

-----------------------------------------------------------------------------
Holders == {w \in Workers : pc[w] \in {"init", "publish", "add", "unlock", "free", "provide"}}

\* The list of callbacks is worked on by one thread at a time, workers and main
\* thread alike, as long as the main thread did not take the lock from a worker
\* that held it (procdeath.c 155 stores, where the others compare and swap).
OneHolder == ~overrun =>
    Cardinality(Holders) + (IF mpc \in {"next", "run"} THEN 1 ELSE 0) <= 1

\* A callback whose installation returned is still listed, or is being run, or
\* has run: setting the event up again for the next process with the same pid
\* drops none (procdeath_tbl.c 81-87).  Also lost with an overrun lock.
NothingForgotten == ~overrun =>
    installed \subseteq executed \cup {c.id : c \in Range(callbacks) \cup Range(mcb)}

\* coeventd's assertions fail, and it dies, only in these cases: the unlocking
\* ones (coevent_utils.c 87-91) after an overrun lock; the one on the first
\* callback (cocallback_register.c 96) if a consumer's callback was installed
\* before the process registered a function of its own, or the process died.
EndNeedsCause == /\ ended = "unlock" => overrun
                 /\ ended = "head" => first \/ ~proc.live \/ proc.gen > 0

\* Although the index is not taken again after the table was extended, every
\* function stored is within the table.
FuncInTable == \A w \in Workers : pc[w] = "lock" => loc[w].func < tbl_len

\* When the exit of a watched process is queued, the main thread runs every
\* callback in its list and marks the event dead, unless the lock was overrun or
\* coeventd ended.
EveryCallbackRuns ==
    queued ~> ((in_progress = -1 /\ callbacks = <<>>) \/ overrun \/ ended # "no")
=============================================================================
