--------------------------- MODULE CoeventProofs ----------------------------
(* Proofs about Coevent, for any number of workers, calls and uses of the pid *)
(* and any growth of the function table that is at least the number of        *)
(* workers.                                                                   *)
EXTENDS Coevent, FiniteSetTheorems, TLAPS

Callback == [id : Nat, own : BOOLEAN, funcs : SUBSET Nat]
Steps == {"idle", "alloc", "init", "publish", "lock", "add", "unlock", "free",
          "func", "extend", "provide"}
Locals == [op : {"none", "listen", "register", "install"}, id : Nat, fresh : BOOLEAN,
           v : {-1, 0, 1}, func : Nat, next : {"none", "add", "func", "provide"}]

\* Where a worker goes once it has the lock, and once it has released it.
Goes(p, l) == /\ p \in {"alloc", "init", "publish"} => l.next = "add"
              /\ p = "extend" => l.next = "provide"
              /\ p = "lock" => l.next \in {"add", "provide"}
              /\ p \in {"unlock", "free"} => l.next \in {"func", "none"}

WorkerTypes == /\ pc \in [Workers -> Steps] /\ loc \in [Workers -> Locals]
               /\ \A w \in Workers : Goes(pc[w], loc[w])

StateTypes ==
    /\ in_progress \in {-1, 0, 1} /\ callbacks \in Seq(Callback)
    /\ proc \in [gen : Nat, live : BOOLEAN] /\ mcb \in Seq(Callback)
    /\ idx \in Nat /\ tbl_len \in Nat /\ calls \in Nat
    /\ mpc \in {"start", "wait", "next", "run"}
    /\ mcb = <<>> <=> mpc # "run"

TypeInv == WorkerTypes /\ StateTypes

USE DEF At, End, Workers0, Main, lockVars, funcVars, envVars

\* What the workers' updates of their locals give.
LEMMA LocalTypes ==
    ASSUME NEW l \in Locals
    PROVE  /\ NoLocals \in Locals
           /\ \A b \in BOOLEAN : [l EXCEPT !.fresh = b] \in Locals /\ [l EXCEPT !.fresh = b].next = l.next
           /\ \A x \in {-1, 0, 1} : [l EXCEPT !.v = x] \in Locals /\ [l EXCEPT !.v = x].next = l.next
           /\ \A x \in {"none", "add", "func", "provide"} :
                /\ [l EXCEPT !.next = x] \in Locals /\ [l EXCEPT !.next = x].next = x
                /\ [l EXCEPT !.next = x, !.id = 0] \in Locals /\ [l EXCEPT !.next = x, !.id = 0].next = x
           /\ [l EXCEPT !.id = 0] \in Locals
           /\ \A n \in Nat : /\ [l EXCEPT !.func = n, !.next = "provide"] \in Locals
                             /\ [l EXCEPT !.func = n, !.next = "provide"].next = "provide"
           /\ \A x \in {"listen", "register", "install"}, n \in Nat :
                /\ [NoLocals EXCEPT !.op = x, !.id = n, !.next = "add"] \in Locals
                /\ [NoLocals EXCEPT !.op = x, !.id = n, !.next = "add"].next = "add"
  BY Zenon DEF Locals, NoLocals

\* A worker that goes on with well-typed locals keeps the workers' types.
LEMMA WorkerMoves ==
    ASSUME WorkerTypes, NEW w \in Workers, NEW p \in Steps, NEW l \in Locals,
           Goto(w, p, l), Goes(p, l)
    PROVE  WorkerTypes'
  BY Zenon DEF WorkerTypes, Goto

\* The initial states are well-typed.
LEMMA TypeInit == Init => TypeInv
<1> SUFFICES ASSUME Init PROVE TypeInv
  BY Zenon
<1>1. NoLocals \in Locals
  BY Zenon DEF NoLocals, Locals
<1>2. WorkerTypes
  BY <1>1, Zenon DEF Init, WorkerTypes, Steps, Goes
<1>3. StateTypes
  BY TableAssumption DEF Init, init_cocallback_func_utils, StateTypes, provider_death
<1> QED
  BY <1>2, <1>3, Zenon DEF TypeInv

\* Every step of a worker keeps the types of the workers.
LEMMA WorkerTypesStep ==
    ASSUME WorkerTypes, StateTypes, NEW w \in Workers
    PROVE  /\ \A op \in {"listen", "register", "install"}, to \in {"alloc", "lock"} :
                Call(w, op, to) => WorkerTypes'
           /\ Work(w) => WorkerTypes'
<1> DEFINE l == loc[w]
<1>1. l \in Locals /\ Goes(pc[w], l)
  BY Zenon DEF WorkerTypes
<1>2. WorkerTypes /\ UNCHANGED <<pc, loc>> => WorkerTypes'
  BY Zenon DEF WorkerTypes
<1>3. Goes("idle", NoLocals) /\ NoLocals \in Locals
  BY LocalTypes, <1>1, Zenon DEF Goes
<1> USE DEF Return
<1> HIDE DEF l
<1>4. ASSUME NEW op \in {"listen", "register", "install"}, NEW to \in {"alloc", "lock"},
             Call(w, op, to)
      PROVE  WorkerTypes'
  <2> DEFINE m == [NoLocals EXCEPT !.op = op, !.id = calls + 1, !.next = "add"]
  <2>1. calls + 1 \in Nat
    BY DEF StateTypes
  <2>2. m \in Locals /\ m.next = "add"
    BY <1>1, <2>1, Zenon DEF Locals, NoLocals
  <2>3. Goto(w, to, m)
    BY <1>4, Zenon DEF Call
  <2> HIDE DEF m
  <2> QED
    BY <2>2, <2>3, WorkerMoves, Zenon DEF Goes, Steps
<1>5. CASE allocate_procdeath_event(w)
  <2>1. CASE Goto(w, "init", [loc[w] EXCEPT !.fresh = in_progress = -1 \/ ~inited])
    <3>1. PICK b \in BOOLEAN : b = (in_progress = -1 \/ ~inited)
      BY Zenon
    <3>2. Goto(w, "init", [l EXCEPT !.fresh = b]) /\ l.next = "add"
      BY <1>1, <1>5, <2>1, <3>1, Zenon DEF Goes, l, allocate_procdeath_event
    <3>3. [l EXCEPT !.fresh = b] \in Locals /\ [l EXCEPT !.fresh = b].next = l.next
      BY <1>1, Zenon DEF Locals
    <3> QED
      BY <3>2, <3>3, WorkerMoves, Zenon DEF Goes, Steps
  <2> QED
    BY <1>5, <2>1, <1>2, <1>3, WorkerMoves, Zenon DEF allocate_procdeath_event, Steps
<1>6. CASE monitor_proc(w)
  BY <1>6, <1>1, <1>2, WorkerMoves, Zenon DEF monitor_proc, Goes, Steps, l
<1>7. CASE Publish(w)
  BY <1>7, <1>1, <1>3, WorkerMoves, Zenon DEF Publish, Goes, Steps, l
<1>8. CASE lock_coevent(w)
  BY <1>8, <1>1, WorkerMoves, Zenon DEF lock_coevent, Goes, Steps, l
<1>9. CASE Add(w)
  <2>1. \/ Goto(w, "unlock", [l EXCEPT !.next = "func"])
        \/ Goto(w, "unlock", [l EXCEPT !.next = "none"])
        \/ Goto(w, "unlock", [l EXCEPT !.next = "func", !.id = 0])
    BY <1>9, Zenon DEF Add, monitor_provider, add_cocallback, l
  <2>2. /\ [l EXCEPT !.next = "func"] \in Locals /\ [l EXCEPT !.next = "func"].next = "func"
        /\ [l EXCEPT !.next = "none"] \in Locals /\ [l EXCEPT !.next = "none"].next = "none"
        /\ [l EXCEPT !.next = "func", !.id = 0] \in Locals
        /\ [l EXCEPT !.next = "func", !.id = 0].next = "func"
    BY <1>1, LocalTypes, Zenon
  <2> QED
    BY <2>1, <2>2, WorkerMoves, Zenon DEF Goes, Steps
<1>10. CASE UnlockLoad(w)
  <2>1. CASE Goto(w, "free", [loc[w] EXCEPT !.v = in_progress])
    <3>1. [l EXCEPT !.v = in_progress] \in Locals /\ [l EXCEPT !.v = in_progress].next = l.next
      <4>1. in_progress \in {-1, 0, 1}
        BY Zenon DEF StateTypes
      <4> QED  BY <1>1, <4>1, Zenon DEF Locals
    <3> QED
      BY <1>10, <1>1, <2>1, <3>1, WorkerMoves, Zenon DEF UnlockLoad, Goes, Steps, l
  <2> QED
    BY <1>10, <2>1, <1>2, Zenon DEF UnlockLoad
<1>11. CASE unlock_coevent(w)
  <2>1. [l EXCEPT !.id = 0] \in Locals
    BY <1>1, LocalTypes, Zenon
  <2> QED
    BY <1>11, <2>1, <1>2, <1>3, WorkerMoves, Zenon DEF unlock_coevent, Goes, Steps, l
<1>12. CASE allocate_ccb_func(w)
  <2> DEFINE m == [l EXCEPT !.func = idx, !.next = "provide"]
  <2>1. Goto(w, "extend", m) \/ Goto(w, "lock", m)
    BY <1>12, Zenon DEF allocate_ccb_func, l
  <2>2. idx \in Nat
    BY Zenon DEF StateTypes
  <2>3. m \in Locals /\ m.next = "provide"
    BY <1>1, <2>2, Zenon DEF Locals
  <2> HIDE DEF m
  <2> QED
    BY <2>1, <2>3, WorkerMoves, Zenon DEF Goes, Steps
<1>13. CASE extend_ccb_table(w)
  BY <1>13, <1>1, WorkerMoves, Zenon DEF extend_ccb_table, Goes, Steps, l
<1>14. CASE add_func_to_provider(w)
  <2>1. [l EXCEPT !.next = "none"] \in Locals /\ [l EXCEPT !.next = "none"].next = "none"
    BY <1>1, LocalTypes, Zenon
  <2> QED
    BY <1>14, <2>1, <1>2, WorkerMoves, Zenon DEF add_func_to_provider, Goes, Steps, l
<1> QED
  BY <1>4, <1>5, <1>6, <1>7, <1>8, <1>9, <1>10, <1>11, <1>12, <1>13, <1>14, Zenon DEF Work

\* Every step keeps the types of the rest.
LEMMA StateTypesStep == ASSUME TypeInv, [Next]_vars PROVE StateTypes'
<1> USE DEF TypeInv, StateTypes
<1>1. ASSUME NEW w \in Workers, NEW op, NEW to, Call(w, op, to) PROVE StateTypes'
  BY <1>1 DEF Call
<1>2. ASSUME NEW w \in Workers, allocate_procdeath_event(w) \/ Publish(w) \/ lock_coevent(w)
      PROVE  StateTypes'
  BY <1>2, Zenon DEF allocate_procdeath_event, Publish, lock_coevent
<1>3. ASSUME NEW w \in Workers, monitor_proc(w) PROVE StateTypes'
  <2>1. <<>> \in Seq(Callback)
    OBVIOUS
  <2> QED  BY <1>3, <2>1, Zenon DEF monitor_proc
<1>4. ASSUME NEW w \in Workers, Add(w) PROVE StateTypes'
  <2>1. loc[w].id \in Nat
    BY Zenon DEF WorkerTypes, Locals
  <2>2. ASSUME NEW own \in BOOLEAN
        PROVE  Append(callbacks, [id |-> loc[w].id, own |-> own, funcs |-> {}]) \in Seq(Callback)
    <3>1. [id |-> loc[w].id, own |-> own, funcs |-> {}] \in Callback
      BY <2>1, Zenon DEF Callback
    <3> QED  BY <3>1
  <2>3. callbacks' \in Seq(Callback)
    BY <1>4, <2>2, Zenon DEF Add, monitor_provider, add_cocallback
  <2> QED  BY <1>4, <2>3, Zenon DEF Add
<1>5. ASSUME NEW w \in Workers, UnlockLoad(w) \/ unlock_coevent(w) PROVE StateTypes'
  BY <1>5, Zenon DEF UnlockLoad, unlock_coevent
<1>6. ASSUME NEW w \in Workers, allocate_ccb_func(w) \/ extend_ccb_table(w) PROVE StateTypes'
  <2>1. /\ idx \in Nat /\ tbl_len \in Nat /\ base_tbl_len \in Nat
        /\ idx' \in {idx, idx + 1} /\ tbl_len' \in {tbl_len, tbl_len + base_tbl_len}
    BY <1>6, TableAssumption, Zenon DEF allocate_ccb_func, extend_ccb_table
  <2>2. idx' \in Nat /\ tbl_len' \in Nat
    BY ONLY <2>1
  <2> QED  BY <1>6, <2>2, Zenon DEF allocate_ccb_func, extend_ccb_table
<1>7. ASSUME NEW w \in Workers, add_func_to_provider(w) PROVE StateTypes'
  <2>1. CASE callbacks = <<>> \/ ~Head(callbacks).own
    BY <1>7, <2>1, Zenon DEF add_func_to_provider
  <2>2. CASE ~(callbacks = <<>> \/ ~Head(callbacks).own)
    <3>1. callbacks' = [callbacks EXCEPT ![1].funcs = @ \cup {loc[w].func}]
      BY <1>7, <2>2, Zenon DEF add_func_to_provider
    <3>2. callbacks[1] \in Callback /\ loc[w].func \in Nat /\ 1 \in DOMAIN callbacks
      BY <2>2 DEF WorkerTypes, Locals
    <3>3. [callbacks[1] EXCEPT !.funcs = @ \cup {loc[w].func}] \in Callback
      BY <3>2, Zenon DEF Callback
    <3>4. callbacks' \in Seq(Callback)
      BY <3>1, <3>2, <3>3
    <3> QED  BY <1>7, <3>4, Zenon DEF add_func_to_provider
  <2> QED  BY <2>1, <2>2, Zenon
<1>8. CASE init_monitoring \/ trigger_cocallbacks
  BY <1>8, Zenon DEF init_monitoring, trigger_cocallbacks
<1>9. CASE get_next_cocallback
  <2>1. callbacks # <<>> => /\ Tail(callbacks) \in Seq(Callback)
                            /\ <<Head(callbacks)>> \in Seq(Callback) /\ <<Head(callbacks)>> # <<>>
    OBVIOUS
  <2> QED  BY <1>9, <2>1, Zenon DEF get_next_cocallback
<1>10. CASE execute_cocallback
  <2>1. <<>> \in Seq(Callback)
    OBVIOUS
  <2>2. mpc = "run" /\ ((mpc' = "next" /\ mcb' = <<>>) \/ (mpc' = "run" /\ mcb' = mcb))
    BY <1>10, Zenon DEF execute_cocallback
  <2>3. UNCHANGED <<in_progress, callbacks, proc, idx, tbl_len, calls>>
    BY <1>10, Zenon DEF execute_cocallback
  <2> QED  BY <2>1, <2>2, <2>3, Zenon
<1>11. CASE ProcExit \/ PidReused
  <2>1. proc' \in [gen : Nat, live : BOOLEAN]
    <3>1. proc' = [proc EXCEPT !.live = FALSE] \/ proc' = [gen |-> proc.gen + 1, live |-> TRUE]
      BY <1>11, Zenon DEF ProcExit, PidReused
    <3>2. proc \in [gen : Nat, live : BOOLEAN]
      BY Zenon
    <3>3. proc.gen + 1 \in Nat
      BY <3>2
    <3>4. [proc EXCEPT !.live = FALSE] \in [gen : Nat, live : BOOLEAN]
      BY <3>2, Zenon
    <3>5. [gen |-> proc.gen + 1, live |-> TRUE] \in [gen : Nat, live : BOOLEAN]
      BY <3>3, Zenon
    <3> QED  BY ONLY <3>1, <3>4, <3>5, Zenon
  <2>2. UNCHANGED <<in_progress, callbacks, mcb, mpc, idx, tbl_len, calls>>
    BY <1>11, Zenon DEF ProcExit, PidReused
  <2> QED  BY <2>1, <2>2, Zenon
<1>12. CASE UNCHANGED vars
  BY <1>12, Zenon DEF vars
<1> QED
  BY <1>1, <1>2, <1>3, <1>4, <1>5, <1>6, <1>7, <1>8, <1>9, <1>10, <1>11, <1>12, ZenonT(60)
  DEF Next, Work, Monitor, add_event_listener, cocallback_register, install_cocallback

\* Every step keeps the types.
LEMMA TypeStep == ASSUME TypeInv, [Next]_vars PROVE TypeInv'
<1> SUFFICES WorkerTypes'
  BY StateTypesStep, Zenon DEF TypeInv
<1>1. CASE \E w \in Workers : \/ add_event_listener(w) \/ cocallback_register(w)
                              \/ install_cocallback(w) \/ Work(w)
  BY <1>1, WorkerTypesStep, Zenon DEF TypeInv, add_event_listener, cocallback_register, install_cocallback
<1>2. CASE UNCHANGED <<pc, loc>>
  BY <1>2, Zenon DEF TypeInv, WorkerTypes
<1> QED
  BY <1>1, <1>2, Zenon DEF Next, Monitor, init_monitoring, trigger_cocallbacks, get_next_cocallback,
     execute_cocallback, ProcExit, PidReused, vars

-----------------------------------------------------------------------------
(* The lock *)

Holding == {"init", "publish", "add", "unlock", "free", "provide"}
Draining == mpc \in {"next", "run"}

\* Until the main thread takes the lock by force: one thread has it, whose value
\* it then is, and which has loaded no other value.
LockInv == ~overrun =>
    /\ \A u, w \in Workers : pc[u] \in Holding /\ pc[w] \in Holding => u = w
    /\ \A w \in Workers : pc[w] \in Holding => ~Draining /\ in_progress = 1
    /\ \A w \in Workers : pc[w] = "free" => loc[w].v = 1
    /\ Draining => in_progress = 1

\* What a worker's step does to pc and loc.
LEMMA Moved ==
    ASSUME WorkerTypes, NEW w \in Workers, NEW p, NEW l, Goto(w, p, l)
    PROVE  /\ pc'[w] = p /\ loc'[w] = l
           /\ \A u \in Workers : u # w => pc'[u] = pc[u] /\ loc'[u] = loc[u]
  BY Zenon DEF WorkerTypes, Goto

\* Every step keeps what is true of the holder of in_progress.
LEMMA LockStep == ASSUME TypeInv, LockInv, [Next]_vars PROVE LockInv'
<1> SUFFICES ASSUME ~overrun' PROVE LockInv'
  BY Zenon DEF LockInv
<1> USE DEF Holding, Draining
<1>0. WorkerTypes
  BY Zenon DEF TypeInv
<1>1. ASSUME NEW w \in Workers, NEW op, NEW to \in {"alloc", "lock"}, Call(w, op, to) PROVE LockInv'
  BY <1>0, <1>1, Moved DEF Call, LockInv
<1>2. ASSUME NEW w \in Workers, allocate_procdeath_event(w) PROVE LockInv'
  <2>1. CASE in_progress = 1
    <3>1. Goto(w, "idle", NoLocals) \/ UNCHANGED <<pc, loc>>
      BY <1>2, <2>1, Zenon DEF allocate_procdeath_event, Return
    <3>2. UNCHANGED <<in_progress, mpc, overrun>>
      BY <1>2, <2>1, Zenon DEF allocate_procdeath_event
    <3> QED  BY <1>0, <3>1, <3>2, Moved DEF LockInv
  <2>2. CASE in_progress # 1
    <3>1. PICK l : Goto(w, "init", l)
      BY <1>2, <2>2, Zenon DEF allocate_procdeath_event
    <3>2. UNCHANGED <<mpc, overrun>> /\ in_progress' = 1
      BY <1>2, <2>2, Zenon DEF allocate_procdeath_event
    <3>3. /\ pc'[w] = "init"
          /\ \A u \in Workers : u # w => pc'[u] = pc[u] /\ loc'[u] = loc[u]
      BY <1>0, <3>1, Moved, Zenon
    <3> QED  BY <2>2, <3>2, <3>3, Zenon DEF LockInv
  <2> QED  BY <2>1, <2>2, Zenon
<1>3. ASSUME NEW w \in Workers, monitor_proc(w) PROVE LockInv'
  <2>1. Goto(w, "publish", loc[w]) \/ UNCHANGED <<pc, loc>>
    BY <1>3, Zenon DEF monitor_proc
  <2>2. pc[w] = "init" /\ UNCHANGED <<in_progress, mpc, overrun>>
    BY <1>3, Zenon DEF monitor_proc
  <2> QED  BY <1>0, <2>1, <2>2, Moved DEF LockInv
<1>4. ASSUME NEW w \in Workers, Publish(w) PROVE LockInv'
  BY <1>0, <1>4, Moved DEF Publish, LockInv, Return
<1>5. ASSUME NEW w \in Workers, lock_coevent(w) PROVE LockInv'
  BY <1>0, <1>5, Moved DEF lock_coevent, LockInv, WorkerTypes, Goes
<1>6. ASSUME NEW w \in Workers, Add(w) PROVE LockInv'
  BY <1>0, <1>6, Moved DEF Add, monitor_provider, add_cocallback, LockInv
<1>7. ASSUME NEW w \in Workers, UnlockLoad(w) PROVE LockInv'
  <2>1. in_progress = 1 /\ UNCHANGED <<overrun, mpc, in_progress>>
    BY <1>7, Zenon DEF UnlockLoad, LockInv
  <2>2. Goto(w, "free", [loc[w] EXCEPT !.v = 1]) /\ pc[w] = "unlock"
    BY <1>7, <2>1 DEF UnlockLoad
  <2>3. [loc[w] EXCEPT !.v = 1].v = 1
    BY <1>0, Zenon DEF WorkerTypes, Locals
  <2>4. PICK l : Goto(w, "free", l) /\ l.v = 1
    BY <2>2, <2>3, Zenon
  <2>5. /\ pc'[w] = "free" /\ loc'[w].v = 1
        /\ \A u \in Workers : u # w => pc'[u] = pc[u] /\ loc'[u] = loc[u]
    BY <1>0, <2>4, Moved
  <2> QED  BY <2>1, <2>2, <2>5, ZenonT(60) DEF LockInv
<1>8. ASSUME NEW w \in Workers, unlock_coevent(w) PROVE LockInv'
  BY <1>0, <1>8, Moved DEF unlock_coevent, LockInv, Return
<1>9. ASSUME NEW w \in Workers, allocate_ccb_func(w) \/ extend_ccb_table(w) PROVE LockInv'
  BY <1>0, <1>9, Moved DEF allocate_ccb_func, extend_ccb_table, LockInv
<1>10. ASSUME NEW w \in Workers, add_func_to_provider(w) PROVE LockInv'
  BY <1>0, <1>10, Moved DEF add_func_to_provider, LockInv
<1>11. CASE init_monitoring \/ trigger_cocallbacks
  BY <1>11, Zenon DEF init_monitoring, trigger_cocallbacks, LockInv
<1>12. CASE get_next_cocallback \/ execute_cocallback
  BY <1>12, Zenon DEF get_next_cocallback, execute_cocallback, LockInv
<1>13. CASE ProcExit \/ PidReused
  BY <1>13, Zenon DEF ProcExit, PidReused, LockInv
<1>14. CASE UNCHANGED vars
  BY <1>14, Zenon DEF vars, LockInv
<1> QED
  BY <1>1, <1>2, <1>3, <1>4, <1>5, <1>6, <1>7, <1>8, <1>9, <1>10, <1>11, <1>12, <1>13, <1>14, ZenonT(60)
  DEF Next, Work, Monitor, add_event_listener, cocallback_register, install_cocallback

-----------------------------------------------------------------------------
(* What each step of a worker does to its place and to its locals *)

Alone(w) == \A u \in Workers : u # w => pc'[u] = pc[u] /\ loc'[u] = loc[u]
Becomes(w, p, id, next, func) ==
    /\ pc'[w] = p /\ loc'[w].id = id /\ loc'[w].next = next /\ loc'[w].func = func
    /\ Alone(w)
Stays == UNCHANGED <<pc, loc>>

\* The effect of each operation on the worker that runs it: the call,
LEMMA CallEffect ==
    ASSUME WorkerTypes, NEW w \in Workers, NEW op, NEW to, Call(w, op, to)
    PROVE  Becomes(w, to, calls + 1, "add", 0)
<1>1. PICK l : l = [NoLocals EXCEPT !.op = op, !.id = calls + 1, !.next = "add"]
  BY Zenon
<1>2. l.id = calls + 1 /\ l.next = "add" /\ l.func = 0
  BY <1>1, Zenon DEF NoLocals
<1>3. Goto(w, to, l)
  BY <1>1, Zenon DEF Call
<1> QED  BY <1>2, <1>3, Moved DEF Becomes, Alone

\* taking in_progress to set the event up, or not,
LEMMA AllocEffect ==
    ASSUME WorkerTypes, NEW w \in Workers, allocate_procdeath_event(w)
    PROVE  \/ /\ in_progress # 1 /\ in_progress' = 1
              /\ Becomes(w, "init", loc[w].id, loc[w].next, loc[w].func)
              /\ loc'[w].fresh <=> in_progress = -1 \/ ~inited
           \/ /\ in_progress' = in_progress
              /\ Becomes(w, "idle", 0, "none", 0) \/ Stays
<1>0. loc[w] \in Locals
  BY Zenon DEF WorkerTypes
<1>1. CASE in_progress # 1
  <2>1. PICK b \in BOOLEAN : b <=> in_progress = -1 \/ ~inited
    BY Zenon
  <2>2. b = (in_progress = -1 \/ ~inited)
    BY <2>1, Zenon
  <2>3. in_progress' = 1 /\ Goto(w, "init", [loc[w] EXCEPT !.fresh = b])
    BY <1>1, <2>2, Zenon DEF allocate_procdeath_event
  <2>4. PICK l : l = [loc[w] EXCEPT !.fresh = b]
    BY Zenon
  <2>5. l.id = loc[w].id /\ l.next = loc[w].next /\ l.func = loc[w].func /\ l.fresh = b
    BY <1>0, <2>4, Zenon DEF Locals
  <2>6. pc'[w] = "init" /\ loc'[w] = l /\ Alone(w)
    BY <2>3, <2>4, Moved, ZenonT(60) DEF Alone
  <2> QED  BY <1>1, <2>1, <2>3, <2>5, <2>6, Zenon DEF Becomes
<1>2. CASE in_progress = 1
  <2>1. Goto(w, "idle", NoLocals) \/ Stays
    BY <1>2, Zenon DEF allocate_procdeath_event, Return, Stays
  <2>2. in_progress' = in_progress
    BY <1>2, Zenon DEF allocate_procdeath_event
  <2> QED  BY <2>1, <2>2, Moved DEF Becomes, Alone, NoLocals
<1> QED  BY <1>1, <1>2, Zenon

\* a step that keeps the locals,
LEMMA KeptEffect ==
    ASSUME WorkerTypes, NEW w \in Workers, NEW p, Goto(w, p, loc[w])
    PROVE  Becomes(w, p, loc[w].id, loc[w].next, loc[w].func)
  BY Moved, Zenon DEF Becomes, Alone

\* a return,
LEMMA ReturnEffect ==
    ASSUME WorkerTypes, NEW w \in Workers, Return(w)
    PROVE  Becomes(w, "idle", 0, "none", 0)
  BY Moved DEF Becomes, Alone, Return, NoLocals

\* adding the callback,
LEMMA AddEffect ==
    ASSUME WorkerTypes, NEW w \in Workers, NEW own \in BOOLEAN, add_cocallback(w, own)
    PROVE  Becomes(w, "unlock", loc[w].id, IF own THEN "func" ELSE "none", loc[w].func)
<1>0. loc[w] \in Locals
  BY Zenon DEF WorkerTypes
<1>1. PICK l : l = [loc[w] EXCEPT !.next = IF own THEN "func" ELSE "none"]
  BY Zenon
<1>2. l.id = loc[w].id /\ l.next = (IF own THEN "func" ELSE "none") /\ l.func = loc[w].func
  BY <1>0, <1>1, Zenon DEF Locals
<1>3. Goto(w, "unlock", l)
  BY <1>1, Zenon DEF add_cocallback
<1> QED  BY <1>2, <1>3, Moved, ZenonT(60) DEF Becomes, Alone

\* monitor_provider finds callbacks.
LEMMA FoundEffect ==
    ASSUME WorkerTypes, NEW w \in Workers, 
           Goto(w, "unlock", [loc[w] EXCEPT !.next = "func", !.id = 0])
    PROVE  Becomes(w, "unlock", 0, "func", loc[w].func)
<1>0. loc[w] \in Locals
  BY Zenon DEF WorkerTypes
<1>1. PICK l : l = [loc[w] EXCEPT !.next = "func", !.id = 0]
  BY Zenon
<1>2. l.id = 0 /\ l.next = "func" /\ l.func = loc[w].func
  BY <1>0, <1>1, Zenon DEF Locals
<1>3. Goto(w, "unlock", l)
  BY <1>1, Zenon
<1> QED  BY <1>2, <1>3, Moved DEF Becomes, Alone

\* loading in_progress before giving it up,
LEMMA LoadEffect ==
    ASSUME WorkerTypes, NEW w \in Workers, UnlockLoad(w)
    PROVE  Becomes(w, "free", loc[w].id, loc[w].next, loc[w].func) \/ (Stays /\ in_progress = 0)
<1>0. loc[w] \in Locals
  BY Zenon DEF WorkerTypes
<1>1. PICK l : l = [loc[w] EXCEPT !.v = in_progress]
  BY Zenon
<1>2. l.id = loc[w].id /\ l.next = loc[w].next /\ l.func = loc[w].func
  BY <1>0, <1>1, Zenon DEF Locals
<1>3. Goto(w, "free", l) \/ (Stays /\ in_progress = 0)
  BY <1>1, Zenon DEF UnlockLoad, Stays
<1> QED  BY <1>2, <1>3, Moved DEF Becomes, Alone

\* the compare-and-swap that gives it up, and what may follow,
LEMMA UnlockEffect ==
    ASSUME WorkerTypes, NEW w \in Workers, unlock_coevent(w)
    PROVE  \/ /\ in_progress = loc[w].v /\ loc[w].next = "func"
              /\ Becomes(w, "func", 0, "func", loc[w].func)
           \/ in_progress = loc[w].v /\ Becomes(w, "idle", 0, "none", 0)
           \/ in_progress # loc[w].v /\ Stays
<1>0. loc[w] \in Locals
  BY Zenon DEF WorkerTypes
<1>1. PICK l : l = [loc[w] EXCEPT !.id = 0]
  BY Zenon
<1>2. l.id = 0 /\ l.next = loc[w].next /\ l.func = loc[w].func
  BY <1>0, <1>1, Zenon DEF Locals
<1>3. \/ in_progress = loc[w].v /\ loc[w].next = "func" /\ Goto(w, "func", l)
      \/ in_progress = loc[w].v /\ Return(w)
      \/ in_progress # loc[w].v /\ Stays
  BY <1>1, Zenon DEF unlock_coevent, Stays
<1> QED  BY <1>2, <1>3, Moved, ReturnEffect DEF Becomes, Alone

\* claiming an entry of the table of functions,
LEMMA FuncEffect ==
    ASSUME WorkerTypes, NEW w \in Workers, allocate_ccb_func(w)
    PROVE  Becomes(w, IF idx >= tbl_len THEN "extend" ELSE "lock", loc[w].id, "provide", idx)
<1>0. loc[w] \in Locals
  BY Zenon DEF WorkerTypes
<1>1. PICK l : l = [loc[w] EXCEPT !.func = idx, !.next = "provide"]
  BY Zenon
<1>2. l.id = loc[w].id /\ l.next = "provide" /\ l.func = idx
  BY <1>0, <1>1, Zenon DEF Locals
<1>3. Goto(w, IF idx >= tbl_len THEN "extend" ELSE "lock", l)
  BY <1>1, Zenon DEF allocate_ccb_func
<1> QED  BY <1>2, <1>3, Moved DEF Becomes, Alone

\* and handing the function to its provider, or waiting.
LEMMA ProvideEffect ==
    ASSUME WorkerTypes, NEW w \in Workers, add_func_to_provider(w)
    PROVE  Stays \/ Becomes(w, "unlock", loc[w].id, "none", loc[w].func)
<1>0. loc[w] \in Locals
  BY Zenon DEF WorkerTypes
<1>1. PICK l : l = [loc[w] EXCEPT !.next = "none"]
  BY Zenon
<1>2. l.id = loc[w].id /\ l.next = "none" /\ l.func = loc[w].func
  BY <1>0, <1>1, Zenon DEF Locals
<1>3. Goto(w, "unlock", l) \/ Stays
  BY <1>1, Zenon DEF add_func_to_provider, Stays
<1> QED  BY <1>2, <1>3, Moved DEF Becomes, Alone

-----------------------------------------------------------------------------
(* The list of callbacks *)

\* An event that was not set up has no callbacks, nor has one about to be set up
\* again as long as the lock was not overrun.
SetUpInv ==
    /\ handle => inited
    /\ \A w \in Workers : /\ pc[w] \notin {"idle", "alloc", "init"} => inited
                          /\ pc[w] = "init" /\ ~loc[w].fresh => inited
    /\ ~inited => callbacks = <<>>
    /\ ~overrun => /\ in_progress = -1 => callbacks = <<>>
                   /\ \A w \in Workers : pc[w] = "init" /\ loc[w].fresh => callbacks = <<>>

\* Every step keeps what is true while an event is set up.
LEMMA SetUpStep == ASSUME TypeInv, LockInv, SetUpInv, [Next]_vars PROVE SetUpInv'
<1> USE DEF Holding, Draining
<1>0. WorkerTypes
  BY Zenon DEF TypeInv
<1>1. ASSUME NEW w \in Workers, NEW op, NEW to \in {"alloc", "lock"}, Call(w, op, to),
             to = "lock" => inited
      PROVE  SetUpInv'
  <2>1. UNCHANGED <<in_progress, inited, callbacks, overrun, handle>>
    BY <1>1, Zenon DEF Call
  <2>2. Becomes(w, to, calls + 1, "add", 0)
    BY <1>0, <1>1, CallEffect, Zenon
  <2> QED  BY <1>1, <2>1, <2>2, Zenon DEF SetUpInv, Becomes, Alone
<1>2. ASSUME NEW w \in Workers, allocate_procdeath_event(w) PROVE SetUpInv'
  <2>1. pc[w] = "alloc" /\ UNCHANGED <<inited, callbacks, overrun, handle>>
    BY <1>2, Zenon DEF allocate_procdeath_event
  <2> QED  BY <1>0, <1>2, <2>1, AllocEffect DEF SetUpInv, Becomes, Alone, Stays
<1>3. ASSUME NEW w \in Workers, monitor_proc(w) PROVE SetUpInv'
  <2>1. pc[w] = "init" /\ UNCHANGED <<in_progress, overrun, handle>>
    BY <1>3, Zenon DEF monitor_proc
  <2>2. Becomes(w, "publish", loc[w].id, loc[w].next, loc[w].func) \/ Stays
    BY <1>0, <1>3, KeptEffect, Zenon DEF monitor_proc, Stays
  <2>3. IF loc[w].fresh THEN inited' = TRUE /\ callbacks' = <<>> ELSE UNCHANGED <<inited, callbacks>>
    BY <1>3, Zenon DEF monitor_proc
  <2> QED  BY <2>1, <2>2, <2>3, Zenon DEF SetUpInv, LockInv, Becomes, Alone, Stays
<1>4. ASSUME NEW w \in Workers, Publish(w) PROVE SetUpInv'
  <2>1. pc[w] = "publish" /\ in_progress' = 0 /\ UNCHANGED <<inited, callbacks, overrun>>
    BY <1>4, Zenon DEF Publish
  <2>2. \/ Becomes(w, "idle", 0, "none", 0)
        \/ Becomes(w, "lock", loc[w].id, loc[w].next, loc[w].func)
    BY <1>0, <1>4, KeptEffect, ReturnEffect, Zenon DEF Publish
  <2> QED  BY <2>1, <2>2 DEF SetUpInv, Becomes, Alone
<1>5. ASSUME NEW w \in Workers, lock_coevent(w) PROVE SetUpInv'
  <2>1. /\ pc[w] = "lock" /\ in_progress' = 1 /\ UNCHANGED <<inited, callbacks, overrun, handle>>
        /\ loc[w].next \in {"add", "provide"}
    BY <1>0, <1>5, Zenon DEF lock_coevent, WorkerTypes, Goes
  <2>2. Becomes(w, loc[w].next, loc[w].id, loc[w].next, loc[w].func)
    BY <1>0, <1>5, KeptEffect, Zenon DEF lock_coevent
  <2> QED  BY <2>1, <2>2 DEF SetUpInv, Becomes, Alone
<1>6. ASSUME NEW w \in Workers, Add(w) PROVE SetUpInv'
  <2>1. pc[w] = "add" /\ UNCHANGED <<in_progress, inited, overrun, handle>>
    BY <1>6, Zenon DEF Add
  <2>2. PICK id, next, func : Becomes(w, "unlock", id, next, func)
    BY <1>0, <1>6, AddEffect, FoundEffect, Zenon DEF Add, monitor_provider
  <2> QED  BY <2>1, <2>2 DEF SetUpInv, LockInv, Becomes, Alone
<1>7. ASSUME NEW w \in Workers, UnlockLoad(w) PROVE SetUpInv'
  <2>1. pc[w] = "unlock" /\ UNCHANGED <<in_progress, inited, callbacks, overrun, handle>>
    BY <1>7, Zenon DEF UnlockLoad
  <2> QED  BY <1>0, <1>7, <2>1, LoadEffect, Zenon DEF SetUpInv, Becomes, Alone, Stays
<1>8. ASSUME NEW w \in Workers, unlock_coevent(w) PROVE SetUpInv'
  <2>1. /\ pc[w] = "free" /\ in_progress' \in {in_progress, 0}
        /\ UNCHANGED <<inited, callbacks, overrun, handle>>
    BY <1>8, Zenon DEF unlock_coevent
  <2> QED  BY <1>0, <1>8, <2>1, UnlockEffect DEF SetUpInv, Becomes, Alone, Stays
<1>9. ASSUME NEW w \in Workers, allocate_ccb_func(w) \/ extend_ccb_table(w) PROVE SetUpInv'
  <2>1. /\ pc[w] \in {"func", "extend"}
        /\ UNCHANGED <<in_progress, inited, callbacks, overrun, handle>>
    BY <1>9, Zenon DEF allocate_ccb_func, extend_ccb_table
  <2>2. PICK p, id, next, func : p \in {"extend", "lock"} /\ Becomes(w, p, id, next, func)
    <3>1. CASE allocate_ccb_func(w)
      BY <1>0, <3>1, FuncEffect
    <3>2. CASE extend_ccb_table(w)
      <4>1. Goto(w, "lock", loc[w])
        BY <3>2, Zenon DEF extend_ccb_table
      <4>2. Becomes(w, "lock", loc[w].id, loc[w].next, loc[w].func)
        BY <1>0, <4>1, KeptEffect, Zenon
      <4> QED  BY <4>2
    <3> QED  BY <1>9, <3>1, <3>2, Zenon
  <2> QED  BY <2>1, <2>2, Zenon DEF SetUpInv, Becomes, Alone
<1>10. ASSUME NEW w \in Workers, add_func_to_provider(w) PROVE SetUpInv'
  <2>1. pc[w] = "provide" /\ UNCHANGED <<in_progress, inited, overrun, handle>>
    BY <1>10, Zenon DEF add_func_to_provider
  <2> QED  BY <1>0, <1>10, <2>1, ProvideEffect DEF SetUpInv, LockInv, Becomes, Alone, Stays
<1>11. CASE init_monitoring \/ trigger_cocallbacks
  <2>1. /\ UNCHANGED <<inited, callbacks, pc, loc, handle>> /\ in_progress' \in {in_progress, 1}
    BY <1>11, Zenon DEF init_monitoring, trigger_cocallbacks
  <2>2. overrun => overrun'
    BY <1>11, Zenon DEF init_monitoring, trigger_cocallbacks
  <2> QED  BY <2>1, <2>2 DEF SetUpInv
<1>12. CASE get_next_cocallback
  BY <1>12, Zenon DEF get_next_cocallback, SetUpInv, LockInv
<1>13. CASE execute_cocallback
  BY <1>13 DEF execute_cocallback, SetUpInv
<1>14. CASE ProcExit \/ PidReused
  BY <1>14 DEF ProcExit, PidReused, SetUpInv
<1>15. CASE UNCHANGED vars
  BY <1>15, Zenon DEF vars, SetUpInv
<1>16. validate_coevent => inited
  BY Zenon DEF validate_coevent, SetUpInv
<1> QED
  BY <1>1, <1>2, <1>3, <1>4, <1>5, <1>6, <1>7, <1>8, <1>9, <1>10, <1>11, <1>12, <1>13, <1>14, <1>15,
     <1>16, Zenon
  DEF Next, Work, Monitor, add_event_listener, cocallback_register, install_cocallback

\* Call n's callback is listed, is being run or has run.
Known(n) == \/ n \in executed
            \/ \E k \in DOMAIN callbacks : callbacks[k].id = n
            \/ \E k \in DOMAIN mcb : mcb[k].id = n

\* Every installed callback is known, and so is one not yet unlocked.
ListInv ==
    /\ DOMAIN mcb \subseteq {1}
    /\ \A w \in Workers :
          pc[w] \in {"func", "extend", "provide"} \/ (pc[w] = "lock" /\ loc[w].next = "provide")
            => loc[w].id = 0
    /\ ~overrun => /\ \A n \in installed : Known(n)
                   /\ \A w \in Workers : pc[w] \in {"unlock", "free"} /\ loc[w].id # 0 => Known(loc[w].id)

\* An overrun lock stays one.
LEMMA OverrunStays == ASSUME [Next]_vars, ~overrun' PROVE ~overrun
<1> USE DEF vars
<1>1. CASE trigger_cocallbacks
  BY <1>1, ZenonT(60) DEF trigger_cocallbacks
<1>2. ASSUME ~trigger_cocallbacks PROVE UNCHANGED overrun
  BY <1>2, ZenonT(60) DEF Next, Work, Monitor, add_event_listener, cocallback_register, install_cocallback, Call,
     allocate_procdeath_event, monitor_proc, Publish, lock_coevent, Add, UnlockLoad, unlock_coevent,
     allocate_ccb_func, extend_ccb_table, add_func_to_provider, init_monitoring,
     get_next_cocallback, execute_cocallback, ProcExit, PidReused
<1> QED  BY <1>1, <1>2, Zenon

\* What a worker that holds the lock, and only such a one, does to the list.
LEMMA AddKeeps ==
    ASSUME TypeInv, LockInv, ~overrun, NEW w \in Workers, pc[w] = "add",
           NEW own \in BOOLEAN, add_cocallback(w, own), UNCHANGED <<mcb, executed>>
    PROVE  (\A n : Known(n) => Known(n)') /\ Known(loc[w].id)'
<1>1. callbacks' = Append(callbacks, [id |-> loc[w].id, own |-> own, funcs |-> {}])
  BY Zenon DEF add_cocallback, LockInv, Holding, Draining
<1>2. PICK c : c = [id |-> loc[w].id, own |-> own, funcs |-> {}]
  BY Zenon
<1>3. c.id = loc[w].id
  BY <1>2, Zenon
<1>4. callbacks \in Seq(Callback) /\ c \in Callback
  BY <1>2, Zenon DEF TypeInv, StateTypes, WorkerTypes, Locals, Callback
<1>5. /\ DOMAIN callbacks' = 1..(Len(callbacks) + 1) /\ DOMAIN callbacks = 1..Len(callbacks)
      /\ callbacks'[Len(callbacks) + 1] = c /\ Len(callbacks) \in Nat
      /\ \A k \in DOMAIN callbacks : callbacks'[k] = callbacks[k]
  BY <1>1, <1>2, <1>4
<1>6. Len(callbacks) + 1 \in DOMAIN callbacks' /\ DOMAIN callbacks \subseteq DOMAIN callbacks'
  BY <1>5
<1>7. callbacks'[Len(callbacks) + 1].id = loc[w].id
  BY <1>3, <1>5, Zenon
<1>8. Known(loc[w].id)'
  <2>1. loc[w].id = loc'[w].id
    BY AddEffect, Zenon DEF TypeInv, Becomes
  <2> QED  BY <1>6, <1>7, <2>1, Zenon DEF Known
<1> QED  BY <1>5, <1>6, <1>8, Zenon DEF Known

\* Handing a function over loses no callback and leaves the first one's owner.
LEMMA ProvideKeeps ==
    ASSUME TypeInv, NEW w \in Workers, add_func_to_provider(w)
    PROVE  /\ callbacks # <<>> => callbacks' # <<>> /\ callbacks'[1].own = callbacks[1].own
           /\ \A n : Known(n) => Known(n)'
<1>1. UNCHANGED <<mcb, executed>>
  BY Zenon DEF add_func_to_provider
<1>2. CASE callbacks' = callbacks
  BY <1>1, <1>2, Zenon DEF Known
<1>3. CASE callbacks # <<>> /\ callbacks' = [callbacks EXCEPT ![1].funcs = @ \cup {loc[w].func}]
  <2>1. callbacks \in Seq(Callback) /\ 1 \in DOMAIN callbacks
    BY <1>3 DEF TypeInv, StateTypes
  <2>2. PICK c : c = [callbacks[1] EXCEPT !.funcs = @ \cup {loc[w].func}]
    BY Zenon
  <2>3. callbacks[1] \in Callback
    BY <2>1
  <2>4. c.id = callbacks[1].id /\ c.own = callbacks[1].own
    BY <2>2, <2>3, Zenon DEF Callback
  <2>5. callbacks' = [callbacks EXCEPT ![1] = c]
    BY <1>3, <2>2, Zenon
  <2>6. /\ DOMAIN callbacks' = DOMAIN callbacks /\ callbacks'[1] = c
        /\ \A k \in DOMAIN callbacks : k # 1 => callbacks'[k] = callbacks[k]
    BY <2>1, <2>5, Zenon
  <2>7. callbacks' # <<>>
    BY <2>1, <2>6
  <2> QED  BY <1>1, <2>1, <2>4, <2>6, <2>7, Zenon DEF Known
<1> QED  BY <1>2, <1>3, Zenon DEF add_func_to_provider

\* No step forgets a callback.
LEMMA KnownStays ==
    ASSUME TypeInv, LockInv, SetUpInv, ListInv, [Next]_vars, ~overrun'
    PROVE  \A n : Known(n) => Known(n)'
<1>0. ~overrun
  BY OverrunStays, Zenon
<1>1. ASSUME UNCHANGED <<callbacks, mcb, executed>> PROVE \A n : Known(n) => Known(n)'
  BY <1>1, Zenon DEF Known
<1>2. ASSUME NEW w \in Workers, monitor_proc(w) PROVE UNCHANGED <<callbacks, mcb, executed>>
  BY <1>0, <1>2, Zenon DEF monitor_proc, SetUpInv
<1>3. ASSUME NEW w \in Workers, Add(w) PROVE \A n : Known(n) => Known(n)'
  <2>1. pc[w] = "add" /\ UNCHANGED <<mcb, executed>>
    BY <1>3, Zenon DEF Add
  <2>2. (\E own \in BOOLEAN : add_cocallback(w, own)) \/ UNCHANGED callbacks
    BY <1>3, Zenon DEF Add, monitor_provider
  <2> QED  BY <1>0, <1>1, <2>1, <2>2, AddKeeps, Zenon
<1>4. CASE get_next_cocallback
  <2>1. CASE mcb' = <<Head(callbacks)>> /\ callbacks' = Tail(callbacks) /\ callbacks # <<>> /\ mpc = "next"
    <3>1. mcb = <<>> /\ callbacks \in Seq(Callback) /\ executed' = executed
      BY <1>4, <2>1, Zenon DEF TypeInv, StateTypes, get_next_cocallback
    <3>2. 1 \in DOMAIN mcb' /\ mcb'[1] = callbacks[1]
      BY <2>1, <3>1
    <3>3. ASSUME NEW k \in DOMAIN callbacks, k # 1
          PROVE  k - 1 \in DOMAIN callbacks' /\ callbacks'[k - 1] = callbacks[k]
      BY <2>1, <3>1, <3>3
    <3> QED  BY <3>1, <3>2, <3>3 DEF Known
  <2> QED  BY <1>1, <1>4, <2>1, Zenon DEF get_next_cocallback
<1>5. CASE execute_cocallback
  <2>1. callbacks' = callbacks
    BY <1>5, Zenon DEF execute_cocallback
  <2>2. \/ executed' = executed \cup {mcb[1].id}
        \/ UNCHANGED <<mcb, executed>>
    BY <1>5, Zenon DEF execute_cocallback
  <2> QED  BY <2>1, <2>2 DEF Known, ListInv
<1>6. ASSUME NEW w \in Workers, add_func_to_provider(w) PROVE \A n : Known(n) => Known(n)'
  BY <1>6, ProvideKeeps, Zenon
<1>7. ASSUME ~get_next_cocallback, ~execute_cocallback, 
             ~\E w \in Workers : monitor_proc(w) \/ Add(w) \/ add_func_to_provider(w)
      PROVE  UNCHANGED <<callbacks, mcb, executed>>
  BY <1>7, ZenonT(60) DEF Next, Work, Monitor, add_event_listener, cocallback_register, install_cocallback, Call,
     allocate_procdeath_event, Publish, lock_coevent, UnlockLoad, unlock_coevent,
     allocate_ccb_func, extend_ccb_table, init_monitoring, trigger_cocallbacks,
     ProcExit, PidReused, vars
<1> QED  BY <1>1, <1>2, <1>3, <1>4, <1>5, <1>6, <1>7, Zenon

\* The conjuncts of ListInv that speak of the workers, given that nothing is
\* forgotten.
LEMMA ListStep ==
    ASSUME TypeInv, LockInv, SetUpInv, ListInv, [Next]_vars
    PROVE  ListInv'
<1>0. WorkerTypes
  BY Zenon DEF TypeInv
<1>1. ~overrun' => ~overrun /\ \A n : Known(n) => Known(n)'
  BY OverrunStays, KnownStays, Zenon
<1> DEFINE Kept == UNCHANGED <<mcb, installed>>
<1>2. ASSUME NEW w \in Workers, NEW op, NEW to \in {"alloc", "lock"}, Call(w, op, to) PROVE ListInv'
  <2>1. Becomes(w, to, calls + 1, "add", 0) /\ Kept
    BY <1>0, <1>2, CallEffect, Zenon DEF Call
  <2> QED  BY <1>1, <2>1, Zenon DEF ListInv, Becomes, Alone
<1>3. ASSUME NEW w \in Workers, allocate_procdeath_event(w) PROVE ListInv'
  <2>1. /\ \/ Becomes(w, "init", loc[w].id, loc[w].next, loc[w].func)
           \/ Becomes(w, "idle", 0, "none", 0)
           \/ Stays
        /\ Kept
    BY <1>0, <1>3, AllocEffect, Zenon DEF allocate_procdeath_event
  <2> QED  BY <1>1, <2>1, ZenonT(60) DEF ListInv, Becomes, Alone, Stays
<1>4. ASSUME NEW w \in Workers, monitor_proc(w) PROVE ListInv'
  <2>1. (Becomes(w, "publish", loc[w].id, loc[w].next, loc[w].func) \/ Stays) /\ Kept
    BY <1>0, <1>4, KeptEffect, Zenon DEF monitor_proc, Stays
  <2> QED  BY <1>1, <2>1, ZenonT(60) DEF ListInv, Becomes, Alone, Stays
<1>5. ASSUME NEW w \in Workers, Publish(w) PROVE ListInv'
  <2>1. /\ \/ Becomes(w, "idle", 0, "none", 0)
           \/ Becomes(w, "lock", loc[w].id, loc[w].next, loc[w].func)
        /\ Kept /\ pc[w] = "publish"
    BY <1>0, <1>5, KeptEffect, ReturnEffect, Zenon DEF Publish
  <2>2. loc[w].next = "add"
    BY <1>0, <2>1, Zenon DEF WorkerTypes, Goes
  <2> QED  BY <1>1, <2>1, <2>2, ZenonT(60) DEF ListInv, Becomes, Alone
<1>6. ASSUME NEW w \in Workers, lock_coevent(w) PROVE ListInv'
  <2>1. Becomes(w, loc[w].next, loc[w].id, loc[w].next, loc[w].func) /\ Kept /\ pc[w] = "lock"
    BY <1>0, <1>6, KeptEffect, Zenon DEF lock_coevent
  <2>2. loc[w].next \in {"add", "provide"}
    BY <1>0, <2>1, Zenon DEF WorkerTypes, Goes
  <2> QED  BY <1>1, <2>1, <2>2, Zenon DEF ListInv, Becomes, Alone
<1>7. ASSUME NEW w \in Workers, Add(w) PROVE ListInv'
  <2>1. pc[w] = "add" /\ Kept /\ UNCHANGED executed
    BY <1>7, Zenon DEF Add
  <2>2. CASE \E own \in BOOLEAN : add_cocallback(w, own)
    <3>1. PICK next : Becomes(w, "unlock", loc[w].id, next, loc[w].func)
      BY <1>0, <2>2, AddEffect, Zenon
    <3>2. ~overrun' => Known(loc[w].id)'
      BY <1>1, <2>1, <2>2, AddKeeps, Zenon
    <3> QED  BY <1>1, <2>1, <3>1, <3>2, Zenon DEF ListInv, Becomes, Alone
  <2>3. CASE Goto(w, "unlock", [loc[w] EXCEPT !.next = "func", !.id = 0])
    BY <1>0, <1>1, <2>1, <2>3, FoundEffect, ZenonT(60) DEF ListInv, Becomes, Alone
  <2> QED  BY <1>7, <2>2, <2>3, Zenon DEF Add, monitor_provider
<1>8. ASSUME NEW w \in Workers, UnlockLoad(w) PROVE ListInv'
  <2>1. /\ Becomes(w, "free", loc[w].id, loc[w].next, loc[w].func) \/ Stays
        /\ pc[w] = "unlock" /\ Kept
    BY <1>0, <1>8, LoadEffect, Zenon DEF UnlockLoad
  <2> QED  BY <1>1, <2>1, Zenon DEF ListInv, Becomes, Alone, Stays
<1>9. ASSUME NEW w \in Workers, unlock_coevent(w) PROVE ListInv'
  <2>1. /\ Becomes(w, "func", 0, "func", loc[w].func) \/ Becomes(w, "idle", 0, "none", 0) \/ Stays
        /\ UNCHANGED mcb /\ pc[w] = "free"
    BY <1>0, <1>9, UnlockEffect, Zenon DEF unlock_coevent
  <2>2. installed' = installed \/ (loc[w].id # 0 /\ installed' = installed \cup {loc[w].id})
    BY <1>9, Zenon DEF unlock_coevent
  <2> QED  BY <1>1, <2>1, <2>2, Zenon DEF ListInv, Becomes, Alone, Stays
<1>10. ASSUME NEW w \in Workers, allocate_ccb_func(w) \/ extend_ccb_table(w) PROVE ListInv'
  <2>1. pc[w] \in {"func", "extend"} /\ Kept
    BY <1>10, Zenon DEF allocate_ccb_func, extend_ccb_table
  <2>2. PICK p, next, func : p \in {"extend", "lock"} /\ Becomes(w, p, loc[w].id, next, func)
    <3>1. CASE allocate_ccb_func(w)
      BY <1>0, <3>1, FuncEffect
    <3>2. CASE extend_ccb_table(w)
      <4>1. Goto(w, "lock", loc[w])
        BY <3>2, Zenon DEF extend_ccb_table
      <4>2. Becomes(w, "lock", loc[w].id, loc[w].next, loc[w].func)
        BY <1>0, <4>1, KeptEffect, Zenon
      <4> QED  BY <4>2
    <3> QED  BY <1>10, <3>1, <3>2, Zenon
  <2> QED  BY <1>1, <2>1, <2>2, Zenon DEF ListInv, Becomes, Alone
<1>11. ASSUME NEW w \in Workers, add_func_to_provider(w) PROVE ListInv'
  <2>1. /\ Stays \/ Becomes(w, "unlock", loc[w].id, "none", loc[w].func)
        /\ pc[w] = "provide" /\ Kept
    BY <1>0, <1>11, ProvideEffect, Zenon DEF add_func_to_provider
  <2> QED  BY <1>1, <2>1, Zenon DEF ListInv, Becomes, Alone, Stays
<1>12. CASE get_next_cocallback \/ execute_cocallback
  <2>1. Stays /\ UNCHANGED installed /\ DOMAIN mcb' \subseteq {1}
    BY <1>12 DEF get_next_cocallback, execute_cocallback, Stays, ListInv
  <2> QED  BY <1>1, <2>1, ZenonT(60) DEF ListInv, Stays
<1>13. CASE init_monitoring \/ trigger_cocallbacks \/ ProcExit \/ PidReused \/ UNCHANGED vars
  <2>1. Stays /\ Kept
    BY <1>13, Zenon DEF init_monitoring, trigger_cocallbacks, ProcExit, PidReused, vars, Stays
  <2> QED  BY <1>1, <2>1, Zenon DEF ListInv, Stays
<1> QED
  BY <1>2, <1>3, <1>4, <1>5, <1>6, <1>7, <1>8, <1>9, <1>10, <1>11, <1>12, <1>13, Zenon
  DEF Next, Work, Monitor, add_event_listener, cocallback_register, install_cocallback

\* The invariant says what the property does.
LEMMA ListRemembers == ListInv => NothingForgotten
<1> SUFFICES ASSUME ListInv, ~overrun, NEW n \in installed
             PROVE  n \in executed \cup {c.id : c \in Range(callbacks) \cup Range(mcb)}
  BY Zenon DEF NothingForgotten
<1> QED  BY DEF ListInv, Known, Range

-----------------------------------------------------------------------------
(* The provider's own callback *)

\* w has installed coeventd's own callback, or found callbacks, and is to add a
\* function to the first.
Provider(w) == \/ pc[w] \in {"func", "extend", "provide"}
               \/ pc[w] = "lock" /\ loc[w].next = "provide"
               \/ pc[w] \in {"unlock", "free"} /\ loc[w].next = "func"

\* While the pid's first process lives, no exit was queued and the list only
\* grows: its head is coeventd's own callback, unless a consumer came first.
OwnInv == proc.live /\ proc.gen = 0 =>
    /\ ~overrun /\ ~queued /\ mpc \in {"start", "wait"} /\ in_progress # -1
    /\ ~first => /\ callbacks # <<>> => callbacks[1].own
                 /\ \A w \in Workers : Provider(w) => callbacks # <<>>

\* The first process lives on only if no exit is noticed.
LEMMA LivesOn ==
    ASSUME TypeInv, OwnInv, [Next]_vars, proc'.live, proc'.gen = 0
    PROVE  /\ proc.live /\ proc.gen = 0
           /\ UNCHANGED <<overrun, queued>> /\ mpc' \in {"start", "wait"} /\ in_progress' # -1
<1>1. proc' = proc
  <2>1. ~ProcExit
    BY Zenon DEF ProcExit, TypeInv, StateTypes
  <2>2. ~PidReused
    BY DEF PidReused, TypeInv, StateTypes
  <2> QED
    BY <2>1, <2>2, ZenonT(60) DEF Next, Work, Monitor, add_event_listener, cocallback_register, install_cocallback,
     Call, allocate_procdeath_event, monitor_proc, Publish, lock_coevent, Add, UnlockLoad,
     unlock_coevent, allocate_ccb_func, extend_ccb_table, add_func_to_provider, init_monitoring,
     trigger_cocallbacks, get_next_cocallback, execute_cocallback, vars
<1>2. ~overrun /\ ~queued /\ mpc \in {"start", "wait"} /\ in_progress # -1
  BY <1>1, Zenon DEF OwnInv
<1>3. ~ProcExit /\ ~PidReused /\ ~trigger_cocallbacks /\ ~get_next_cocallback /\ ~execute_cocallback
  <2>1. ~ProcExit
    BY Zenon DEF ProcExit, TypeInv, StateTypes
  <2>2. ~PidReused
    BY DEF PidReused, TypeInv, StateTypes
  <2> QED  BY <1>2, <2>1, <2>2, ZenonT(60) DEF trigger_cocallbacks, get_next_cocallback, execute_cocallback
<1>4. UNCHANGED <<overrun, queued>> /\ mpc' \in {mpc, "wait"} /\ in_progress' \in {in_progress, 0, 1}
  BY <1>3, ZenonT(60) DEF Next, Work, Monitor, add_event_listener, cocallback_register, install_cocallback,
     Call, allocate_procdeath_event, monitor_proc, Publish, lock_coevent, Add, UnlockLoad,
     unlock_coevent, allocate_ccb_func, extend_ccb_table, add_func_to_provider,
     init_monitoring, vars
<1>5. mpc' \in {"start", "wait"}
  BY ONLY <1>2, <1>4, Zenon
<1>6. in_progress' # -1
  BY ONLY <1>2, <1>4
<1> QED  BY <1>1, <1>4, <1>5, <1>6, ZenonT(60)

\* Every step keeps the callbacks that were added.
LEMMA OwnStep ==
    ASSUME TypeInv, LockInv, SetUpInv, OwnInv, [Next]_vars
    PROVE  OwnInv'
<1> SUFFICES ASSUME proc'.live, proc'.gen = 0
             PROVE  /\ ~overrun' /\ ~queued' /\ mpc' \in {"start", "wait"} /\ in_progress' # -1
                    /\ ~first' => /\ callbacks' # <<>> => callbacks'[1].own
                                  /\ \A w \in Workers : Provider(w)' => callbacks' # <<>>
  BY Zenon DEF OwnInv
<1>0. WorkerTypes /\ callbacks \in Seq(Callback)
  BY Zenon DEF TypeInv, StateTypes
<1>1. /\ ~overrun' /\ ~queued' /\ mpc' \in {"start", "wait"} /\ in_progress' # -1
      /\ ~overrun /\ mpc \in {"start", "wait"}
      /\ ~first => /\ callbacks # <<>> => callbacks[1].own
                   /\ \A w \in Workers : Provider(w) => callbacks # <<>>
  BY LivesOn DEF OwnInv
<1> DEFINE Own == ~first' => /\ callbacks' # <<>> => callbacks'[1].own
                             /\ \A w \in Workers : Provider(w)' => callbacks' # <<>>
<1> SUFFICES Own
  BY <1>1, Zenon
<1> DEFINE Kept == UNCHANGED <<callbacks, first>>
<1>2. ASSUME NEW w \in Workers, NEW op, NEW to \in {"alloc", "lock"}, Call(w, op, to) PROVE Own
  <2>1. Becomes(w, to, calls + 1, "add", 0) /\ Kept
    BY <1>0, <1>2, CallEffect, Zenon DEF Call
  <2> QED  BY <1>1, <2>1, ZenonT(60) DEF Provider, Becomes, Alone
<1>3. ASSUME NEW w \in Workers, allocate_procdeath_event(w) PROVE Own
  <2>1. /\ \/ Becomes(w, "init", loc[w].id, loc[w].next, loc[w].func)
           \/ Becomes(w, "idle", 0, "none", 0)
           \/ Stays
        /\ Kept
    BY <1>0, <1>3, AllocEffect, Zenon DEF allocate_procdeath_event
  <2> QED  BY <1>1, <2>1, ZenonT(60) DEF Provider, Becomes, Alone, Stays
<1>4. ASSUME NEW w \in Workers, monitor_proc(w) PROVE Own
  <2>1. Becomes(w, "publish", loc[w].id, loc[w].next, loc[w].func) \/ Stays
    BY <1>0, <1>4, KeptEffect, Zenon DEF monitor_proc, Stays
  <2>2. Kept
    BY <1>1, <1>4, Zenon DEF monitor_proc, SetUpInv
  <2> QED  BY <1>1, <2>1, <2>2, ZenonT(60) DEF Provider, Becomes, Alone, Stays
<1>5. ASSUME NEW w \in Workers, Publish(w) PROVE Own
  <2>1. /\ \/ Becomes(w, "idle", 0, "none", 0)
           \/ Becomes(w, "lock", loc[w].id, loc[w].next, loc[w].func)
        /\ Kept /\ pc[w] = "publish"
    BY <1>0, <1>5, KeptEffect, ReturnEffect, Zenon DEF Publish
  <2>2. loc[w].next = "add"
    BY <1>0, <2>1, Zenon DEF WorkerTypes, Goes
  <2> QED  BY <1>1, <2>1, <2>2, ZenonT(60) DEF Provider, Becomes, Alone
<1>6. ASSUME NEW w \in Workers, lock_coevent(w) PROVE Own
  <2>1. Becomes(w, loc[w].next, loc[w].id, loc[w].next, loc[w].func) /\ Kept /\ pc[w] = "lock"
    BY <1>0, <1>6, KeptEffect, Zenon DEF lock_coevent
  <2>2. loc[w].next \in {"add", "provide"}
    BY <1>0, <2>1, Zenon DEF WorkerTypes, Goes
  <2> QED  BY <1>1, <2>1, <2>2, ZenonT(60) DEF Provider, Becomes, Alone
<1>7. ASSUME NEW w \in Workers, Add(w) PROVE Own
  <2>1. CASE \E own \in BOOLEAN : add_cocallback(w, own)
    <3>1. PICK own \in BOOLEAN : add_cocallback(w, own)
      BY <2>1, Zenon
    <3>2. callbacks' = Append(callbacks, [id |-> loc[w].id, own |-> own, funcs |-> {}])
      BY <1>1, <3>1, Zenon DEF add_cocallback
    <3>3. callbacks' # <<>>
      BY <1>0, <3>2
    <3>4. ~first' => ~first /\ (callbacks = <<>> => own)
      BY <3>1, Zenon DEF add_cocallback
    <3>5. callbacks'[1].own = IF callbacks = <<>> THEN own ELSE callbacks[1].own
      <4>1. PICK c : c = [id |-> loc[w].id, own |-> own, funcs |-> {}]
        BY Zenon
      <4>2. callbacks'[1] = IF callbacks = <<>> THEN c ELSE callbacks[1]
        <5>1. c \in Callback
          BY <1>0, <4>1, Zenon DEF WorkerTypes, Locals, Callback
        <5> QED  BY <1>0, <3>2, <4>1, <5>1
      <4>3. c.own = own
        BY <4>1, Zenon
      <4> QED  BY <4>2, <4>3, Zenon
    <3> QED  BY <1>1, <3>3, <3>4, <3>5, Zenon
  <2>2. CASE callbacks # <<>> /\ Goto(w, "unlock", [loc[w] EXCEPT !.next = "func", !.id = 0]) /\ Kept
    <3>1. Becomes(w, "unlock", 0, "func", loc[w].func)
      BY <1>0, <2>2, FoundEffect, Zenon
    <3> QED  BY <1>1, <2>2, Zenon
  <2> QED  BY <1>7, <2>1, <2>2, Zenon DEF Add, monitor_provider
<1>8. ASSUME NEW w \in Workers, UnlockLoad(w) PROVE Own
  <2>1. /\ Becomes(w, "free", loc[w].id, loc[w].next, loc[w].func) \/ Stays
        /\ pc[w] = "unlock" /\ Kept
    BY <1>0, <1>8, LoadEffect, Zenon DEF UnlockLoad
  <2> QED  BY <1>1, <2>1, ZenonT(60) DEF Provider, Becomes, Alone, Stays
<1>9. ASSUME NEW w \in Workers, unlock_coevent(w) PROVE Own
  <2>1. /\ \/ loc[w].next = "func" /\ Becomes(w, "func", 0, "func", loc[w].func)
           \/ Becomes(w, "idle", 0, "none", 0)
           \/ Stays
        /\ Kept /\ pc[w] = "free"
    BY <1>0, <1>9, UnlockEffect, Zenon DEF unlock_coevent
  <2> QED  BY <1>1, <2>1, ZenonT(60) DEF Provider, Becomes, Alone, Stays
<1>10. ASSUME NEW w \in Workers, allocate_ccb_func(w) \/ extend_ccb_table(w) PROVE Own
  <2>1. pc[w] \in {"func", "extend"} /\ Kept
    BY <1>10, Zenon DEF allocate_ccb_func, extend_ccb_table
  <2>2. PICK p, next, func : p \in {"extend", "lock"} /\ Becomes(w, p, loc[w].id, next, func)
    <3>1. CASE allocate_ccb_func(w)
      BY <1>0, <3>1, FuncEffect
    <3>2. CASE extend_ccb_table(w)
      <4>1. Goto(w, "lock", loc[w])
        BY <3>2, Zenon DEF extend_ccb_table
      <4>2. Becomes(w, "lock", loc[w].id, loc[w].next, loc[w].func)
        BY <1>0, <4>1, KeptEffect, Zenon
      <4> QED  BY <4>2
    <3> QED  BY <1>10, <3>1, <3>2, Zenon
  <2> QED  BY <1>1, <2>1, <2>2, Zenon DEF Provider, Becomes, Alone
<1>11. ASSUME NEW w \in Workers, add_func_to_provider(w) PROVE Own
  <2>1. /\ Stays \/ Becomes(w, "unlock", loc[w].id, "none", loc[w].func)
        /\ pc[w] = "provide" /\ UNCHANGED first
    BY <1>0, <1>11, ProvideEffect, Zenon DEF add_func_to_provider
  <2>2. callbacks # <<>> => callbacks' # <<>> /\ callbacks'[1].own = callbacks[1].own
    BY <1>11, ProvideKeeps, Zenon
  <2>3. callbacks = <<>> => callbacks' = <<>>
    BY <1>11, Zenon DEF add_func_to_provider
  <2> QED  BY <1>1, <2>1, <2>2, <2>3, Zenon DEF Provider, Becomes, Alone, Stays
<1>12. CASE Monitor
  <2>1. Stays /\ Kept
    BY <1>1, <1>12, ZenonT(60) DEF Monitor, init_monitoring, trigger_cocallbacks, get_next_cocallback,
                       execute_cocallback, Stays
  <2> QED  BY <1>1, <2>1, Zenon DEF Provider, Stays
<1>13. CASE ProcExit \/ PidReused \/ UNCHANGED vars
  <2>1. Stays /\ Kept
    BY <1>13, Zenon DEF ProcExit, PidReused, vars, Stays
  <2> QED  BY <1>1, <2>1, Zenon DEF Provider, Stays
<1> QED
  BY <1>2, <1>3, <1>4, <1>5, <1>6, <1>7, <1>8, <1>9, <1>10, <1>11, <1>12, <1>13, ZenonT(60)
  DEF Next, Work, add_event_listener, cocallback_register, install_cocallback

-----------------------------------------------------------------------------
(* The table of functions *)

Extenders == {w \in Workers : pc[w] = "extend"}

\* The table is short by no more than the workers that are about to extend it.
TableInv ==
    /\ idx > 0 /\ idx <= tbl_len + Cardinality(Extenders)
    /\ tbl_len > 0
    /\ \A w \in Workers : /\ loc[w].func < idx
                          /\ pc[w] \in {"alloc", "init", "publish"} => loc[w].func = 0

\* At most base_tbl_len workers extend the table at a time.
LEMMA ExtendersFinite ==
    /\ IsFiniteSet(Extenders) /\ Cardinality(Extenders) \in Nat
    /\ Cardinality(Extenders) <= base_tbl_len
<1>1. IsFiniteSet(Workers) /\ Extenders \subseteq Workers
  BY TableAssumption, Zenon DEF Extenders
<1>2. /\ IsFiniteSet(Extenders) /\ Cardinality(Extenders) \in Nat /\ Cardinality(Workers) \in Nat
      /\ Cardinality(Extenders) <= Cardinality(Workers)
  BY <1>1, FS_Subset, FS_CardinalityType, Zenon
<1> QED  BY <1>2, TableAssumption

\* Steps that leave the table and its index alone.
LEMMA TableKept ==
    ASSUME TypeInv, TableInv, FuncInTable, UNCHANGED <<idx, tbl_len>>, NEW w \in Workers,
           Alone(w), pc[w] # "extend", pc'[w] # "extend",
           loc'[w].func \in {loc[w].func, 0},
           pc'[w] \in {"alloc", "init", "publish"} => loc'[w].func = 0,
           pc'[w] = "lock" => loc'[w].func = 0
    PROVE  TableInv' /\ FuncInTable'
<1>1. Extenders' = Extenders
  BY Zenon DEF Extenders, Alone
<1>2. (Cardinality(Extenders))' = Cardinality(Extenders)
  BY <1>1, Zenon
<1>3. idx \in Nat /\ tbl_len \in Nat
  BY Zenon DEF TypeInv, StateTypes
<1> QED  BY <1>2, <1>3, Zenon DEF TableInv, FuncInTable, Alone

\* Steps that leave table and workers alone.
LEMMA TableStays ==
    ASSUME TableInv, FuncInTable, UNCHANGED <<idx, tbl_len>>, Stays
    PROVE  TableInv' /\ FuncInTable'
<1>1. (Cardinality(Extenders))' = Cardinality(Extenders)
  BY Zenon DEF Extenders, Stays
<1> QED  BY <1>1, Zenon DEF TableInv, FuncInTable, Stays

\* Claiming an entry keeps the room that the table has.
LEMMA FuncStep ==
    ASSUME TypeInv, TableInv, FuncInTable, NEW w \in Workers, allocate_ccb_func(w)
    PROVE  TableInv' /\ FuncInTable'
<1>1. /\ pc[w] = "func" /\ idx' = idx + 1 /\ tbl_len' = tbl_len
      /\ idx \in Nat /\ tbl_len \in Nat
  BY Zenon DEF allocate_ccb_func, TypeInv, StateTypes
<1>2. Becomes(w, IF idx >= tbl_len THEN "extend" ELSE "lock", loc[w].id, "provide", idx)
  BY FuncEffect, Zenon DEF TypeInv
<1>3. Cardinality(Extenders) \in Nat /\ IsFiniteSet(Extenders)
  BY ExtendersFinite, Zenon
<1>4. \A u \in Workers : u # w => loc'[u].func = loc[u].func /\ pc'[u] = pc[u]
  BY <1>2, Zenon DEF Becomes, Alone
<1>5. CASE idx >= tbl_len
  <2>1. Extenders' = Extenders \cup {w} /\ w \notin Extenders
    BY <1>1, <1>2, <1>5, Zenon DEF Extenders, Becomes, Alone
  <2>2. (Cardinality(Extenders))' = Cardinality(Extenders) + 1
    BY <1>3, <2>1, FS_AddElement, Zenon
  <2>3. pc'[w] = "extend" /\ loc'[w].func = idx
    BY <1>2, <1>5, Zenon DEF Becomes
  <2>4. ASSUME NEW u \in Workers
        PROVE  /\ tbl_len' > 0 /\ loc'[u].func < idx'
               /\ pc'[u] \in {"alloc", "init", "publish"} => loc'[u].func = 0
    <3>1. loc[u].func \in Nat
      BY Zenon DEF TypeInv, WorkerTypes, Locals
    <3>2. /\ tbl_len > 0 /\ loc[u].func < idx
          /\ pc[u] \in {"alloc", "init", "publish"} => loc[u].func = 0
      BY Zenon DEF TableInv
    <3>3. idx < idx + 1 /\ loc[u].func < idx + 1
      BY ONLY <1>1, <3>1, <3>2
    <3> QED  BY <1>1, <1>4, <2>3, <3>2, <3>3, Zenon
  <2>5. idx' > 0 /\ idx' <= tbl_len' + (Cardinality(Extenders))'
    BY <1>1, <1>3, <2>2 DEF TableInv
  <2> QED  BY <1>1, <1>4, <2>3, <2>4, <2>5, Zenon DEF TableInv, FuncInTable
<1>6. CASE idx < tbl_len
  <2>1. Extenders' = Extenders
    BY <1>1, <1>2, <1>6 DEF Extenders, Becomes, Alone
  <2>2. (Cardinality(Extenders))' = Cardinality(Extenders)
    BY <2>1, Zenon
  <2>3. pc'[w] = "lock" /\ loc'[w].func = idx
    BY <1>1, <1>2, <1>6 DEF Becomes
  <2>4. ASSUME NEW u \in Workers
        PROVE  /\ tbl_len' > 0 /\ loc'[u].func < idx'
               /\ pc'[u] \in {"alloc", "init", "publish"} => loc'[u].func = 0
    <3>1. loc[u].func \in Nat
      BY Zenon DEF TypeInv, WorkerTypes, Locals
    <3>2. /\ tbl_len > 0 /\ loc[u].func < idx
          /\ pc[u] \in {"alloc", "init", "publish"} => loc[u].func = 0
      BY Zenon DEF TableInv
    <3>3. idx < idx + 1 /\ loc[u].func < idx + 1
      BY ONLY <1>1, <3>1, <3>2
    <3> QED  BY <1>1, <1>4, <2>3, <3>2, <3>3, ZenonT(60)
  <2>5. idx' > 0 /\ idx' <= tbl_len' + (Cardinality(Extenders))'
    BY <1>1, <1>3, <1>6, <2>2 DEF TableInv
  <2> QED  BY <1>1, <1>4, <1>6, <2>3, <2>4, <2>5, ZenonT(60) DEF TableInv, FuncInTable
<1> QED  BY <1>1, <1>5, <1>6

\* So does adding base_tbl_len entries.
LEMMA ExtendStep ==
    ASSUME TypeInv, TableInv, FuncInTable, NEW w \in Workers, extend_ccb_table(w)
    PROVE  TableInv' /\ FuncInTable'
<1>1. /\ pc[w] = "extend" /\ idx' = idx
      /\ tbl_len' = IF idx < tbl_len THEN tbl_len ELSE tbl_len + base_tbl_len
      /\ idx \in Nat /\ tbl_len \in Nat /\ base_tbl_len \in Nat
  BY TableAssumption, Zenon DEF extend_ccb_table, TypeInv, StateTypes
<1>2. Becomes(w, "lock", loc[w].id, loc[w].next, loc[w].func)
  BY KeptEffect, Zenon DEF extend_ccb_table, TypeInv
<1>3. /\ Cardinality(Extenders) \in Nat /\ IsFiniteSet(Extenders)
      /\ Cardinality(Extenders) <= base_tbl_len
  BY ExtendersFinite, Zenon
<1>4. Extenders' = Extenders \ {w} /\ w \in Extenders
  BY <1>1, <1>2, Zenon DEF Extenders, Becomes, Alone
<1>5. /\ (Cardinality(Extenders))' = Cardinality(Extenders) - 1
      /\ (Cardinality(Extenders))' \in Nat
  BY <1>3, <1>4, FS_RemoveElement, FS_CardinalityType, Zenon
<1>6. idx' > 0 /\ idx' <= tbl_len' + (Cardinality(Extenders))' /\ idx <= tbl_len' /\ tbl_len <= tbl_len'
  BY <1>1, <1>3, <1>5 DEF TableInv
<1>7. tbl_len' \in Nat
  BY <1>1
<1>8. \A u \in Workers : /\ loc'[u].func = loc[u].func /\ loc[u].func \in Nat
                         /\ pc'[u] = IF u = w THEN "lock" ELSE pc[u]
  BY <1>2, Zenon DEF Becomes, Alone, TypeInv, WorkerTypes, Locals
<1>9. ASSUME NEW u \in Workers
      PROVE  /\ tbl_len' > 0 /\ loc'[u].func < idx'
             /\ pc'[u] \in {"alloc", "init", "publish"} => loc'[u].func = 0
             /\ pc'[u] = "lock" => loc'[u].func < tbl_len'
  <2>1. /\ tbl_len > 0 /\ loc[u].func < idx
        /\ pc[u] \in {"alloc", "init", "publish"} => loc[u].func = 0
    BY Zenon DEF TableInv
  <2>2. loc[u].func \in Nat /\ loc'[u].func = loc[u].func /\ idx' = idx
    BY <1>1, <1>8, Zenon
  <2>3. idx \in Nat /\ tbl_len \in Nat /\ idx <= tbl_len' /\ tbl_len <= tbl_len'
    BY <1>1, <1>6, Zenon
  <2>4. tbl_len' > 0 /\ loc[u].func < tbl_len'
    BY ONLY <1>7, <2>1, <2>2, <2>3
  <2> QED  BY <1>8, <2>1, <2>2, <2>4, Zenon
<1> QED  BY <1>6, <1>9, Zenon DEF TableInv, FuncInTable

\* Every step keeps the table's invariant.
LEMMA TableStep ==
    ASSUME TypeInv, TableInv, FuncInTable, [Next]_vars
    PROVE  TableInv' /\ FuncInTable'
<1>0. WorkerTypes
  BY Zenon DEF TypeInv
<1> DEFINE Kept == UNCHANGED <<idx, tbl_len>>
           Goal == TableInv' /\ FuncInTable'
<1> SUFFICES Goal
  BY Zenon
<1>1. ASSUME NEW w \in Workers, NEW op, NEW to \in {"alloc", "lock"}, Call(w, op, to) PROVE Goal
  <2>1. Becomes(w, to, calls + 1, "add", 0) /\ Kept /\ pc[w] = "idle"
    BY <1>0, <1>1, CallEffect, ZenonT(60) DEF Call
  <2> QED  BY <2>1, TableKept, Zenon DEF Becomes
<1>2. ASSUME NEW w \in Workers, allocate_procdeath_event(w) PROVE Goal
  <2>1. /\ \/ Becomes(w, "init", loc[w].id, loc[w].next, loc[w].func)
           \/ Becomes(w, "idle", 0, "none", 0)
           \/ Stays
        /\ Kept /\ pc[w] = "alloc"
    BY <1>0, <1>2, AllocEffect, Zenon DEF allocate_procdeath_event
  <2>2. loc[w].func = 0
    BY <2>1, Zenon DEF TableInv
  <2> QED  BY <2>1, <2>2, TableKept, TableStays, ZenonT(60) DEF Becomes
<1>3. ASSUME NEW w \in Workers, monitor_proc(w) PROVE Goal
  <2>1. /\ Becomes(w, "publish", loc[w].id, loc[w].next, loc[w].func) \/ Stays
        /\ Kept /\ pc[w] = "init"
    BY <1>0, <1>3, KeptEffect, Zenon DEF monitor_proc, Stays
  <2>2. loc[w].func = 0
    BY <2>1, Zenon DEF TableInv
  <2> QED  BY <2>1, <2>2, TableKept, TableStays, Zenon DEF Becomes
<1>4. ASSUME NEW w \in Workers, Publish(w) PROVE Goal
  <2>1. /\ \/ Becomes(w, "idle", 0, "none", 0)
           \/ Becomes(w, "lock", loc[w].id, loc[w].next, loc[w].func)
        /\ Kept /\ pc[w] = "publish"
    BY <1>0, <1>4, KeptEffect, ReturnEffect, Zenon DEF Publish
  <2>2. loc[w].func = 0
    BY <2>1, Zenon DEF TableInv
  <2> QED  BY <2>1, <2>2, TableKept, Zenon DEF Becomes
<1>5. ASSUME NEW w \in Workers, lock_coevent(w) PROVE Goal
  <2>1. Becomes(w, loc[w].next, loc[w].id, loc[w].next, loc[w].func) /\ Kept /\ pc[w] = "lock"
    BY <1>0, <1>5, KeptEffect, Zenon DEF lock_coevent
  <2>2. loc[w].next \in {"add", "provide"}
    BY <1>0, <2>1, Zenon DEF WorkerTypes, Goes
  <2> QED  BY <2>1, <2>2, TableKept, Zenon DEF Becomes
<1>6. ASSUME NEW w \in Workers, Add(w) PROVE Goal
  <2>1. pc[w] = "add" /\ Kept
    BY <1>6, Zenon DEF Add
  <2>2. PICK id, next : Becomes(w, "unlock", id, next, loc[w].func)
    BY <1>0, <1>6, AddEffect, FoundEffect, ZenonT(60) DEF Add, monitor_provider
  <2> QED  BY <2>1, <2>2, TableKept, Zenon DEF Becomes
<1>7. ASSUME NEW w \in Workers, UnlockLoad(w) PROVE Goal
  <2>1. /\ Becomes(w, "free", loc[w].id, loc[w].next, loc[w].func) \/ Stays
        /\ pc[w] = "unlock" /\ Kept
    BY <1>0, <1>7, LoadEffect, Zenon DEF UnlockLoad
  <2> QED  BY <2>1, TableKept, TableStays, Zenon DEF Becomes
<1>8. ASSUME NEW w \in Workers, unlock_coevent(w) PROVE Goal
  <2>1. /\ Becomes(w, "func", 0, "func", loc[w].func) \/ Becomes(w, "idle", 0, "none", 0) \/ Stays
        /\ Kept /\ pc[w] = "free"
    BY <1>0, <1>8, UnlockEffect, Zenon DEF unlock_coevent
  <2> QED  BY <2>1, TableKept, TableStays, Zenon DEF Becomes
<1>9. ASSUME NEW w \in Workers, allocate_ccb_func(w) \/ extend_ccb_table(w) PROVE Goal
  BY <1>9, FuncStep, ExtendStep, Zenon
<1>10. ASSUME NEW w \in Workers, add_func_to_provider(w) PROVE Goal
  <2>1. /\ Stays \/ Becomes(w, "unlock", loc[w].id, "none", loc[w].func)
        /\ pc[w] = "provide" /\ Kept
    BY <1>0, <1>10, ProvideEffect, Zenon DEF add_func_to_provider
  <2> QED  BY <2>1, TableKept, TableStays, Zenon DEF Becomes
<1>11. CASE Monitor \/ ProcExit \/ PidReused \/ UNCHANGED vars
  <2>1. Stays /\ Kept
    BY <1>11, Zenon DEF Monitor, init_monitoring, trigger_cocallbacks, get_next_cocallback,
                 execute_cocallback, flag_dead_provider, ProcExit, PidReused, vars, Stays
  <2> QED  BY <2>1, TableStays, Zenon
<1> QED
  BY <1>1, <1>2, <1>3, <1>4, <1>5, <1>6, <1>7, <1>8, <1>9, <1>10, <1>11, ZenonT(60)
  DEF Next, Work, add_event_listener, cocallback_register, install_cocallback

-----------------------------------------------------------------------------
(* The theorems *)

\* An assertion fails only in the states the property names.
LEMMA EndStep ==
    ASSUME TypeInv, LockInv, OwnInv, EndNeedsCause, [Next]_vars
    PROVE  EndNeedsCause'
<1>1. ASSUME NEW w \in Workers, UnlockLoad(w) PROVE EndNeedsCause'
  BY <1>1 DEF UnlockLoad, LockInv, Holding, EndNeedsCause
<1>2. ASSUME NEW w \in Workers, unlock_coevent(w) PROVE EndNeedsCause'
  BY <1>2, Zenon DEF unlock_coevent, LockInv, Holding, EndNeedsCause
<1>3. ASSUME NEW w \in Workers, add_func_to_provider(w) PROVE EndNeedsCause'
  <2>1. pc[w] = "provide" /\ UNCHANGED <<proc, first>> /\ ended = "no"
    BY <1>3, Zenon DEF add_func_to_provider
  <2>2. ended' = ended \/ (ended' = "head" /\ (callbacks = <<>> \/ ~Head(callbacks).own))
    BY <1>3, Zenon DEF add_func_to_provider
  <2>3. ASSUME callbacks # <<>> PROVE Head(callbacks) = callbacks[1]
    BY <2>3 DEF TypeInv, StateTypes
  <2>4. proc.gen \in Nat
    BY ZenonT(60) DEF TypeInv, StateTypes
  <2> QED  BY <2>1, <2>2, <2>3, <2>4 DEF EndNeedsCause, OwnInv, Provider
<1>4. ASSUME ~\E w \in Workers : UnlockLoad(w) \/ unlock_coevent(w) \/ add_func_to_provider(w), Next
      PROVE  ended = "no" /\ ended' \in {"no", "null event", "no kqueue", "callback"}
  BY <1>4, ZenonT(60) DEF Next, Work, Monitor, add_event_listener, cocallback_register, install_cocallback, Call,
     allocate_procdeath_event, monitor_proc, Publish, lock_coevent, Add,
     allocate_ccb_func, extend_ccb_table, init_monitoring, trigger_cocallbacks,
     get_next_cocallback, execute_cocallback, ProcExit, PidReused
<1>5. CASE UNCHANGED vars
  BY <1>5, Zenon DEF vars, EndNeedsCause
<1> QED  BY <1>1, <1>2, <1>3, <1>4, <1>5, Zenon DEF EndNeedsCause

\* The inductive invariant.
CoeventInv == /\ TypeInv /\ LockInv /\ SetUpInv /\ ListInv /\ OwnInv /\ TableInv
              /\ EndNeedsCause /\ FuncInTable

\* The inductive invariant of coeventd.
LEMMA CoeventInvariant == Spec => []CoeventInv
<1>1. ASSUME Init PROVE CoeventInv
  <2>1. TypeInv
    BY <1>1, TypeInit, Zenon
  <2>2. Extenders = {} /\ Cardinality(Extenders) = 0
    BY <1>1, FS_EmptySet, Zenon DEF Init, Extenders
  <2>3. /\ \A w \in Workers : pc[w] = "idle" /\ loc[w] = NoLocals
        /\ idx = 1 /\ tbl_len = base_tbl_len
    BY <1>1 DEF Init, init_cocallback_func_utils, provider_death
  <2>4. \A w \in Workers : loc[w].func = 0 /\ loc[w].next = "none"
    BY <2>3 DEF NoLocals
  <2>6. TableInv
    BY <2>2, <2>3, <2>4, TableAssumption DEF TableInv
  <2>7. LockInv /\ FuncInTable /\ EndNeedsCause
    BY <1>1, <2>3, Zenon DEF Init, LockInv, Holding, Draining, FuncInTable, EndNeedsCause
  <2>8. SetUpInv
    BY <1>1, <2>3, Zenon DEF Init, SetUpInv
  <2>9. ListInv
    BY <1>1, <2>3 DEF Init, ListInv
  <2>10. OwnInv
    BY <1>1, <2>3 DEF Init, OwnInv, Provider
  <2> QED  BY <2>1, <2>6, <2>7, <2>8, <2>9, <2>10, ZenonT(60) DEF CoeventInv
<1>2. CoeventInv /\ [Next]_vars => CoeventInv'
  BY TypeStep, LockStep, SetUpStep, ListStep, OwnStep, TableStep, EndStep, Zenon DEF CoeventInv
<1> QED  BY <1>1, <1>2, PTL DEF Spec

\* One thread at a time works on the list of callbacks, until the main thread
\* takes the lock from a worker (coevent_utils.c 56-91, procdeath.c 155).
THEOREM OneHolderAtATime == Spec => []OneHolder
<1>1. ASSUME TypeInv, LockInv PROVE OneHolder
  <2> SUFFICES ASSUME ~overrun
               PROVE  Cardinality(Holders) + (IF mpc \in {"next", "run"} THEN 1 ELSE 0) <= 1
    BY Zenon DEF OneHolder
  <2>1. \A u, w \in Holders : u = w
    BY <1>1, Zenon DEF LockInv, Holders, Holding
  <2>2. CASE Holders = {}
    BY <2>2, FS_EmptySet
  <2>3. CASE Holders # {}
    <3>1. PICK w : Holders = {w}
      BY <2>1, <2>3
    <3>2. Cardinality(Holders) = 1
      BY <3>1, FS_Singleton, Zenon
    <3>3. mpc \notin {"next", "run"}
      BY <1>1, <3>1, Zenon DEF LockInv, Holders, Holding, Draining
    <3> QED  BY <3>2, <3>3
  <2> QED  BY <2>2, <2>3, Zenon
<1> QED  BY <1>1, CoeventInvariant, PTL DEF CoeventInv

\* No installed callback is lost, neither by the drain nor by setting the event
\* up again for the next process with the pid (procdeath_tbl.c 81-87).
THEOREM NoCallbackForgotten == Spec => []NothingForgotten
<1>1. CoeventInv => NothingForgotten
  BY ListRemembers, Zenon DEF CoeventInv
<1> QED  BY <1>1, CoeventInvariant, PTL

\* coeventd's assertions fail only after an overrun lock, or when a consumer
\* came first or the process is gone (coevent_utils.c 87-91,
\* cocallback_register.c 96).
THEOREM AssertionsHold == Spec => []EndNeedsCause
<1>1. CoeventInv => EndNeedsCause
  BY Zenon DEF CoeventInv
<1> QED  BY <1>1, CoeventInvariant, PTL

\* Every function stored is within the table, although an index past the end is
\* kept while the table is extended, if the table grows by at least as many
\* entries as there are workers (cocallback_func_utils.c 60-100).
THEOREM FunctionsInTable == Spec => []FuncInTable
<1>1. CoeventInv => FuncInTable
  BY Zenon DEF CoeventInv
<1> QED  BY <1>1, CoeventInvariant, PTL
=============================================================================
