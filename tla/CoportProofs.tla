--------------------------- MODULE CoportProofs ----------------------------
(* Proofs about the coports other than cocarriers, for any number of threads, *)
(* slots and calls and any size of the buffer: the slots of the table are     *)
(* handed out once, the status word is a lock, a copipe implements the        *)
(* rendezvous of Rendezvous, and a cochannel is a queue of bytes.             *)
EXTENDS CoportIPC, FiniteSetTheorems, TLAPS

-----------------------------------------------------------------------------
(* Positions modulo the size of a ring.  The solvers know quotient and       *)
(* remainder only through DivMod: each fact is brought back to it by hand.   *)

\* Quotient and remainder, as the solver knows them.
LEMMA DivMod ==
    ASSUME NEW N \in Nat \ {0}, NEW a \in Nat
    PROVE  a = N * (a \div N) + (a % N) /\ a \div N \in Nat /\ a % N \in 0 .. N - 1
  BY Z3

\* The remainder is the only r below N with a = N * q + r.
LEMMA ModUnique ==
    ASSUME NEW N \in Nat \ {0}, NEW a \in Nat,
           NEW q \in Nat, NEW r \in 0 .. N - 1, a = N * q + r
    PROVE  a % N = r
  <1> DEFINE p == a \div N  s == a % N
  <1>1. N * p + s = N * q + r /\ p \in Nat /\ s \in 0 .. N - 1
    BY DivMod, Zenon
  <1> HIDE DEF p
  <1>2. CASE p < q
    <2>1. N * q >= N * (p + 1)  BY <1>1, <1>2
    <2> HIDE DEF s
    <2> QED  BY <2>1, <1>1
  <1>3. CASE p > q
    <2>1. N * p >= N * (q + 1)  BY <1>1, <1>3
    <2> HIDE DEF s
    <2> QED  BY <2>1, <1>1
  <1>4. CASE p = q
    BY <1>1, <1>4
  <1> QED  BY <1>1, <1>2, <1>3, <1>4

\* Taking the remainder first makes no difference to a later one.
LEMMA ModAdd ==
    ASSUME NEW N \in Nat \ {0}, NEW a \in Nat, NEW b \in Nat
    PROVE  ((a % N) + b) % N = (a + b) % N
  <1> DEFINE p == a \div N  s == a % N  c == s + b  u == c \div N  v == c % N
  <1>1. a = N * p + s /\ p \in Nat /\ s \in 0 .. N - 1
    BY DivMod, Zenon
  <1>2. c \in Nat
    BY <1>1
  <1>3. c = N * u + v /\ u \in Nat /\ v \in 0 .. N - 1
    BY <1>2, DivMod, Zenon
  <1> HIDE DEF p, s, u, v
  <1>4. a + b = N * (p + u) + v /\ p + u \in Nat /\ a + b \in Nat
    BY <1>1, <1>3
  <1>5. (a + b) % N = v
    BY <1>3, <1>4, ModUnique, Zenon
  <1> QED  BY <1>5, Zenon DEF v, s

\* Two numbers less than N apart have different remainders.
LEMMA ModInjective ==
    ASSUME NEW N \in Nat \ {0}, NEW a \in Nat, NEW b \in Nat, a < b, b < a + N
    PROVE  a % N # b % N
  <1> DEFINE p == a \div N  s == a % N  q == b \div N  r == b % N
  <1> SUFFICES ASSUME s = r PROVE FALSE
    BY Zenon
  <1>1. a = N * p + s /\ p \in Nat /\ s \in 0 .. N - 1
    BY DivMod, Zenon
  <1>2. b = N * q + r /\ q \in Nat /\ r \in 0 .. N - 1
    BY DivMod, Zenon
  <1> HIDE DEF p, s, q, r
  <1>3. p < q
    BY <1>1, <1>2
  <1>4. N * q >= N * (p + 1)
    BY <1>1, <1>2, <1>3
  <1> QED  BY <1>1, <1>2, <1>4

\* The distance between two positions less than N apart, going forward.
LEMMA ModDistance ==
    ASSUME NEW N \in Nat \ {0}, NEW a \in Nat, NEW k \in 0 .. N - 1
    PROVE  (((a + k) % N) - (a % N)) % N = k
  <1> DEFINE p == a \div N  s == a % N  b == a + k  q == b \div N  r == b % N
  <1>1. a = N * p + s /\ p \in Nat /\ s \in 0 .. N - 1
    BY DivMod, Zenon
  <1>2. b = a + k /\ b \in Nat
    OBVIOUS
  <1> HIDE DEF b
  <1>3. b = N * q + r /\ q \in Nat /\ r \in 0 .. N - 1
    BY <1>2, DivMod, Zenon
  <1> HIDE DEF p, s, q, r
  <1>4. N * q + r = N * p + s + k
    BY <1>1, <1>2, <1>3, Zenon
  <1>5. r - s = k \/ r - s = k - N
    <2>1. CASE q < p
      <3>1. N * p >= N * (q + 1)  BY <1>1, <1>3, <2>1
      <3> QED  BY <3>1, <1>1, <1>3, <1>4
    <2>2. CASE q = p
      BY <2>2, <1>1, <1>3, <1>4
    <2>3. CASE q = p + 1
      <3>1. N * q = N * p + N  BY <1>1, <1>3, <2>3
      <3> QED  BY <3>1, <1>1, <1>3, <1>4
    <2>4. CASE q > p + 1
      <3>1. N * q >= N * (p + 2)  BY <1>1, <1>3, <2>4
      <3>2. N * (p + 2) = N * p + 2 * N  BY <1>1
      <3> QED  BY <3>1, <3>2, <1>1, <1>3, <1>4
    <2> QED  BY <2>1, <2>2, <2>3, <2>4, <1>1, <1>3
  <1>6. k % N = k /\ (k - N) % N = k
    <2>1. k % N = k
      BY ModUnique
    <2>2. (k - N) % N = k
      BY Z3
    <2> QED  BY <2>1, <2>2, Zenon
  <1>7. (r - s) % N = k
    BY <1>5, <1>6, Zenon
  <1> QED  BY <1>7, Zenon DEF r, s, b


-----------------------------------------------------------------------------
(* Types of CoportIPC, cases of its steps, the table *)

\* Where a thread can be, by what it needs.
Opening == {"coopen_test", "allocate", "count"}
PipeSteps == {"psend", "pcopy", "precv", "plend", "pwait", "ptake"}
ChanSteps == {"csend", "cwrite", "crecv", "cread"}
Steps == {"idle", "close", "closing"} \cup Opening \cup PipeSteps \cup ChanSteps

Bufs == [owner : Threads, tag : BOOLEAN, len : Lens]
Ports == [type : Types, status : {"OPEN", "BUSY", "READY", "DONE", "CLOSING"},
          start : Int, end : Int, buf : Bufs \cup {NULL}, length : Int,
          event : SUBSET {"IN", "OUT", "CLOSED"}]

\* The locals of a call, as far as the steps use them.
LocalsOK == \A t \in Threads :
    /\ pc[t] \in Opening => loc[t].type \in Types
    /\ pc[t] \in {"allocate", "count"} => loc[t].tested \in Nat
    /\ pc[t] = "count" => loc[t].index \in Nat
    /\ pc[t] \in PipeSteps \cup ChanSteps => loc[t].len \in Lens
    /\ pc[t] \in {"precv", "plend", "pwait", "ptake"} => loc[t].tag \in BOOLEAN
    /\ pc[t] \in ChanSteps => loc[t].read \in Int

\* Whoever is in a call on the port found it open, and of that call's type.
PortKnown == \A t \in Threads :
    /\ pc[t] \in PipeSteps => port \in Ports /\ port.type = "COPIPE"
    /\ pc[t] \in ChanSteps => port \in Ports /\ port.type = "COCHANNEL"
    /\ pc[t] \in {"close", "closing"} => port \in Ports

TypeInv ==
    /\ next_coport \in [Types -> Nat] /\ ncoports \in [Types -> Nat]
    /\ entries \in [Types -> SUBSET Nat]
    /\ alive \in BOOLEAN
    /\ pc \in [Threads -> Steps]
    /\ loc = [t \in Threads |-> loc[t]]
    /\ port \in Ports \cup {NULL}
    /\ inbox \in [Threads -> Seq(Int)]
    /\ LocalsOK /\ PortKnown

\* A step of t leaves the place and the locals of every other thread alone.
Moves(t, to) == /\ pc' = [pc EXCEPT ![t] = to] /\ pc' \in [Threads -> Steps]
                /\ loc' = [u \in Threads |-> loc'[u]]
                /\ \A u \in Threads \ {t} : pc'[u] = pc[u] /\ loc'[u] = loc[u]
                /\ pc'[t] = to

\* NULL is neither a port nor a buffer.
LEMMA NullIsNoPort == NULL \notin Ports /\ NULL \notin Bufs
  BY Zenon DEF NULL, Ports, Bufs

\* A thread starts a call, with its locals.
LEMMA CallMoves ==
    ASSUME TypeInv, NEW t \in Threads, NEW to \in Steps, NEW l, Call(t, to, l)
    PROVE  Moves(t, to) /\ loc'[t] = l /\ pc[t] = "idle" /\ alive
  BY Zenon DEF TypeInv, Call, Moves

\* It moves on inside a call, its locals unchanged.
LEMMA StepMoves ==
    ASSUME TypeInv, NEW t \in Threads, NEW from, NEW to \in Steps, Step(t, from, to)
    PROVE  Moves(t, to) /\ loc' = loc /\ pc[t] = from /\ alive
  BY Zenon DEF TypeInv, Step, Moves

\* It returns, and forgets its locals.
LEMMA ReturnMoves ==
    ASSUME TypeInv, NEW t \in Threads, NEW from, Return(t, from)
    PROVE  Moves(t, "idle") /\ loc'[t] = NoLocals /\ pc[t] = from /\ alive
  BY Zenon DEF TypeInv, Return, Moves, Steps

-----------------------------------------------------------------------------
\* Types.  Every action is one of these: it moves t with locals that suit the
\* step reached, and keeps the port and the inboxes well typed.
LEMMA Retyped ==
    ASSUME TypeInv, NEW t \in Threads, NEW to \in Steps, Moves(t, to),
           /\ to \in Opening => loc'[t].type \in Types
           /\ to \in {"allocate", "count"} => loc'[t].tested \in Nat
           /\ to = "count" => loc'[t].index \in Nat
           /\ to \in PipeSteps \cup ChanSteps => loc'[t].len \in Lens
           /\ to \in {"precv", "plend", "pwait", "ptake"} => loc'[t].tag \in BOOLEAN
           /\ to \in ChanSteps => loc'[t].read \in Int
    PROVE  pc' \in [Threads -> Steps] /\ loc' = [u \in Threads |-> loc'[u]] /\ LocalsOK'
  BY ZenonT(60) DEF TypeInv, LocalsOK, Moves

\* The initial state is well typed.
LEMMA TypeInit == Init => TypeInv
  BY NullIsNoPort DEF Init, TableInit, CallsInit, TypeInv, LocalsOK, PortKnown, NoLocals, Steps, Opening,
     PipeSteps, ChanSteps

\* Opening changes the tables only.
TablesOK == /\ next_coport \in [Types -> Nat] /\ ncoports \in [Types -> Nat]
            /\ entries \in [Types -> SUBSET Nat] /\ alive \in BOOLEAN

\* What a thread needs of the port, kept by whoever else changes it.
LEMMA PortStays ==
    ASSUME TypeInv, NEW t \in Threads, NEW to \in Steps, Moves(t, to),
           port # NULL => port' \in Ports /\ port'.type = port.type,
           to \in PipeSteps => port' \in Ports /\ port'.type = "COPIPE",
           to \in ChanSteps => port' \in Ports /\ port'.type = "COCHANNEL",
           to \in {"close", "closing"} => port' \in Ports
    PROVE  PortKnown'
  BY NullIsNoPort, Zenon DEF TypeInv, PortKnown, Moves

\* The steps of coopen before the port is made.
LEMMA TypeOpen ==
    ASSUME TypeInv, NEW t \in Threads, OpenSteps(t), UNCHANGED ipcVars
    PROVE  TypeInv'
  <1> USE DEF ipcVars, tableVars, Steps, Opening, PipeSteps, ChanSteps
  <1>p. port # NULL => port' \in Ports /\ port'.type = port.type
    BY Zenon DEF TypeInv
  <1>i. port' \in Ports \cup {NULL} /\ inbox' \in [Threads -> Seq(Int)]
    BY Zenon DEF TypeInv
  <1>1. CASE coport_open(t)
    <2>1. PICK type \in Types : Call(t, "coopen_test", [type |-> type]) /\ UNCHANGED tableVars
      BY <1>1, Zenon DEF coport_open
    <2>2. Moves(t, "coopen_test") /\ loc'[t].type \in Types
      BY <2>1, CallMoves
    <2>3. LocalsOK' /\ PortKnown' /\ pc' \in [Threads -> Steps] /\ loc' = [u \in Threads |-> loc'[u]]
      BY <2>2, <1>p, Retyped, PortStays, Zenon
    <2> QED  BY <2>1, <2>3, <1>i, Zenon DEF TypeInv
  <1>2. CASE OpenRefused(t)
    <2>2. Moves(t, "idle")
      BY <1>2, ReturnMoves, Zenon DEF OpenRefused
    <2>3. LocalsOK' /\ PortKnown' /\ pc' \in [Threads -> Steps] /\ loc' = [u \in Threads |-> loc'[u]]
      BY <2>2, <1>p, Retyped, PortStays, Zenon
    <2> QED  BY <1>2, <2>3, <1>i, Zenon DEF TypeInv, OpenRefused
  <1>3. CASE OpenAdmitted(t)
    <2>1. pc[t] = "coopen_test" /\ loc[t].type \in Types /\ ncoports[loc[t].type] \in Nat
      BY <1>3, Zenon DEF OpenAdmitted, TypeInv, LocalsOK
    <2>2. Moves(t, "allocate") /\ loc'[t].type \in Types /\ loc'[t].tested \in Nat
      BY <1>3, <2>1, Zenon DEF OpenAdmitted, TypeInv, Moves
    <2>3. LocalsOK' /\ PortKnown' /\ pc' \in [Threads -> Steps] /\ loc' = [u \in Threads |-> loc'[u]]
      BY <2>2, <1>p, Retyped, PortStays, Zenon
    <2> QED  BY <1>3, <2>3, <1>i, Zenon DEF TypeInv, OpenAdmitted
  <1>4. CASE allocate_coport(t)
    <2>1. /\ pc[t] = "allocate" /\ loc[t].type \in Types /\ loc[t].tested \in Nat
          /\ next_coport[loc[t].type] \in Nat
      BY <1>4, Zenon DEF allocate_coport, TypeInv, LocalsOK
    <2>2. Moves(t, "count") /\ loc'[t].type \in Types /\ loc'[t].tested \in Nat /\ loc'[t].index \in Nat
      BY <1>4, <2>1, Zenon DEF allocate_coport, TypeInv, Moves
    <2>3. LocalsOK' /\ PortKnown' /\ pc' \in [Threads -> Steps] /\ loc' = [u \in Threads |-> loc'[u]]
      BY <2>2, <1>p, Retyped, PortStays, Zenon
    <2>4. TablesOK'
      <3>1. next_coport[loc[t].type] + 1 \in Nat
        BY ONLY <2>1
      <3>2. /\ next_coport' = [next_coport EXCEPT ![loc[t].type] = @ + 1]
            /\ UNCHANGED <<ncoports, entries>>
        BY <1>4, Zenon DEF allocate_coport
      <3>3. /\ next_coport \in [Types -> Nat] /\ ncoports \in [Types -> Nat]
            /\ entries \in [Types -> SUBSET Nat]
        BY Zenon DEF TypeInv
      <3>4. alive' \in BOOLEAN
        BY <1>4 DEF allocate_coport, in_coport_table
      <3> QED  BY ONLY <2>1, <3>1, <3>2, <3>3, <3>4 DEF TablesOK
    <2> QED  BY <2>3, <2>4, <1>i, Zenon DEF TypeInv, TablesOK
  <1> QED  BY <1>1, <1>2, <1>3, <1>4, Zenon DEF OpenSteps

\* A step that moves t and changes neither tables nor locals beyond the type.
LEMMA TypeFrame ==
    ASSUME TypeInv, NEW t \in Threads, NEW to \in Steps, Moves(t, to), UNCHANGED tableVars,
           to \notin Opening,
           to \in PipeSteps \cup ChanSteps => loc'[t].len \in Lens,
           to \in {"precv", "plend", "pwait", "ptake"} => loc'[t].tag \in BOOLEAN,
           to \in ChanSteps => loc'[t].read \in Int,
           port' = port \/ (port \in Ports /\ port' \in Ports /\ port'.type = port.type),
           inbox' \in [Threads -> Seq(Int)],
           to \in PipeSteps => port \in Ports /\ port.type = "COPIPE",
           to \in ChanSteps => port \in Ports /\ port.type = "COCHANNEL",
           to \in {"close", "closing"} => port \in Ports
    PROVE  TypeInv'
  <1>1. LocalsOK' /\ pc' \in [Threads -> Steps] /\ loc' = [u \in Threads |-> loc'[u]]
    BY Retyped, Zenon DEF Opening
  <1>2. port # NULL => port' \in Ports /\ port'.type = port.type
    BY Zenon DEF TypeInv
  <1>3. PortKnown'
    BY <1>2, PortStays, Zenon
  <1> QED  BY <1>1, <1>3, Zenon DEF TypeInv, tableVars

\* Taking the status word.
LEMMA TypeAcquire ==
    ASSUME TypeInv, NEW t \in Threads, NEW from, NEW expected, NEW to \in Steps,
           acquire_coport_status(t, from, expected, to),
           <<from, to>> \in {<<"psend", "pcopy">>, <<"precv", "plend">>, <<"pwait", "ptake">>,
                             <<"csend", "cwrite">>, <<"crecv", "cread">>, <<"close", "closing">>}
    PROVE  /\ TypeInv' /\ Moves(t, to) /\ loc' = loc /\ pc[t] = from /\ inbox' = inbox
           /\ port \in Ports /\ port.status = expected /\ port' \in Ports
           /\ port' = [port EXCEPT !.status = "BUSY"]
  <1> USE DEF Opening, PipeSteps, ChanSteps
  <1>1. Step(t, from, to) /\ port' = [port EXCEPT !.status = "BUSY"] /\ UNCHANGED <<tableVars, inbox>>
        /\ port.status = expected
    BY Zenon DEF acquire_coport_status
  <1>2. Moves(t, to) /\ loc' = loc /\ pc[t] = from
    BY <1>1, StepMoves, Zenon
  <1>3. /\ port \in Ports
        /\ to \in PipeSteps => port.type = "COPIPE"
        /\ to \in ChanSteps => port.type = "COCHANNEL"
    BY <1>2, Zenon DEF TypeInv, PortKnown
  <1>4. port' \in Ports /\ port'.type = port.type
    BY <1>1, <1>3, Zenon DEF Ports
  <1>5. /\ to \in PipeSteps \cup ChanSteps => loc[t].len \in Lens
        /\ to \in {"precv", "plend", "pwait", "ptake"} => loc[t].tag \in BOOLEAN
        /\ to \in ChanSteps => loc[t].read \in Int
    BY <1>2, Zenon DEF TypeInv, LocalsOK
  <1>6. inbox' \in [Threads -> Seq(Int)]
    BY <1>1, Zenon DEF TypeInv
  <1>7. TypeInv'
    BY <1>1, <1>2, <1>3, <1>4, <1>5, <1>6, TypeFrame, ZenonT(60)
  <1> QED  BY <1>1, <1>2, <1>3, <1>4, <1>7, Zenon

\* A return that leaves a port of the same type.
LEMMA TypeReturn ==
    ASSUME TypeInv, NEW t \in Threads, NEW from, Return(t, from), UNCHANGED tableVars,
           port' = port \/ (port \in Ports /\ port' \in Ports /\ port'.type = port.type),
           inbox' \in [Threads -> Seq(Int)]
    PROVE  TypeInv'
  <1>1. Moves(t, "idle") /\ "idle" \in Steps
    BY ReturnMoves, Zenon DEF Steps
  <1> QED  BY <1>1, TypeFrame, Zenon DEF Opening, PipeSteps, ChanSteps

\* The steps of a copipe that release the word.
LEMMA TypePipe ==
    ASSUME TypeInv, NEW t \in Threads, PipeCopy(t) \/ PipeLend(t) \/ PipeTake(t)
    PROVE  TypeInv' /\ port \in Ports /\ port' \in Ports
  <1>1. CASE PipeCopy(t)
    <2>1. port \in Ports /\ loc[t].len \in Lens /\ loc[t].len \in Int
      <3>1. pc[t] = "pcopy"
        BY <1>1, ReturnMoves, Zenon DEF PipeCopy
      <3>2. port \in Ports /\ loc[t].len \in Lens
        BY <3>1, Zenon DEF TypeInv, PortKnown, LocalsOK, PipeSteps
      <3> QED  BY ONLY <3>2 DEF Lens
    <2>2. port' \in Ports /\ port'.type = port.type
      BY <1>1, <2>1, ZenonT(60) DEF PipeCopy, Ports, release_coport_status
    <2>3. inbox' \in [Threads -> Seq(Int)]
      <3>1. inbox \in [Threads -> Seq(Int)]  BY Zenon DEF TypeInv
      <3>2. \A s \in Seq(Int) : Append(s, loc[t].len) \in Seq(Int)  BY <2>1
      <3> QED  BY <1>1, <3>1, <3>2, ZenonT(60) DEF PipeCopy
    <2> QED  BY <1>1, <2>1, <2>2, <2>3, TypeReturn, ZenonT(60) DEF PipeCopy
  <1>2. CASE PipeLend(t)
    <2>1. Moves(t, "pwait") /\ pc[t] = "plend" /\ loc' = loc /\ "pwait" \in Steps
      BY <1>2, StepMoves, Zenon DEF PipeLend, Steps, PipeSteps
    <2>2. port \in Ports /\ port.type = "COPIPE" /\ loc[t].len \in Lens /\ loc[t].tag \in BOOLEAN
      BY <2>1, Zenon DEF TypeInv, PortKnown, LocalsOK, PipeSteps
    <2>3. port' \in Ports /\ port'.type = port.type
      BY <1>2, <2>2, Zenon DEF PipeLend, Ports, Bufs
    <2>4. inbox' \in [Threads -> Seq(Int)] /\ UNCHANGED tableVars
      BY <1>2 DEF PipeLend, TypeInv
    <2> QED  BY <2>1, <2>2, <2>3, <2>4, TypeFrame, Zenon DEF Opening, PipeSteps, ChanSteps
  <1>3. CASE PipeTake(t)
    <2>1. port \in Ports
      BY <1>3, ReturnMoves, Zenon DEF PipeTake, TypeInv, PortKnown, PipeSteps
    <2>2. port' \in Ports /\ port'.type = port.type
      <3>1. port' = [port EXCEPT !.status = "OPEN", !.buf = NULL, !.length = 0]
        BY <1>3, Zenon DEF PipeTake
      <3>2. NULL \in Bufs \cup {NULL} /\ 0 \in Int
        OBVIOUS
      <3> QED  BY ONLY <2>1, <3>1, <3>2, Zenon DEF Ports
    <2>3. inbox' \in [Threads -> Seq(Int)]
      <3>1. <<>> \in Seq(Int)
        OBVIOUS
      <3> QED  BY <1>3, <3>1, Zenon DEF PipeTake, TypeInv
    <2> QED  BY <1>3, <2>1, <2>2, <2>3, TypeReturn, ZenonT(60) DEF PipeTake
  <1> QED  BY <1>1, <1>2, <1>3, Zenon

\* Lengths and positions stay integers: % is applied to a positive modulus.
LEMMA TypeChan ==
    ASSUME TypeInv, NEW t \in Threads, ChanWrite(t) \/ ChanRead(t) \/ CloseMark(t)
    PROVE  TypeInv' /\ port \in Ports /\ port' \in Ports
  <1>m. /\ COPORT_BUF_LEN \in Nat \ {0} /\ SIZE_MODULUS \in Nat \ {0}
        /\ \A x \in Int : x % COPORT_BUF_LEN \in Int /\ x % SIZE_MODULUS \in Int
    BY BufAssumption
  <1>1. CASE ChanWrite(t)
    <2>1. port \in Ports /\ loc[t].len \in Int /\ loc[t].read \in Int
      <3>1. pc[t] = "cwrite"
        BY <1>1, ReturnMoves, Zenon DEF ChanWrite
      <3>2. port \in Ports /\ loc[t].len \in Lens /\ loc[t].read \in Int
        BY <3>1, Zenon DEF TypeInv, PortKnown, LocalsOK, ChanSteps
      <3> QED  BY ONLY <3>2 DEF Lens
    <2>2. Advance(port.end, loc[t].len) \in Int /\ (loc[t].len + loc[t].read) % SIZE_MODULUS \in Int
      BY <2>1, <1>m DEF Advance, Ports
    <2>3. SendEvent(port.event, (loc[t].len + loc[t].read) % SIZE_MODULUS) \in SUBSET {"IN", "OUT", "CLOSED"}
      BY <2>1, Zenon DEF SendEvent, Ports
    <2>4. port' \in Ports /\ port'.type = port.type
      BY <1>1, <2>1, <2>2, <2>3, ZenonT(60) DEF ChanWrite, Ports, release_coport_status
    <2>5. inbox' \in [Threads -> Seq(Int)] /\ UNCHANGED tableVars /\ Return(t, "cwrite")
      BY <1>1, Zenon DEF ChanWrite, TypeInv
    <2> QED  BY <2>1, <2>4, <2>5, TypeReturn, ZenonT(60)
  <1>2. CASE ChanRead(t)
    <2>1. port \in Ports /\ loc[t].len \in Int /\ loc[t].read \in Int
      <3>1. pc[t] = "cread"
        BY <1>2, ReturnMoves, Zenon DEF ChanRead
      <3>2. port \in Ports /\ loc[t].len \in Lens /\ loc[t].read \in Int
        BY <3>1, Zenon DEF TypeInv, PortKnown, LocalsOK, ChanSteps
      <3> QED  BY ONLY <3>2 DEF Lens
    <2>2. Advance(port.start, loc[t].len) \in Int /\ (loc[t].read - loc[t].len) % SIZE_MODULUS \in Int
      BY <2>1, <1>m DEF Advance, Ports
    <2>3. RecvEvent(port.event, (loc[t].read - loc[t].len) % SIZE_MODULUS) \in SUBSET {"IN", "OUT", "CLOSED"}
      BY <2>1, Zenon DEF RecvEvent, Ports
    <2>4. port' \in Ports /\ port'.type = port.type
      BY <1>2, <2>1, <2>2, <2>3, ZenonT(60) DEF ChanRead, Ports, release_coport_status
    <2>5. inbox' \in [Threads -> Seq(Int)] /\ UNCHANGED tableVars /\ Return(t, "cread")
      BY <1>2, Zenon DEF ChanRead, TypeInv
    <2> QED  BY <2>1, <2>4, <2>5, TypeReturn, Zenon
  <1>3. CASE CloseMark(t)
    <2>1. port \in Ports
      BY <1>3, ReturnMoves, Zenon DEF CloseMark, TypeInv, PortKnown
    <2>4. port' \in Ports /\ port'.type = port.type
      BY <1>3, <2>1, Zenon DEF CloseMark, Ports, release_coport_status
    <2>5. inbox' \in [Threads -> Seq(Int)] /\ UNCHANGED tableVars /\ Return(t, "closing")
      BY <1>3, Zenon DEF CloseMark, TypeInv
    <2> QED  BY <2>1, <2>4, <2>5, TypeReturn, Zenon
  <1> QED  BY <1>1, <1>2, <1>3, Zenon

\* A call on the port, which is there.
LEMMA CallOnPort ==
    ASSUME TypeInv, NEW t \in Threads,
           (\E len \in Lens : cosend(t, len) \/ corecv(t, len)) \/ coport_close(t)
    PROVE  /\ TypeInv' /\ UNCHANGED <<tableVars, ipcVars>>
           /\ \E to \in {"psend", "precv", "csend", "crecv", "close"} : Moves(t, to)
           /\ pc[t] = "idle" /\ port \in Ports
  <1> USE DEF Opening, PipeSteps, ChanSteps, Steps, ipcVars
  <1>1. port \in Ports
    BY Zenon DEF TypeInv, cosend, corecv, Usable, coport_close
  <1>2. CASE \E len \in Lens : cosend(t, len) \/ corecv(t, len)
    <2>1. PICK len \in Lens : cosend(t, len) \/ corecv(t, len)
      BY <1>2, Zenon
    <2>2. \/ copipe_send(t, len) /\ port.type = "COPIPE"
          \/ copipe_recv(t, len) /\ port.type = "COPIPE"
          \/ cochannel_send(t, len) /\ port.type = "COCHANNEL"
          \/ cochannel_recv(t, len) /\ port.type = "COCHANNEL"
      BY <2>1, Zenon DEF cosend, corecv, Usable, cosend_impl_copipe, corecv_impl_copipe,
         cosend_impl_cochannel, corecv_impl_cochannel
    <2>3. inbox \in [Threads -> Seq(Int)] /\ port.length \in Int
      BY <1>1, Zenon DEF TypeInv, Ports
    <2>4. CASE copipe_send(t, len) /\ port.type = "COPIPE"
      <3>1. /\ UNCHANGED <<tableVars, ipcVars>> /\ Moves(t, "psend") /\ loc'[t].len \in Lens
            /\ pc[t] = "idle"
        BY <2>4, CallMoves DEF copipe_send
      <3> QED  BY <3>1, <1>1, <2>3, <2>4, TypeFrame, ZenonT(60)
    <2>5. CASE copipe_recv(t, len) /\ port.type = "COPIPE"
      <3>1. PICK tag \in BOOLEAN : /\ Call(t, "precv", [type |-> "none", len |-> len, tag |-> tag])
                                   /\ UNCHANGED <<tableVars, ipcVars>>
        BY <2>5, Zenon DEF copipe_recv
      <3>2. Moves(t, "precv") /\ loc'[t].len \in Lens /\ loc'[t].tag \in BOOLEAN /\ pc[t] = "idle"
        BY <3>1, CallMoves
      <3> QED  BY <3>1, <3>2, <1>1, <2>3, <2>5, TypeFrame, ZenonT(60)
    <2>6. CASE cochannel_send(t, len) /\ port.type = "COCHANNEL"
      <3>1. /\ UNCHANGED <<tableVars, ipcVars>> /\ Moves(t, "csend") /\ loc'[t].len \in Lens
            /\ loc'[t].read \in Int /\ pc[t] = "idle"
        BY <2>3, <2>6, CallMoves DEF cochannel_send
      <3> QED  BY <3>1, <1>1, <2>3, <2>6, TypeFrame, Zenon
    <2>7. CASE cochannel_recv(t, len) /\ port.type = "COCHANNEL"
      <3>1. /\ UNCHANGED <<tableVars, ipcVars>> /\ Moves(t, "crecv") /\ loc'[t].len \in Lens
            /\ loc'[t].read \in Int /\ pc[t] = "idle"
        BY <2>3, <2>7, CallMoves DEF cochannel_recv
      <3> QED  BY <3>1, <1>1, <2>3, <2>7, TypeFrame, ZenonT(60)
    <2> QED  BY <2>2, <2>4, <2>5, <2>6, <2>7, Zenon
  <1>3. CASE coport_close(t)
    <2>1. UNCHANGED <<tableVars, ipcVars>> /\ Moves(t, "close") /\ pc[t] = "idle"
      BY <1>3, CallMoves, Zenon DEF coport_close
    <2>2. inbox' \in [Threads -> Seq(Int)]
      BY <2>1, Zenon DEF TypeInv
    <2> QED  BY <2>1, <2>2, <1>1, TypeFrame, Zenon
  <1> QED  BY <1>2, <1>3, Zenon

\* coport_open's last step makes the port.
LEMMA TypeOpened ==
    ASSUME TypeInv, NEW t \in Threads, Opened(t)
    PROVE  /\ TypeInv' /\ Moves(t, "idle") /\ pc[t] = "count" /\ inbox' = inbox
           /\ port' = port \/ (port = NULL /\ port' = init_coport(loc[t].type) /\ port' \in Ports)
  <1> DEFINE y == loc[t].type
  <1>1. Return(t, "count") /\ Moves(t, "idle") /\ pc[t] = "count" /\ inbox' = inbox
    BY ReturnMoves, Zenon DEF Opened, AllocateCount
  <1>2. y \in Types /\ loc[t].index \in Nat
    BY <1>1, Zenon DEF TypeInv, LocalsOK, Opening
  <1>3. init_coport(y) \in Ports
    BY <1>2 DEF init_coport, Ports, CHERICAP_SIZE
  <1>4. port' = port \/ (port = NULL /\ port' = init_coport(loc[t].type) /\ port' \in Ports)
    BY <1>3, Zenon DEF Opened
  <1>5. TablesOK'
    BY <1>2 DEF Opened, AllocateCount, TablesOK, TypeInv
  <1>6. LocalsOK' /\ pc' \in [Threads -> Steps] /\ loc' = [u \in Threads |-> loc'[u]]
    BY <1>1, Retyped, Zenon DEF Opening, PipeSteps, ChanSteps, Steps
  <1>7. port # NULL => port' \in Ports /\ port'.type = port.type
    BY <1>4, Zenon DEF TypeInv
  <1>8. PortKnown'
    BY <1>1, <1>7, PortStays, Zenon DEF PipeSteps, ChanSteps, Steps
  <1>9. port' \in Ports \cup {NULL} /\ inbox' \in [Threads -> Seq(Int)]
    BY <1>1, <1>4, Zenon DEF TypeInv
  <1> QED  BY <1>1, <1>4, <1>5, <1>6, <1>8, <1>9, Zenon DEF TypeInv, TablesOK

\* Giving up changes nothing but the thread.
LEMMA TypeGiveUp ==
    ASSUME TypeInv, NEW t \in Threads, NEW from, GiveUp(t, from)
    PROVE  TypeInv' /\ Moves(t, "idle") /\ pc[t] = from /\ UNCHANGED <<tableVars, ipcVars>>
  <1>1. Return(t, from) /\ UNCHANGED <<tableVars, ipcVars>>
    BY Zenon DEF GiveUp
  <1>2. inbox' \in [Threads -> Seq(Int)] /\ port' = port
    BY <1>1, Zenon DEF TypeInv, ipcVars
  <1> QED  BY <1>1, <1>2, ReturnMoves, TypeReturn, Zenon

\* What is left of Next, after the opening and the calls.
Acquires(t) == \/ PipeSendAcquire(t) \/ PipeRecvAcquire(t) \/ PipeWait(t)
               \/ ChanSendAcquire(t) \/ ChanRecvAcquire(t) \/ CloseAcquire(t)
Releases(t) == \/ PipeCopy(t) \/ PipeLend(t) \/ PipeTake(t)
               \/ ChanWrite(t) \/ ChanRead(t) \/ CloseMark(t)
Abandons(t) == \E from \in {"psend", "precv", "pwait", "csend", "crecv", "close"} : GiveUp(t, from)
Calls(t) == (\E len \in Lens : cosend(t, len) \/ corecv(t, len)) \/ coport_close(t)

\* Every step is of one of these kinds.
LEMMA NextCases ==
    ASSUME Next
    PROVE  \E t \in Threads : \/ OpenSteps(t) /\ UNCHANGED ipcVars
                              \/ Opened(t) \/ Calls(t) \/ Acquires(t) \/ Releases(t) \/ Abandons(t)
  BY Zenon DEF Next, Proceed, Calls, Acquires, Releases, Abandons

\* The place of a thread before and after taking the word, and what it found.
LEMMA AcquireCases ==
    ASSUME TypeInv, NEW t \in Threads, Acquires(t)
    PROVE  /\ TypeInv' /\ loc' = loc /\ inbox' = inbox /\ UNCHANGED tableVars
           /\ port \in Ports /\ port' \in Ports /\ port' = [port EXCEPT !.status = "BUSY"]
           /\ \/ pc[t] = "psend" /\ port.status = "READY" /\ Moves(t, "pcopy")
              \/ pc[t] = "precv" /\ port.status = "OPEN" /\ Moves(t, "plend")
              \/ pc[t] = "pwait" /\ port.status = "DONE" /\ Moves(t, "ptake")
              \/ pc[t] = "csend" /\ port.status = "OPEN" /\ Moves(t, "cwrite")
              \/ pc[t] = "crecv" /\ port.status = "OPEN" /\ Moves(t, "cread")
              \/ pc[t] = "close" /\ port.status = "OPEN" /\ Moves(t, "closing")
  <1> USE DEF Steps, PipeSteps, ChanSteps
  <1>1. CASE PipeSendAcquire(t)
    BY <1>1, TypeAcquire, Zenon DEF PipeSendAcquire, acquire_coport_status
  <1>2. CASE PipeRecvAcquire(t)
    BY <1>2, TypeAcquire, Zenon DEF PipeRecvAcquire, acquire_coport_status
  <1>3. CASE PipeWait(t)
    BY <1>3, TypeAcquire, Zenon DEF PipeWait, acquire_coport_status
  <1>4. CASE ChanSendAcquire(t)
    BY <1>4, TypeAcquire, Zenon DEF ChanSendAcquire, acquire_coport_status
  <1>5. CASE ChanRecvAcquire(t)
    BY <1>5, TypeAcquire, Zenon DEF ChanRecvAcquire, acquire_coport_status
  <1>6. CASE CloseAcquire(t)
    BY <1>6, TypeAcquire, Zenon DEF CloseAcquire, acquire_coport_status
  <1> QED  BY <1>1, <1>2, <1>3, <1>4, <1>5, <1>6, ZenonT(60) DEF Acquires

\* Who releases the word was holding it, and the table is not its concern.
LEMMA ReleaseCases ==
    ASSUME TypeInv, NEW t \in Threads, Releases(t)
    PROVE  /\ TypeInv' /\ UNCHANGED tableVars /\ pc[t] \in Holding
           /\ Moves(t, IF PipeLend(t) THEN "pwait" ELSE "idle")
           /\ port \in Ports /\ port' \in Ports
  <1> USE DEF Holding, Steps, PipeSteps, ChanSteps
  <1>1. TypeInv' /\ port \in Ports /\ port' \in Ports
    BY TypePipe, TypeChan, Zenon DEF Releases
  <1>2. CASE PipeLend(t)
    BY <1>1, <1>2, StepMoves, Zenon DEF PipeLend
  <1>3. CASE ~PipeLend(t)
    <2>1. PICK from \in Holding \ {"plend"} : Return(t, from) /\ UNCHANGED tableVars
      BY <1>3, Zenon DEF Releases, PipeCopy, PipeTake, ChanWrite, ChanRead, CloseMark
    <2> QED  BY <1>1, <1>3, <2>1, ReturnMoves, Zenon
  <1> QED  BY <1>2, <1>3, Zenon

\* Every step keeps the types.
LEMMA TypeStep == TypeInv /\ [Next]_vars => TypeInv'
  <1> SUFFICES ASSUME TypeInv, [Next]_vars PROVE TypeInv'
    BY Zenon
  <1>1. CASE Next
    BY <1>1, NextCases, TypeOpen, TypeOpened, CallOnPort, AcquireCases, ReleaseCases, TypeGiveUp, ZenonT(60)
       DEF Calls, Abandons
  <1>2. CASE UNCHANGED vars
    BY <1>2, Zenon DEF vars, tableVars, ipcVars, TypeInv, LocalsOK, PortKnown
  <1> QED  BY <1>1, <1>2, Zenon

-----------------------------------------------------------------------------
\* The table.  Slots in use and slots being claimed are below the next one, and
\* as long as ipcd lives the next one is at most the size; a worker that passed
\* the test counted fewer coports than there is room for.
TableInv ==
    /\ \A y \in Types : /\ entries[y] \subseteq 0 .. next_coport[y] - 1
                        /\ \A t \in Claiming(y) : loc[t].index < next_coport[y]
                        /\ alive => next_coport[y] <= max_coports
    /\ \A t \in Threads : pc[t] = "allocate" => loc[t].tested < max_coports
    /\ SlotsHandedOutOnce /\ OverrunNeedsTwoOpens

\* There are finitely many workers, so finitely many claim a slot.
LEMMA ClaimingFinite == ASSUME NEW y PROVE IsFiniteSet(Claiming(y)) /\ Cardinality(Claiming(y)) \in Nat
  BY TableAssumption, FS_Subset, FS_CardinalityType, Zenon DEF Claiming

\* The tables start empty.
LEMMA TableInitial == Init => TableInv
  <1> SUFFICES ASSUME Init PROVE TableInv
    BY Zenon
  <1>1. \A y : Claiming(y) = {}
    BY Zenon DEF Init, CallsInit, Claiming
  <1> QED  BY <1>1, FS_EmptySet, TableAssumption DEF Init, TableInit, CallsInit, TableInv,
     SlotsHandedOutOnce, OverrunNeedsTwoOpens

\* A step outside the claim of a slot.
LEMMA TableFrame ==
    ASSUME TypeInv, TableInv, NEW t \in Threads, NEW to \in Steps, Moves(t, to), UNCHANGED tableVars,
           pc[t] # "count", to # "count",
           to = "allocate" => loc'[t].tested < max_coports
    PROVE  TableInv'
  <1>1. \A y : Claiming(y)' = Claiming(y)
    BY Zenon DEF Claiming, Moves
  <1>2. \A y : \A u \in Claiming(y) : loc'[u] = loc[u] /\ u \in Threads
    BY Zenon DEF Claiming, Moves
  <1>3. SlotsHandedOutOnce'
    BY <1>1, <1>2 DEF TableInv, SlotsHandedOutOnce, tableVars
  <1>4. OverrunNeedsTwoOpens'
    BY Zenon DEF TableInv, OverrunNeedsTwoOpens, tableVars, Moves, in_coport_table
  <1> QED  BY <1>1, <1>2, <1>3, <1>4, Zenon DEF TableInv, tableVars, Moves

\* The claim: the next slot is new, so it is nobody's.
LEMMA TableClaim ==
    ASSUME TypeInv, TableInv, NEW t \in Threads, allocate_coport(t)
    PROVE  TableInv'
  <1>0. PICK y \in Types : y = loc[t].type
    BY Zenon DEF allocate_coport, Return, TypeInv, LocalsOK, Opening
  <1>1. /\ pc[t] = "allocate" /\ loc[t].tested \in Nat /\ alive
        /\ next_coport[y] \in Nat /\ loc[t].tested < max_coports /\ max_coports \in Nat
    BY <1>0, TableAssumption, Zenon DEF allocate_coport, TypeInv, LocalsOK, Opening, TableInv
  <1>2. /\ pc'[t] = "count" /\ loc'[t].type = y /\ loc'[t].index = next_coport[y]
        /\ loc'[t].tested = loc[t].tested
        /\ \A u \in Threads \ {t} : pc'[u] = pc[u] /\ loc'[u] = loc[u]
        /\ next_coport'[y] = next_coport[y] + 1
        /\ \A z \in Types \ {y} : next_coport'[z] = next_coport[z]
        /\ alive' = (next_coport[y] < max_coports)
        /\ ncoports' = ncoports /\ entries' = entries
    BY <1>0, <1>1, Zenon DEF allocate_coport, TypeInv, in_coport_table
  <1>3. /\ Claiming(y)' = Claiming(y) \cup {t} /\ t \notin Claiming(y)
        /\ \A z \in Types \ {y} : Claiming(z)' = Claiming(z)
    BY <1>0, <1>1, <1>2, Zenon DEF Claiming
  <1>4. Cardinality(Claiming(y)') = Cardinality(Claiming(y)) + 1
    BY <1>3, ClaimingFinite, FS_AddElement, ZenonT(60)
  <1>5. \A z \in Types : next_coport[z] \in Nat /\ ncoports[z] \in Nat /\ Cardinality(Claiming(z)) \in Nat
    BY ClaimingFinite, Zenon DEF TypeInv
  <1>6. \A z \in Types : \A u \in Claiming(z) : u # t /\ u \in Threads /\ loc[u].index \in Nat
    BY <1>0, <1>1, Zenon DEF Claiming, TypeInv, LocalsOK
  <1>7. \A z \in Types : /\ entries'[z] \subseteq 0 .. next_coport'[z] - 1
                         /\ \A u \in Claiming(z)' : loc'[u].index < next_coport'[z]
                         /\ alive' => next_coport'[z] <= max_coports
    <2> SUFFICES ASSUME NEW z \in Types
                 PROVE  /\ entries'[z] \subseteq 0 .. next_coport'[z] - 1
                        /\ \A u \in Claiming(z)' : loc'[u].index < next_coport'[z]
                        /\ alive' => next_coport'[z] <= max_coports
      BY Zenon
    <2>1. CASE z = y
      <3>1. next_coport'[z] = next_coport[z] + 1 /\ next_coport[z] \in Nat
        BY <2>1, <1>1, <1>2, Zenon
      <3>2. entries'[z] \subseteq 0 .. next_coport'[z] - 1
        <4>1. entries'[z] \subseteq 0 .. next_coport[z] - 1
          BY <1>2, Zenon DEF TableInv
        <4> QED  BY <3>1, <4>1
      <3>3. ASSUME NEW u \in Claiming(z)' PROVE loc'[u].index < next_coport'[z]
        <4>1. CASE u = t
          BY <4>1, <3>1, <2>1, <1>2
        <4>2. CASE u # t
          <5>1. u \in Claiming(z) /\ u \in Threads \ {t} /\ loc[u].index \in Nat
            BY <4>2, <3>3, <2>1, <1>3, <1>6, ZenonT(60)
          <5>2. loc[u].index < next_coport[z] /\ loc'[u].index = loc[u].index
            BY <5>1, <1>2, Zenon DEF TableInv
          <5> QED  BY <5>1, <5>2, <3>1
        <4> QED  BY <4>1, <4>2, Zenon
      <3>4. alive' => next_coport'[z] <= max_coports
        <4>1. alive' => next_coport[z] < max_coports
          BY Zenon, <2>1, <1>2
        <4> QED  BY <4>1, <3>1, <1>1
      <3> QED  BY <3>2, <3>3, <3>4, Zenon
    <2>2. CASE z # y
      <3>1. /\ next_coport'[z] = next_coport[z] /\ entries'[z] = entries[z]
            /\ Claiming(z)' = Claiming(z) /\ alive
            /\ \A u \in Claiming(z) : loc'[u] = loc[u]
        BY <2>2, <1>1, <1>2, <1>3, <1>6, Zenon
      <3> QED  BY <3>1, Zenon DEF TableInv
    <2> QED  BY <2>1, <2>2, Zenon
  <1>8. SlotsHandedOutOnce'
    <2> SUFFICES ASSUME NEW z \in Types
                 PROVE  /\ \A u \in Claiming(z)' : loc'[u].index \notin entries'[z]
                        /\ \A u, v \in Claiming(z)' : loc'[u].index = loc'[v].index => u = v
                        /\ next_coport'[z] = ncoports'[z] + Cardinality(Claiming(z)')
      BY Zenon DEF SlotsHandedOutOnce
    <2>1. CASE z = y
      <3>1. next_coport'[z] = ncoports'[z] + Cardinality(Claiming(z)')
        BY <2>1, <1>2, <1>4, <1>5 DEF TableInv, SlotsHandedOutOnce
      <3>a. /\ entries[y] \subseteq 0 .. next_coport[y] - 1
            /\ \A u \in Claiming(y) : loc[u].index < next_coport[y] /\ loc[u].index \notin entries[y]
            /\ \A u, v \in Claiming(y) : loc[u].index = loc[v].index => u = v
        BY Zenon DEF TableInv, SlotsHandedOutOnce
      <3>b. \A u \in Claiming(y) : /\ u # t /\ u \in Threads /\ loc'[u].index = loc[u].index
                                   /\ loc[u].index \in Nat
        BY <1>2, <1>6, ZenonT(60)
      <3>c. next_coport[y] \notin entries[y] /\ \A u \in Claiming(y) : loc[u].index # next_coport[y]
        BY ONLY <1>1, <3>a, <3>b
      <3>2. \A u \in Claiming(z)' : loc'[u].index \notin entries'[z]
        BY ONLY <2>1, <1>2, <1>3, <3>a, <3>b, <3>c, ZenonT(60)
      <3>3. \A u, v \in Claiming(z)' : loc'[u].index = loc'[v].index => u = v
        <4> SUFFICES ASSUME NEW u \in Claiming(y)', NEW v \in Claiming(y)',
                            loc'[u].index = loc'[v].index, u # v
                     PROVE  FALSE
          BY <2>1, Zenon
        <4>1. CASE u = t
          BY <4>1, <1>2, <1>3, <3>b, <3>c, ZenonT(60)
        <4>2. CASE v = t
          BY <4>2, <1>2, <1>3, <3>b, <3>c, ZenonT(60)
        <4>3. CASE u # t /\ v # t
          BY <4>3, <1>3, <3>a, <3>b, ZenonT(60)
        <4> QED  BY <4>1, <4>2, <4>3, Zenon
      <3> QED  BY <3>1, <3>2, <3>3, ZenonT(60)
    <2>2. CASE z # y
      BY <2>2, <1>2, <1>3, <1>6 DEF TableInv, SlotsHandedOutOnce
    <2> QED  BY <2>1, <2>2, Zenon
  <1>9. OverrunNeedsTwoOpens'
    <2>1. ~alive' => ~(next_coport[y] < max_coports)
      BY <1>2, Zenon
    <2>2. ~alive' => loc[t].tested < next_coport[y]
      BY <2>1, <1>1
    <2> QED  BY <2>1, <2>2, <1>2, Zenon DEF OverrunNeedsTwoOpens, in_coport_table
  <1>10. \A u \in Threads : pc'[u] = "allocate" => loc'[u].tested < max_coports
    BY <1>2, ZenonT(60) DEF TableInv
  <1> QED  BY <1>7, <1>8, <1>9, <1>10, Zenon DEF TableInv

\* The count: the slot passes from the worker to the table.
LEMMA TableCount ==
    ASSUME TypeInv, TableInv, NEW t \in Threads, AllocateCount(t)
    PROVE  TableInv'
  <1>0. PICK y \in Types : y = loc[t].type
    BY Zenon DEF AllocateCount, Return, TypeInv, LocalsOK, Opening
  <1>1. pc[t] = "count" /\ loc[t].index \in Nat /\ alive /\ Moves(t, "idle")
    BY ReturnMoves, Zenon DEF AllocateCount, TypeInv, LocalsOK, Opening
  <1>2. /\ ncoports'[y] = ncoports[y] + 1 /\ entries'[y] = entries[y] \cup {loc[t].index}
        /\ \A z \in Types \ {y} : ncoports'[z] = ncoports[z] /\ entries'[z] = entries[z]
        /\ next_coport' = next_coport /\ alive' = alive
    BY <1>0, <1>1, Zenon DEF AllocateCount, TypeInv
  <1>3. /\ Claiming(y)' = Claiming(y) \ {t} /\ t \in Claiming(y)
        /\ \A z \in Types \ {y} : Claiming(z)' = Claiming(z)
    BY <1>0, <1>1, Zenon DEF Claiming, Moves
  <1>4. Cardinality(Claiming(y)') = Cardinality(Claiming(y)) - 1
    BY <1>3, ClaimingFinite, FS_RemoveElement, ZenonT(60)
  <1>5. \A z \in Types : next_coport[z] \in Nat /\ ncoports[z] \in Nat /\ Cardinality(Claiming(z)) \in Nat
    BY ClaimingFinite, Zenon DEF TypeInv
  <1>6. \A z \in Types : \A u \in Claiming(z)' : u \in Claiming(z) /\ u # t /\ loc'[u] = loc[u]
    BY <1>0, <1>1, Zenon DEF Claiming, Moves
  <1>7. \A z \in Types : /\ entries'[z] \subseteq 0 .. next_coport'[z] - 1
                         /\ \A u \in Claiming(z)' : loc'[u].index < next_coport'[z]
                         /\ alive' => next_coport'[z] <= max_coports
    <2>1. /\ \A z \in Types : entries[z] \subseteq 0 .. next_coport[z] - 1
          /\ \A z \in Types : \A u \in Claiming(z) : loc[u].index < next_coport[z]
          /\ \A z \in Types : alive => next_coport[z] <= max_coports
      BY Zenon DEF TableInv
    <2>2. loc[t].index < next_coport[y] /\ next_coport[y] \in Nat
      BY <1>3, <1>5, <2>1, Zenon
    <2>3. loc[t].index \in 0 .. next_coport[y] - 1
      BY ONLY <1>1, <2>2
    <2>4. \A z \in Types : entries'[z] \subseteq 0 .. next_coport[z] - 1
      BY <1>2, <2>1, <2>3, ZenonT(60)
    <2> QED  BY <1>2, <1>6, <2>1, <2>4, Zenon
  <1>8. SlotsHandedOutOnce'
    <2> SUFFICES ASSUME NEW z \in Types
                 PROVE  /\ \A u \in Claiming(z)' : loc'[u].index \notin entries'[z]
                        /\ \A u, v \in Claiming(z)' : loc'[u].index = loc'[v].index => u = v
                        /\ next_coport'[z] = ncoports'[z] + Cardinality(Claiming(z)')
      BY Zenon DEF SlotsHandedOutOnce
    <2>1. CASE z = y
      <3>1. next_coport'[z] = ncoports'[z] + Cardinality(Claiming(z)')
        <4>1. next_coport[y] = ncoports[y] + Cardinality(Claiming(y))
          BY Zenon DEF TableInv, SlotsHandedOutOnce
        <4>2. ncoports[y] \in Nat /\ Cardinality(Claiming(y)) \in Nat
          BY <1>5, Zenon
        <4>3. next_coport[y] = (ncoports[y] + 1) + (Cardinality(Claiming(y)) - 1)
          BY ONLY <4>1, <4>2
        <4> QED  BY <1>2, <1>4, <2>1, <4>3, Zenon
      <3>a. \A u, v \in Claiming(y) : loc[u].index = loc[v].index => u = v
        BY Zenon DEF TableInv, SlotsHandedOutOnce
      <3>b. \A u \in Claiming(y)' : u \in Claiming(y) /\ u # t /\ loc'[u] = loc[u]
        BY <1>6, Zenon
      <3>2. ASSUME NEW u \in Claiming(z)' PROVE loc'[u].index \notin entries'[z]
        <4>1. u \in Claiming(y) /\ u # t /\ loc'[u] = loc[u]
          BY <2>1, <3>2, <3>b, Zenon
        <4>2. loc[u].index # loc[t].index /\ loc[u].index \notin entries[y]
          BY <1>3, <3>a, <4>1, Zenon DEF TableInv, SlotsHandedOutOnce
        <4> QED  BY <1>2, <2>1, <4>1, <4>2, Zenon
      <3>3. \A u, v \in Claiming(z)' : loc'[u].index = loc'[v].index => u = v
        BY ONLY <2>1, <3>a, <3>b, ZenonT(60)
      <3> QED  BY <3>1, <3>2, <3>3, ZenonT(60)
    <2>2. CASE z # y
      BY <2>2, <1>2, <1>3, <1>6 DEF TableInv, SlotsHandedOutOnce
    <2> QED  BY <2>1, <2>2, Zenon
  <1>9. OverrunNeedsTwoOpens'
    BY <1>1, <1>2, Zenon DEF OverrunNeedsTwoOpens
  <1>10. \A u \in Threads : pc'[u] = "allocate" => loc'[u].tested < max_coports
    BY <1>1, Zenon DEF TableInv, Moves
  <1> QED  BY <1>7, <1>8, <1>9, <1>10, Zenon DEF TableInv

\* Every step keeps the table's invariant.
LEMMA TableStep == TypeInv /\ TableInv /\ [Next]_vars => TableInv'
  <1> SUFFICES ASSUME TypeInv, TableInv, [Next]_vars PROVE TableInv'
    BY Zenon
  <1> USE DEF Steps, Opening, PipeSteps, ChanSteps
  <1>1. ASSUME NEW t \in Threads, OpenSteps(t) PROVE TableInv'
    <2>1. CASE coport_open(t)
      <3>1. Moves(t, "coopen_test") /\ pc[t] = "idle" /\ UNCHANGED tableVars
        BY <2>1, CallMoves, Zenon DEF coport_open
      <3> QED  BY <3>1, TableFrame, Zenon
    <2>2. CASE OpenRefused(t)
      <3>1. Moves(t, "idle") /\ pc[t] = "coopen_test" /\ UNCHANGED tableVars
        BY <2>2, ReturnMoves, Zenon DEF OpenRefused
      <3> QED  BY <3>1, TableFrame, Zenon
    <2>3. CASE OpenAdmitted(t)
      <3>1. PICK y \in Types : y = loc[t].type
        BY <2>3, Zenon DEF OpenAdmitted, TypeInv, LocalsOK
      <3>2. /\ pc[t] = "coopen_test" /\ alive /\ UNCHANGED tableVars /\ ncoports[y] # max_coports
            /\ Moves(t, "allocate") /\ loc'[t].tested = ncoports[y]
        BY <2>3, <3>1, ZenonT(60) DEF OpenAdmitted, can_allocate_coport, TypeInv, Moves
      <3>3. ncoports[y] <= next_coport[y] /\ next_coport[y] <= max_coports
            /\ ncoports[y] \in Nat /\ next_coport[y] \in Nat
        BY <3>2, ClaimingFinite DEF TableInv, SlotsHandedOutOnce, TypeInv
      <3>4. loc'[t].tested < max_coports
        BY <3>2, <3>3, TableAssumption
      <3> QED  BY <3>2, <3>4, TableFrame, Zenon
    <2>4. CASE allocate_coport(t)
      BY <2>4, TableClaim, Zenon
    <2> QED  BY <1>1, <2>1, <2>2, <2>3, <2>4, Zenon DEF OpenSteps
  <1>2. ASSUME NEW t \in Threads, Opened(t) PROVE TableInv'
    BY <1>2, TableCount, Zenon DEF Opened
  <1>3. ASSUME NEW t \in Threads, Calls(t) PROVE TableInv'
    <2>1. /\ UNCHANGED tableVars /\ pc[t] = "idle"
          /\ \E to \in {"psend", "precv", "csend", "crecv", "close"} : Moves(t, to)
      BY <1>3, CallOnPort, Zenon DEF Calls
    <2> QED  BY <2>1, TableFrame, Zenon
  <1>4. ASSUME NEW t \in Threads, Acquires(t) PROVE TableInv'
    <2>1. /\ UNCHANGED tableVars /\ pc[t] # "count"
          /\ \E to \in {"pcopy", "plend", "ptake", "cwrite", "cread", "closing"} : Moves(t, to)
      BY <1>4, AcquireCases, Zenon
    <2> QED  BY <2>1, TableFrame, Zenon
  <1>5. ASSUME NEW t \in Threads, Releases(t) PROVE TableInv'
    <2>1. UNCHANGED tableVars /\ pc[t] # "count" /\ (Moves(t, "pwait") \/ Moves(t, "idle"))
      BY <1>5, ReleaseCases, Zenon DEF Holding
    <2> QED  BY <2>1, TableFrame, Zenon
  <1>6. ASSUME NEW t \in Threads, Abandons(t) PROVE TableInv'
    <2>1. UNCHANGED tableVars /\ pc[t] # "count" /\ Moves(t, "idle")
      BY <1>6, TypeGiveUp, Zenon DEF Abandons
    <2> QED  BY <2>1, TableFrame, Zenon
  <1>7. CASE UNCHANGED vars
    <2>1. \A y : Claiming(y)' = Claiming(y)
      BY <1>7, Zenon DEF vars, Claiming
    <2> QED  BY <1>7, <2>1, Zenon DEF vars, tableVars, TableInv, SlotsHandedOutOnce, OverrunNeedsTwoOpens,
       in_coport_table
  <1> QED  BY <1>1, <1>2, <1>3, <1>4, <1>5, <1>6, <1>7, NextCases, ZenonT(60)

\* The invariant of the table holds in every state.
LEMMA TableInvariant == Spec => [](TypeInv /\ TableInv)
  BY TypeInit, TypeStep, TableInitial, TableStep, PTL DEF Spec

\* coopen hands out every slot once, whatever the interleaving of claim and count
\* (coport_table.c 113-120).
THEOREM SlotsSafe == Spec => []SlotsHandedOutOnce
  <1>1. TypeInv /\ TableInv => SlotsHandedOutOnce
    BY Zenon DEF TableInv
  <1> QED  BY <1>1, TableInvariant, PTL

\* ipcd only faults at the end of the table when opens overlap (coopen.c 139-143).
THEOREM OverrunNeedsOverlap == Spec => []OverrunNeedsTwoOpens
  <1>1. TypeInv /\ TableInv => OverrunNeedsTwoOpens
    BY Zenon DEF TableInv
  <1> QED  BY <1>1, TableInvariant, PTL

-----------------------------------------------------------------------------
(* Copipes and cochannels *)

\* A receiver that waits: its buffer is empty and lent, or has what it waits
\* for, or is the one a sender, who holds the word, is about to fill.
Filled(t) == loc[t].tag => inbox[t] = <<port.length>>
Waiting(t) == \/ port.status = "READY" /\ inbox[t] = <<>>
              \/ port.status = "DONE" /\ Filled(t)
              \/ port.status = "BUSY" /\ inbox[t] = <<>> /\ \E u \in Threads : pc[u] = "pcopy"

\* The handshake: the buffer in the port is the one receiver's who waits or
\* leaves, and a sender that holds the word, or a word that says so, has one.
PipeInv ==
    /\ Exclusive /\ LentBufferIsLive
    /\ \A t \in Threads : pc[t] \in {"pwait", "ptake"} =>
          port.buf = [owner |-> t, tag |-> loc[t].tag, len |-> loc[t].len]
    /\ \A t \in Threads : pc[t] = "pwait" => Waiting(t)
    /\ \A t \in Threads : pc[t] = "ptake" => Filled(t)
    /\ \A t \in Threads : pc[t] = "pcopy" => \E u \in Threads : pc[u] = "pwait"
    /\ port # NULL /\ port.status \in {"READY", "DONE"} => \E u \in Threads : pc[u] = "pwait"

\* Before the port is opened nobody is in a call on it.
LEMMA PipeInit == Init => PipeInv
  BY Zenon DEF Init, CallsInit, PipeInv, Exclusive, LentBufferIsLive, Holding

\* Only one receiver waits or leaves.
LEMMA OneReceiver ==
    ASSUME PipeInv, NEW t \in Threads, NEW u \in Threads,
           pc[t] \in {"pwait", "ptake"}, pc[u] \in {"pwait", "ptake"}
    PROVE  t = u
  <1>1. /\ port.buf = [owner |-> t, tag |-> loc[t].tag, len |-> loc[t].len]
        /\ port.buf = [owner |-> u, tag |-> loc[u].tag, len |-> loc[u].len]
    BY Zenon DEF PipeInv
  <1>2. port.buf.owner = t /\ port.buf.owner = u
    BY ONLY <1>1
  <1> QED  BY <1>2, Zenon

\* Nobody waits, and no buffer is lent, while the word is free or is held by
\* anyone but a sender and a receiver that leaves.
LEMMA Alone ==
    ASSUME TypeInv, PipeInv, port \in Ports,
           \/ port.status = "OPEN"
           \/ \E t \in Threads : pc[t] \in Holding \ {"pcopy", "ptake"}
    PROVE  port.buf = NULL /\ \A u \in Threads : pc[u] \notin {"pwait", "ptake", "pcopy"}
  <1> USE DEF Holding
  <1>1. \A u \in Threads : pc[u] \notin {"pcopy", "ptake"}
    BY Zenon DEF PipeInv, Exclusive
  <1>2. \A u \in Threads : pc[u] # "pwait"
    BY <1>1, Zenon DEF PipeInv, Exclusive, Waiting
  <1>3. port.buf = NULL
    BY <1>1, <1>2, NullIsNoPort, Zenon DEF PipeInv, LentBufferIsLive, Ports, Bufs
  <1> QED  BY <1>1, <1>2, <1>3, Zenon

\* A step that leaves port and inboxes alone, outside the handshake.
LEMMA PipeFrame ==
    ASSUME TypeInv, PipeInv, NEW t \in Threads, NEW to \in Steps, Moves(t, to),
           pc[t] \notin Holding \cup {"pwait"}, to \notin Holding \cup {"pwait"},
           port' = port, inbox' = inbox
    PROVE  PipeInv'
  <1> USE DEF Holding
  <1>1. \A u \in Threads : \/ pc'[u] = pc[u] /\ loc'[u] = loc[u]
                           \/ pc[u] \notin Holding \cup {"pwait"} /\ pc'[u] \notin Holding \cup {"pwait"}
    BY Zenon DEF Moves
  <1>2. Exclusive' /\ LentBufferIsLive'
    <2>1. Exclusive'  BY <1>1, Zenon DEF PipeInv, Exclusive
    <2>2. LentBufferIsLive'
      <3>1. port \in Ports /\ port.buf # NULL => port.buf.owner \in Threads
        BY Zenon DEF Ports, Bufs
      <3> QED  BY <1>1, <3>1, Zenon DEF PipeInv, LentBufferIsLive, TypeInv
    <2> QED  BY <2>1, <2>2, Zenon
  <1>3. \A u \in Threads : pc'[u] = "pwait" => Waiting(u)'
    BY <1>1 DEF PipeInv, Waiting, Filled
  <1> QED  BY <1>1, <1>2, <1>3, Zenon DEF PipeInv, Filled

\* Taking the word.
LEMMA PipeAcquire ==
    ASSUME TypeInv, PipeInv, NEW t \in Threads, Acquires(t)
    PROVE  PipeInv'
  <1> USE DEF Holding
  <1>1. /\ TypeInv' /\ loc' = loc /\ inbox' = inbox
        /\ port \in Ports /\ port' \in Ports /\ port' = [port EXCEPT !.status = "BUSY"]
    BY AcquireCases, Zenon
  <1>2. \/ pc[t] = "psend" /\ port.status = "READY" /\ Moves(t, "pcopy")
        \/ pc[t] = "precv" /\ port.status = "OPEN" /\ Moves(t, "plend")
        \/ pc[t] = "pwait" /\ port.status = "DONE" /\ Moves(t, "ptake")
        \/ pc[t] = "csend" /\ port.status = "OPEN" /\ Moves(t, "cwrite")
        \/ pc[t] = "crecv" /\ port.status = "OPEN" /\ Moves(t, "cread")
        \/ pc[t] = "close" /\ port.status = "OPEN" /\ Moves(t, "closing")
    BY AcquireCases, Zenon
  <1>3. /\ port'.status = "BUSY" /\ port'.buf = port.buf /\ port'.length = port.length
        /\ port # NULL /\ port' # NULL
    BY <1>1, NullIsNoPort, Zenon DEF Ports
  <1>4. /\ \A u \in Threads : pc[u] \notin Holding
        /\ \A u \in Threads \ {t} : pc'[u] = pc[u]
        /\ pc'[t] \in Holding
    BY <1>2, Zenon DEF PipeInv, Exclusive, Moves
  <1>5. Exclusive'
    BY <1>3, <1>4, Zenon DEF Exclusive
  <1>6. CASE port.status = "OPEN"
    <2>1. port.buf = NULL /\ \A u \in Threads : pc[u] \notin {"pwait", "ptake", "pcopy"}
      BY <1>1, <1>6, Alone, Zenon
    <2>2. \A u \in Threads : pc'[u] \notin {"pwait", "ptake", "pcopy"}
      BY <1>2, <1>4, <1>6, <2>1, Zenon DEF Moves
    <2> QED  BY <1>3, <1>5, <2>1, <2>2, ZenonT(60) DEF PipeInv, LentBufferIsLive
  <1>7. CASE port.status = "READY"
    <2>1. pc[t] = "psend" /\ pc'[t] = "pcopy"
      BY <1>2, <1>7, Zenon DEF Moves
    <2>2. PICK w \in Threads : pc[w] = "pwait"
      BY <1>3, <1>7, Zenon DEF PipeInv
    <2>3. w # t /\ pc'[w] = "pwait"
      BY <2>1, <2>2, <1>4, Zenon
    <2>4. \A u \in Threads : pc'[u] \in {"pwait", "ptake"} => u = w
      BY <2>1, <2>2, <1>4, OneReceiver, ZenonT(60)
    <2>5. inbox[w] = <<>>
      BY <2>2, <1>7, Zenon DEF PipeInv, Waiting
    <2>6. port'.buf = [owner |-> w, tag |-> loc'[w].tag, len |-> loc'[w].len]
      BY <2>2, <1>1, <1>3, Zenon DEF PipeInv
    <2>7. Waiting(w)'
      BY <2>1, <2>5, <1>1, <1>3, ZenonT(60) DEF Waiting
    <2>8. LentBufferIsLive'
      BY <2>3, <2>6 DEF LentBufferIsLive
    <2> QED  BY <2>3, <2>4, <2>6, <2>7, <2>8, <1>3, <1>5, ZenonT(60) DEF PipeInv
  <1>8. CASE port.status = "DONE"
    <2>1. pc[t] = "pwait" /\ pc'[t] = "ptake"
      BY <1>2, <1>8, Zenon DEF Moves
    <2>2. \A u \in Threads : pc'[u] \in {"pwait", "ptake", "pcopy"} => u = t
      BY <2>1, <1>4, OneReceiver, Zenon
    <2>3. port'.buf = [owner |-> t, tag |-> loc'[t].tag, len |-> loc'[t].len]
      BY <2>1, <1>1, <1>3, Zenon DEF PipeInv
    <2>4. Filled(t)'
      BY <2>1, <1>1, <1>3, <1>8, ZenonT(60) DEF PipeInv, Waiting, Filled
    <2>5. LentBufferIsLive'
      BY <2>1, <2>3 DEF LentBufferIsLive
    <2> QED  BY <2>1, <2>2, <2>3, <2>4, <2>5, <1>3, <1>5, ZenonT(60) DEF PipeInv
  <1> QED  BY <1>2, <1>6, <1>7, <1>8, Zenon

\* Releasing it: a sender.
LEMMA PipeCopied ==
    ASSUME TypeInv, PipeInv, NEW t \in Threads, PipeCopy(t)
    PROVE  /\ PipeInv'
           /\ \E w \in Threads : /\ pc[w] = "pwait" /\ pc'[w] = "pwait" /\ inbox[w] = <<>>
                                 /\ \A u \in Threads \ {w} : inbox'[u] = inbox[u]
                                 /\ \/ port'.status = "READY" /\ inbox'[w] = <<>>
                                    \/ /\ port'.status = "DONE"
                                       /\ inbox'[w] \in {<<>>} \cup {<<len>> : len \in Lens}
  <1> USE DEF Holding
  <1>1. Moves(t, "idle") /\ pc[t] = "pcopy" /\ port \in Ports /\ port' \in Ports /\ TypeInv'
    BY ReturnMoves, ReleaseCases, TypePipe, ZenonT(60) DEF PipeCopy, Releases
  <1>2. PICK w \in Threads : pc[w] = "pwait"
    BY <1>1, Zenon DEF PipeInv
  <1>3. /\ port.status = "BUSY" /\ inbox[w] = <<>> /\ w # t
        /\ port.buf = [owner |-> w, tag |-> loc[w].tag, len |-> loc[w].len]
    BY <1>1, <1>2, Zenon DEF PipeInv, Exclusive, Waiting
  <1>4. /\ loc'[w] = loc[w] /\ pc'[w] = "pwait" /\ loc[t].len \in Lens /\ loc[w].tag \in BOOLEAN
        /\ \A u \in Threads : pc'[u] \notin Holding
        /\ \A u \in Threads : pc'[u] \in {"pwait", "ptake"} => u = w
    BY <1>1, <1>2, <1>3, OneReceiver, ZenonT(60) DEF PipeInv, Exclusive, Moves, TypeInv, LocalsOK, PipeSteps
  <1>5. /\ port'.buf = port.buf
        /\ \/ ~loc[w].tag /\ port'.status = "DONE" /\ inbox' = inbox
           \/ loc[w].tag /\ port'.status = "READY" /\ inbox' = inbox
           \/ /\ loc[w].tag /\ port'.status = "DONE" /\ port'.length = loc[t].len
              /\ inbox' = [inbox EXCEPT ![w] = Append(@, loc[t].len)]
    <2>1. port.buf.owner = w /\ port.buf.tag = loc[w].tag
      BY ONLY <1>3
    <2> QED  BY <1>1, <2>1, ZenonT(60) DEF PipeCopy, release_coport_status, Ports
  <1>6. inbox \in [Threads -> Seq(Int)] /\ Append(<<>>, loc[t].len) = <<loc[t].len>>
    BY <1>4 DEF TypeInv
  <1>7. \/ ~loc[w].tag /\ port'.status = "DONE" /\ inbox'[w] = <<>>
        \/ loc[w].tag /\ port'.status = "READY" /\ inbox'[w] = <<>>
        \/ /\ loc[w].tag /\ port'.status = "DONE" /\ port'.length = loc[t].len
           /\ inbox'[w] = <<loc[t].len>>
    BY <1>3, <1>5, <1>6, ZenonT(60)
  <1>8. \A u \in Threads \ {w} : inbox'[u] = inbox[u]
    BY <1>5, <1>6, Zenon
  <1>9. Exclusive' /\ LentBufferIsLive'
    BY <1>3, <1>4, <1>5 DEF Exclusive, LentBufferIsLive
  <1>10. Waiting(w)'
    BY <1>4, <1>7, Zenon DEF Waiting, Filled
  <1>11. PipeInv'
    BY <1>3, <1>4, <1>5, <1>9, <1>10, Zenon DEF PipeInv
  <1> QED  BY <1>2, <1>3, <1>4, <1>7, <1>8, <1>11, ZenonT(60)

\* A receiver that lends its buffer.
LEMMA PipeLent ==
    ASSUME TypeInv, PipeInv, NEW t \in Threads, PipeLend(t)
    PROVE  /\ PipeInv' /\ port'.status = "READY"
           /\ \A u \in Threads : pc'[u] \in {"pwait", "ptake"} => u = t
           /\ \A u \in Threads : pc[u] \notin {"pwait", "ptake"}
  <1> USE DEF Holding
  <1>1. Moves(t, "pwait") /\ pc[t] = "plend" /\ port \in Ports /\ port' \in Ports /\ loc' = loc
    BY StepMoves, TypePipe, Zenon DEF PipeLend, Steps, PipeSteps
  <1>2. port.buf = NULL /\ \A u \in Threads : pc[u] \notin {"pwait", "ptake", "pcopy"}
    BY <1>1, Alone, Zenon
  <1>3. /\ port'.status = "READY" /\ port'.buf = [owner |-> t, tag |-> loc'[t].tag, len |-> loc'[t].len]
        /\ inbox'[t] = <<>>
    BY <1>1, ZenonT(60) DEF PipeLend, Ports, TypeInv
  <1>4. /\ \A u \in Threads : pc'[u] \notin Holding
        /\ \A u \in Threads : pc'[u] \in {"pwait", "ptake"} => u = t
        /\ pc'[t] = "pwait"
    BY <1>1, <1>2, Zenon DEF PipeInv, Exclusive, Moves
  <1>5. Exclusive' /\ LentBufferIsLive' /\ Waiting(t)'
    BY <1>3, <1>4 DEF Exclusive, LentBufferIsLive, Waiting
  <1> QED  BY <1>2, <1>3, <1>4, <1>5, ZenonT(60) DEF PipeInv

\* A receiver that leaves, and the operations of a cochannel and coclose.
LEMMA PipeReleased ==
    ASSUME TypeInv, PipeInv, NEW t \in Threads,
           PipeTake(t) \/ ChanWrite(t) \/ ChanRead(t) \/ CloseMark(t)
    PROVE  /\ PipeInv' /\ port'.status = IF CloseMark(t) THEN "CLOSING" ELSE "OPEN"
           /\ \A u \in Threads : pc'[u] \notin {"pwait", "ptake"}
           /\ \A u \in Threads \ {t} : pc[u] \notin {"pwait", "ptake"}
           /\ ~PipeTake(t) => pc[t] # "ptake"
  <1> USE DEF Holding
  <1>1. Moves(t, "idle") /\ port \in Ports /\ port' \in Ports /\ pc[t] \in Holding \ {"pcopy", "plend"}
    <2>1. ~PipeLend(t)
      BY Zenon DEF PipeLend, Step, PipeTake, ChanWrite, ChanRead, CloseMark, Return
    <2> QED  BY <2>1, ReleaseCases, ZenonT(60) DEF Releases, PipeTake, ChanWrite, ChanRead, CloseMark, Return
  <1>2. CASE PipeTake(t)
    <2>1. pc[t] = "ptake" /\ port'.status = "OPEN" /\ port'.buf = NULL /\ ~CloseMark(t)
      BY <1>1, <1>2, ZenonT(60) DEF PipeTake, CloseMark, Return, Ports
    <2>2. \A u \in Threads \ {t} : pc[u] \notin {"pwait", "ptake"} \cup Holding
      BY <2>1, OneReceiver, Zenon DEF PipeInv, Exclusive
    <2>3. \A u \in Threads : pc'[u] \notin {"pwait", "ptake"} \cup Holding
      BY <1>1, <2>2, Zenon DEF Moves
    <2> QED  BY <1>2, <2>1, <2>2, <2>3, ZenonT(60) DEF PipeInv, Exclusive, LentBufferIsLive
  <1>3. CASE ~PipeTake(t)
    <2>1. pc[t] # "ptake" /\ port'.status = (IF CloseMark(t) THEN "CLOSING" ELSE "OPEN")
      BY <1>1, <1>3, ZenonT(60) DEF ChanWrite, ChanRead, CloseMark, Return, Ports, release_coport_status
    <2>2. port'.buf = port.buf
      BY <1>1, <1>3, ZenonT(60) DEF ChanWrite, ChanRead, CloseMark, Ports, release_coport_status
    <2>3. port.buf = NULL /\ \A u \in Threads : pc[u] \notin {"pwait", "ptake", "pcopy"}
      BY <1>1, <2>1, Alone, Zenon
    <2>4. \A u \in Threads : pc'[u] \notin {"pwait", "ptake"} \cup Holding
      BY <1>1, <2>3, Zenon DEF Moves, PipeInv, Exclusive
    <2> QED  BY <2>1, <2>2, <2>3, <2>4, ZenonT(60) DEF PipeInv, Exclusive, LentBufferIsLive
  <1> QED  BY <1>2, <1>3, Zenon

\* Nobody waits at a closed port: coclose takes the word only when it is free.
LEMMA NoneGivesUpWaiting ==
    ASSUME TypeInv, PipeInv, NEW t \in Threads, Abandons(t)
    PROVE  /\ Moves(t, "idle") /\ pc[t] \in {"psend", "precv", "csend", "crecv", "close"}
           /\ UNCHANGED <<tableVars, ipcVars>>
  <1>1. PICK from \in {"psend", "precv", "pwait", "csend", "crecv", "close"} : GiveUp(t, from)
    BY Zenon DEF Abandons
  <1>2. Moves(t, "idle") /\ pc[t] = from /\ UNCHANGED <<tableVars, ipcVars>> /\ Closed
    BY <1>1, TypeGiveUp, Zenon DEF GiveUp
  <1>3. from # "pwait"
    BY <1>2, Zenon DEF PipeInv, Waiting, Closed
  <1> QED  BY <1>2, <1>3, Zenon

\* The first open makes the port; there was nobody in a call on it.
LEMMA PipeOpened ==
    ASSUME TypeInv, PipeInv, NEW t \in Threads, Opened(t)
    PROVE  /\ PipeInv' /\ Moves(t, "idle") /\ inbox' = inbox /\ pc[t] = "count"
           /\ \/ port' = port
              \/ port = NULL /\ port' \in Ports /\ port'.status = "OPEN"
                 /\ \A u \in Threads : pc[u] \notin {"pwait", "ptake"}
  <1>1. /\ Moves(t, "idle") /\ pc[t] = "count" /\ inbox' = inbox
        /\ port' = port \/ (port = NULL /\ port' = init_coport(loc[t].type) /\ port' \in Ports)
    BY TypeOpened, Zenon
  <1>2. CASE port' = port
    BY <1>1, <1>2, PipeFrame, Zenon DEF Holding, Steps
  <1>3. CASE port = NULL /\ port' = init_coport(loc[t].type) /\ port' \in Ports
    <2>1. \A u \in Threads : pc[u] \notin Holding \cup {"pwait"}
      BY <1>3, NullIsNoPort, Zenon DEF TypeInv, PortKnown, Holding, PipeSteps, ChanSteps
    <2>2. \A u \in Threads : pc'[u] \notin Holding \cup {"pwait"}
      BY <1>1, <2>1, Zenon DEF Moves, Holding
    <2>3. port'.status = "OPEN" /\ port'.buf = NULL
      BY <1>3, Zenon DEF init_coport
    <2> QED  BY <1>1, <1>3, <2>1, <2>2, <2>3, ZenonT(60) DEF PipeInv, Exclusive, LentBufferIsLive, Holding
  <1> QED  BY <1>1, <1>2, <1>3, Zenon

\* A worker that opens, or a call that starts, is outside the handshake.
LEMMA Outside ==
    ASSUME TypeInv, NEW t \in Threads, (OpenSteps(t) /\ UNCHANGED ipcVars) \/ Calls(t)
    PROVE  /\ UNCHANGED ipcVars
           /\ pc[t] \notin Holding \cup {"pwait"}
           /\ \E to \in Steps \ (Holding \cup {"pwait"}) : Moves(t, to)
  <1> USE DEF Holding, Steps, Opening, PipeSteps, ChanSteps
  <1>1. CASE Calls(t)
    BY <1>1, CallOnPort, Zenon DEF Calls
  <1>2. CASE OpenSteps(t) /\ UNCHANGED ipcVars
    <2>1. CASE coport_open(t)
      BY <1>2, <2>1, CallMoves, ZenonT(60) DEF coport_open
    <2>2. CASE OpenRefused(t)
      BY <1>2, <2>2, ReturnMoves DEF OpenRefused
    <2>3. CASE OpenAdmitted(t)
      BY <1>2, <2>3, Zenon DEF OpenAdmitted, TypeInv, Moves
    <2>4. CASE allocate_coport(t)
      BY <1>2, <2>4, Zenon DEF allocate_coport, TypeInv, Moves
    <2> QED  BY <1>2, <2>1, <2>2, <2>3, <2>4, ZenonT(60) DEF OpenSteps
  <1> QED  BY <1>1, <1>2, Zenon

\* Every step keeps the handshake's invariant.
LEMMA PipeStep == TypeInv /\ PipeInv /\ [Next]_vars => PipeInv'
  <1> SUFFICES ASSUME TypeInv, PipeInv, [Next]_vars PROVE PipeInv'
    BY Zenon
  <1>1. ASSUME NEW t \in Threads, (OpenSteps(t) /\ UNCHANGED ipcVars) \/ Calls(t) PROVE PipeInv'
    <2>1. PICK to \in Steps \ (Holding \cup {"pwait"}) : Moves(t, to)
      BY <1>1, Outside, Zenon
    <2>2. pc[t] \notin Holding \cup {"pwait"} /\ port' = port /\ inbox' = inbox
      BY <1>1, Outside, Zenon DEF ipcVars
    <2> QED  BY <2>1, <2>2, PipeFrame, Zenon
  <1>2. ASSUME NEW t \in Threads, Opened(t) PROVE PipeInv'
    BY <1>2, PipeOpened, Zenon
  <1>3. ASSUME NEW t \in Threads, Acquires(t) PROVE PipeInv'
    BY <1>3, PipeAcquire, Zenon
  <1>4. ASSUME NEW t \in Threads, Releases(t) PROVE PipeInv'
    BY <1>4, PipeCopied, PipeLent, PipeReleased, ZenonT(60) DEF Releases
  <1>5. ASSUME NEW t \in Threads, Abandons(t) PROVE PipeInv'
    <2>1. /\ Moves(t, "idle") /\ pc[t] \notin Holding \cup {"pwait"}
          /\ port' = port /\ inbox' = inbox /\ "idle" \in Steps \ (Holding \cup {"pwait"})
      BY <1>5, NoneGivesUpWaiting, Zenon DEF Holding, ipcVars, Steps
    <2> QED  BY <2>1, PipeFrame, Zenon
  <1>6. CASE UNCHANGED vars
    BY <1>6, ZenonT(60) DEF vars, ipcVars, PipeInv, Exclusive, LentBufferIsLive, Waiting, Filled
  <1> QED  BY <1>1, <1>2, <1>3, <1>4, <1>5, <1>6, NextCases, ZenonT(60)

\* The types and the handshake's invariant hold throughout.
LEMMA Inductive == Spec => [](TypeInv /\ PipeInv)
  BY TypeInit, TypeStep, PipeInit, PipeStep, PTL DEF Spec

\* The status word is a lock for all the operations that share it, those of
\* libcomsg and coclose in ipcd (coport_ipc_utils.c 178, 208).
THEOREM StatusWordIsLock == Spec => []Exclusive
  <1>1. TypeInv /\ PipeInv => Exclusive
    BY Zenon DEF PipeInv
  <1> QED  BY <1>1, Inductive, PTL

\* A copipe never holds the buffer of a receive that returned (copipe_recv).
THEOREM NoBufferLeftBehind == Spec => []LentBufferIsLive
  <1>1. TypeInv /\ PipeInv => LentBufferIsLive
    BY ZenonT(60) DEF PipeInv
  <1> QED  BY <1>1, Inductive, PTL

\* A receive returns the length of the one message copied into its buffer
\* (copipe_send, copipe_recv).
THEOREM ReceivesOneSend == Spec => []OneSendPerReceive
  <1>1. TypeInv /\ PipeInv => OneSendPerReceive
    BY Zenon DEF PipeInv, OneSendPerReceive, Filled
  <1> QED  BY <1>1, Inductive, PTL

-----------------------------------------------------------------------------
\* The refinement mapping of Abstract, thread by thread.
No == <<"no">>
Offered == <<"offered">>
Handed(m) == <<"handed", m>>
WaitOf(t) == IF pc[t] \notin {"pwait", "ptake"} THEN No
             ELSE IF pc[t] = "ptake" \/ port.status = "DONE" THEN Handed(inbox[t])
             ELSE Offered
Wait == [t \in Threads |-> WaitOf(t)]
IsClosed == port # NULL /\ Closed

\* The three parts a thread can have in a rendezvous differ.
LEMMA Distinct == No # Offered /\ \A m : Handed(m) \notin {No, Offered}
  BY Zenon DEF No, Offered, Handed

\* A step that leaves every thread's part alone, and the port open or closed.
LEMMA Stutter ==
    ASSUME \A u \in Threads : WaitOf(u)' = WaitOf(u), IsClosed' <=> IsClosed
    PROVE  UNCHANGED Abstract!vars
  <1>1. Wait' = Wait
    BY Zenon DEF Wait
  <1>2. IsClosed' = IsClosed
    <2>1. CASE IsClosed
      <3>1. IsClosed = TRUE /\ IsClosed' = TRUE
        BY <2>1, Zenon DEF IsClosed
      <3> QED  BY <3>1, Zenon
    <2>2. CASE ~IsClosed
      <3>1. IsClosed = FALSE /\ IsClosed' = FALSE
        BY <2>2, Zenon DEF IsClosed
      <3> QED  BY <3>1, Zenon
    <2> QED  BY <2>1, <2>2, Zenon
  <1> QED  BY <1>1, <1>2, ZenonT(60) DEF Abstract!vars, Wait, WaitOf, IsClosed, No, Offered, Handed

\* Before the port is opened nobody waits.
LEMMA RendezvousInit == Init => Abstract!Init
  <1> SUFFICES ASSUME Init PROVE Abstract!Init
    BY Zenon
  <1>1. \A t \in Threads : WaitOf(t) = No
    BY Zenon DEF Init, CallsInit, WaitOf
  <1>2. Wait = [t \in Threads |-> No] /\ IsClosed = FALSE
    BY <1>1, Zenon DEF Wait, IsClosed, Init
  <1> QED  BY <1>2, ZenonT(60) DEF Abstract!Init, Wait, WaitOf, IsClosed, No, Offered, Handed

\* One thread's part changes.
LEMMA Changed ==
    ASSUME NEW t \in Threads, NEW m, WaitOf(t)' = m, \A u \in Threads \ {t} : WaitOf(u)' = WaitOf(u)
    PROVE  Wait' = [Wait EXCEPT ![t] = m]
  BY Zenon DEF Wait

\* Copying is Hand, unless the message is too long; lending is Offer, taking the
\* buffer back Leave, coclose's store of CLOSING Close.
LEMMA RendezvousRelease ==
    ASSUME TypeInv, PipeInv, NEW t \in Threads, Releases(t)
    PROVE  Abstract!Next \/ UNCHANGED Abstract!vars
  <1> USE DEF Holding
  <1>0. /\ pc[t] \in Holding /\ port.status = "BUSY" /\ port \in Ports /\ port' \in Ports
        /\ Moves(t, IF PipeLend(t) THEN "pwait" ELSE "idle")
        /\ port # NULL /\ port' # NULL /\ TypeInv'
    BY ReleaseCases, NullIsNoPort, ZenonT(60) DEF PipeInv, Exclusive
  <1>c. IsClosed = FALSE
    BY <1>0, Zenon DEF IsClosed, Closed
  <1>1. CASE PipeCopy(t)
    <2>0. pc[t] = "pcopy" /\ Moves(t, "idle")
      BY <1>1, ReturnMoves, ZenonT(60) DEF PipeCopy
    <2>1. PICK w \in Threads : /\ pc[w] = "pwait" /\ pc'[w] = "pwait" /\ inbox[w] = <<>>
                               /\ \A u \in Threads \ {w} : inbox'[u] = inbox[u]
                               /\ \/ port'.status = "READY" /\ inbox'[w] = <<>>
                                  \/ /\ port'.status = "DONE"
                                     /\ inbox'[w] \in {<<>>} \cup {<<len>> : len \in Lens}
      BY <1>1, PipeCopied, ZenonT(60)
    <2>2. IsClosed' = FALSE
      BY <2>1, Zenon DEF IsClosed, Closed
    <2>3. WaitOf(w) = Offered
      BY <1>0, <2>1, Zenon DEF WaitOf
    <2>4. \A u \in Threads \ {w} : WaitOf(u) = No /\ WaitOf(u)' = No
      BY <2>0, <2>1, OneReceiver, ZenonT(60) DEF WaitOf, Moves
    <2>5. CASE port'.status = "READY"
      BY <2>1, <2>2, <2>3, <2>4, <2>5, <1>c, Stutter, ZenonT(60) DEF WaitOf
    <2>6. CASE port'.status = "DONE"
      <3>1. PICK m \in {<<>>} \cup {<<len>> : len \in Lens} : inbox'[w] = m
        BY <2>1, <2>6, ZenonT(60)
      <3>2. WaitOf(w)' = Handed(m)
        BY <2>1, <2>6, <3>1, ZenonT(60) DEF WaitOf, Handed
      <3>3. Wait' = [Wait EXCEPT ![w] = Handed(m)] /\ Wait[w] = Offered /\ IsClosed' = IsClosed
        BY <2>2, <2>3, <2>4, <3>2, <1>c, Changed, ZenonT(60) DEF Wait
      <3>4. Abstract!Hand(w, m)
        BY <3>3, Zenon DEF Abstract!Hand, Wait, WaitOf, IsClosed, No, Offered, Handed
      <3> QED  BY <3>4, Zenon DEF Abstract!Next
    <2> QED  BY <2>1, <2>5, <2>6, ZenonT(60)
  <1>2. CASE PipeLend(t)
    <2>1. /\ port'.status = "READY" /\ pc'[t] = "pwait"
          /\ \A u \in Threads : pc'[u] \in {"pwait", "ptake"} => u = t
          /\ \A u \in Threads : pc[u] \notin {"pwait", "ptake"}
      BY <1>0, <1>2, PipeLent, ZenonT(60) DEF Moves
    <2>2. /\ \A u \in Threads : WaitOf(u) = No
          /\ \A u \in Threads \ {t} : WaitOf(u)' = WaitOf(u)
          /\ WaitOf(t)' = Offered /\ IsClosed' = FALSE
      BY <2>1, Zenon DEF WaitOf, IsClosed, Closed
    <2>3. Wait' = [Wait EXCEPT ![t] = Offered] /\ \A u \in Threads : Wait[u] = No
      BY <2>2, Changed, ZenonT(60) DEF Wait
    <2>4. Abstract!Offer(t)
      BY <2>2, <2>3, <1>c, Zenon DEF Abstract!Offer, Wait, WaitOf, IsClosed, No, Offered, Handed
    <2> QED  BY <2>4, ZenonT(60) DEF Abstract!Next
  <1>3. CASE PipeTake(t) \/ ChanWrite(t) \/ ChanRead(t) \/ CloseMark(t)
    <2>1. /\ port'.status = IF CloseMark(t) THEN "CLOSING" ELSE "OPEN"
          /\ \A u \in Threads : WaitOf(u)' = No
          /\ \A u \in Threads \ {t} : WaitOf(u) = No
          /\ ~PipeTake(t) => pc[t] # "ptake"
      BY <1>3, PipeReleased, ZenonT(60) DEF WaitOf
    <2>2. CASE PipeTake(t)
      <3>1. pc[t] = "ptake" /\ ~CloseMark(t)
        BY <2>2, Zenon DEF PipeTake, CloseMark, Return
      <3>2. WaitOf(t) = Handed(inbox[t]) /\ IsClosed' = FALSE
        BY <3>1, <2>1, ZenonT(60) DEF WaitOf, IsClosed, Closed
      <3>3. Wait' = [Wait EXCEPT ![t] = No] /\ Wait[t] \notin {No, Offered}
        BY <2>1, <3>2, Changed, Distinct, ZenonT(60) DEF Wait
      <3>4. Abstract!Leave(t)
        BY <3>2, <3>3, <1>c, ZenonT(60) DEF Abstract!Leave, Wait, WaitOf, IsClosed, No, Offered, Handed
      <3> QED  BY <3>4, Zenon DEF Abstract!Next
    <2>3. CASE ~PipeTake(t)
      <3>1. \A u \in Threads : WaitOf(u) = No
        BY <1>0, <2>1, <2>3, ZenonT(60) DEF WaitOf
      <3>2. CASE CloseMark(t)
        <4>1. IsClosed' = TRUE
          BY <1>0, <2>1, <3>2, ZenonT(60) DEF IsClosed, Closed
        <4>2. Wait' = Wait /\ \A u \in Threads : Wait[u] = No
          BY <2>1, <3>1, ZenonT(60) DEF Wait
        <4>3. Abstract!Close
          BY <4>1, <4>2, Zenon DEF Abstract!Close, Wait, WaitOf, IsClosed, No, Offered, Handed
        <4> QED  BY <4>3, Zenon DEF Abstract!Next
      <3>3. CASE ~CloseMark(t)
        BY <2>1, <3>1, <3>3, <1>c, Stutter, ZenonT(60) DEF IsClosed, Closed
      <3> QED  BY <3>2, <3>3, Zenon
    <2> QED  BY <2>2, <2>3, Zenon
  <1> QED  BY <1>1, <1>2, <1>3, ZenonT(60) DEF Releases

\* Taking the word, giving up, opening and calling are no steps of a rendezvous.
LEMMA RendezvousStep ==
    ASSUME TypeInv, PipeInv, Next
    PROVE  Abstract!Next \/ UNCHANGED Abstract!vars
  <1>1. ASSUME NEW t \in Threads, (OpenSteps(t) /\ UNCHANGED ipcVars) \/ Calls(t)
        PROVE  UNCHANGED Abstract!vars
    BY <1>1, Outside, Stutter, ZenonT(60) DEF ipcVars, WaitOf, Moves, IsClosed, Closed, Holding
  <1>2. ASSUME NEW t \in Threads, Opened(t) PROVE UNCHANGED Abstract!vars
    <2>1. \A u \in Threads : pc'[u] \in {"pwait", "ptake"} <=> pc[u] \in {"pwait", "ptake"}
      BY <1>2, PipeOpened, ZenonT(60) DEF Moves
    <2>2. \A u \in Threads : pc[u] \in {"pwait", "ptake"} => pc'[u] = pc[u] /\ inbox'[u] = inbox[u]
      BY <1>2, PipeOpened, Zenon DEF Moves
    <2>3. \/ port' = port
          \/ port = NULL /\ port' \in Ports /\ port'.status = "OPEN"
             /\ \A u \in Threads : pc[u] \notin {"pwait", "ptake"}
      BY <1>2, PipeOpened, ZenonT(60)
    <2> QED  BY <2>1, <2>2, <2>3, Stutter, ZenonT(60) DEF WaitOf, IsClosed, Closed
  <1>3. ASSUME NEW t \in Threads, Acquires(t) PROVE UNCHANGED Abstract!vars
    <2>1. /\ inbox' = inbox /\ port \in Ports /\ port' \in Ports /\ port' = [port EXCEPT !.status = "BUSY"]
          /\ \/ pc[t] = "psend" /\ port.status = "READY" /\ Moves(t, "pcopy")
             \/ pc[t] = "precv" /\ port.status = "OPEN" /\ Moves(t, "plend")
             \/ pc[t] = "pwait" /\ port.status = "DONE" /\ Moves(t, "ptake")
             \/ pc[t] = "csend" /\ port.status = "OPEN" /\ Moves(t, "cwrite")
             \/ pc[t] = "crecv" /\ port.status = "OPEN" /\ Moves(t, "cread")
             \/ pc[t] = "close" /\ port.status = "OPEN" /\ Moves(t, "closing")
      BY <1>3, AcquireCases, Zenon
    <2>2. port'.status = "BUSY"
      BY <2>1, Zenon DEF Ports
    <2>3. \A u \in Threads : pc[u] # "ptake"
      BY <2>1, Zenon DEF PipeInv, Exclusive, Holding
    <2>4. \A u \in Threads \ {t} : WaitOf(u)' = WaitOf(u)
      <3>1. CASE port.status = "OPEN"
        BY <2>1, <3>1, Alone, ZenonT(60) DEF WaitOf, Moves
      <3>2. CASE port.status = "READY"
        BY <2>1, <2>2, <2>3, <3>2, Zenon DEF WaitOf, Moves
      <3>3. CASE port.status = "DONE"
        BY <2>1, <3>3, OneReceiver, ZenonT(60) DEF WaitOf, Moves
      <3> QED  BY <2>1, <3>1, <3>2, <3>3, ZenonT(60)
    <2>5. WaitOf(t)' = WaitOf(t)
      BY <2>1, Zenon DEF WaitOf, Moves
    <2> QED  BY <2>1, <2>2, <2>4, <2>5, Stutter, ZenonT(60) DEF IsClosed, Closed
  <1>4. ASSUME NEW t \in Threads, Releases(t) PROVE Abstract!Next \/ UNCHANGED Abstract!vars
    BY <1>4, RendezvousRelease, Zenon
  <1>5. ASSUME NEW t \in Threads, Abandons(t) PROVE UNCHANGED Abstract!vars
    BY <1>5, NoneGivesUpWaiting, Stutter, ZenonT(60) DEF ipcVars, WaitOf, Moves, IsClosed, Closed
  <1> QED  BY <1>1, <1>2, <1>3, <1>4, <1>5, NextCases, ZenonT(60)

\* What a copipe promises its users, for any number of threads: one receiver at
\* a time, one message handed to it, no close under it (copipe_send, copipe_recv,
\* coport_close).
THEOREM CopipeIsRendezvous == Spec => ImplementsRendezvous
  <1>1. TypeInv /\ PipeInv /\ [Next]_vars => [Abstract!Next]_(Abstract!vars)
    <2>1. UNCHANGED vars => UNCHANGED Abstract!vars
      BY Zenon DEF vars, ipcVars, Abstract!vars, Closed
    <2> QED  BY <2>1, RendezvousStep, Zenon
  <1> QED  BY <1>1, RendezvousInit, Inductive, PTL DEF Spec, ImplementsRendezvous, Abstract!Spec

-----------------------------------------------------------------------------
\* Cochannels.  Byte n, counted from 0, is at position n modulo the size.
Size == COPORT_BUF_LEN
Pos(n) == n % Size

\* The condition of the properties: an open cochannel, no stale length stored.
Sound == port # NULL /\ port.type = "COCHANNEL" /\ ~stale

ChanType == /\ sent \in Nat /\ received \in Nat /\ stale \in BOOLEAN
            /\ data \in [0 .. Size - 1 -> Int]
            /\ port = NULL => sent = 0 /\ received = 0

\* start and end are the positions of the next byte out and in, and between
\* them the bytes are in order.
QueueInv == Sound =>
    /\ port.length = sent - received /\ port.length \in 0 .. Size
    /\ port.start = Pos(received) /\ port.end = Pos(sent)
    /\ \A n \in received .. sent - 1 : data[Pos(n)] = n + 1

\* The mask, until coclose.
EventInv == Sound => /\ "IN" \in port.event <=> port.length # 0
                     /\ "CLOSED" \notin port.event => ("OUT" \in port.event <=> port.length # Size)
ClosedInv == port # NULL /\ "CLOSED" \in port.event => port.status = "CLOSING"

\* A sender passed its test with a length that is right unless something stored
\* a stale one.
ReadInv == \A t \in Threads : pc[t] \in {"csend", "cwrite"} /\ ~stale =>
    loc[t].read \in 0 .. Size /\ loc[t].len + loc[t].read <= Size

ChanInv == ChanType /\ QueueInv /\ EventInv /\ ClosedInv /\ ReadInv

\* The sizes of the code: the buffer is much smaller than size_t.
LEMMA Sizes == Size \in Nat \ {0} /\ SIZE_MODULUS \in Nat /\ SIZE_MODULUS > 2 * Size
  BY BufAssumption, Zenon DEF Size

\* Below the modulus, % changes nothing.
LEMMA NoWrap == ASSUME NEW n \in 0 .. 2 * Size PROVE n % SIZE_MODULUS = n
  <1>1. n \in Nat /\ SIZE_MODULUS \in Nat \ {0} /\ n \in 0 .. SIZE_MODULUS - 1 /\ n = SIZE_MODULUS * 0 + n
    BY Sizes
  <1> QED  BY ONLY <1>1, ModUnique, Z3

\* A position is in the buffer.
LEMMA PosType == ASSUME NEW n \in Nat PROVE Pos(n) \in 0 .. Size - 1
  BY Sizes, DivMod, Zenon DEF Pos

\* Before the port is opened nothing was sent.
LEMMA ChanInit == Init => ChanInv
  <1> SUFFICES ASSUME Init PROVE ChanInv
    BY Zenon
  <1>1. ChanType
    <2>1. data \in [0 .. Size - 1 -> Int]
      BY DEF Init, Size
    <2>2. stale \in BOOLEAN
      BY Zenon DEF Init
    <2>3. sent = 0 /\ received = 0
      BY Zenon DEF Init
    <2> QED  BY <2>1, <2>2, <2>3, Zenon DEF ChanType
  <1>2. QueueInv /\ EventInv /\ ClosedInv
    BY Zenon DEF Init, QueueInv, EventInv, ClosedInv, Sound
  <1>3. ReadInv
    BY Zenon DEF Init, CallsInit, ReadInv
  <1> QED  BY <1>1, <1>2, <1>3, ZenonT(60) DEF ChanInv

\* A step that at most changes the status word.
LEMMA ChanFrame ==
    ASSUME TypeInv, ChanInv, NEW t \in Threads, NEW to \in Steps, Moves(t, to),
           UNCHANGED <<data, sent, received, stale>>,
           \/ port' = port
           \/ /\ port # NULL /\ port' # NULL /\ port'.type = port.type /\ port'.event = port.event
              /\ \/ port.type # "COCHANNEL"
                 \/ port'.length = port.length /\ port'.start = port.start /\ port'.end = port.end
              /\ "CLOSED" \notin port.event,
           to = "csend" /\ ~stale => loc'[t].read \in 0 .. Size /\ loc'[t].len + loc'[t].read <= Size,
           to = "cwrite" => pc[t] = "csend" /\ loc'[t] = loc[t]
    PROVE  ChanInv'
  <1>1. ReadInv'
    BY ZenonT(60) DEF ChanInv, ReadInv, Moves
  <1>2. ChanType' /\ ClosedInv'
    BY Zenon DEF ChanInv, ChanType, ClosedInv
  <1>3. QueueInv' /\ EventInv'
    BY Zenon DEF ChanInv, QueueInv, EventInv, Sound
  <1> QED  BY <1>1, <1>2, <1>3, Zenon DEF ChanInv

\* A call: a sender reads the length and finds room for its message.
LEMMA ChanCalled ==
    ASSUME TypeInv, ChanInv, NEW t \in Threads, Calls(t)
    PROVE  ChanInv'
  <1> USE DEF Steps, PipeSteps, ChanSteps
  <1>0. UNCHANGED <<tableVars, ipcVars>> /\ port \in Ports
    BY CallOnPort, Zenon DEF Calls
  <1>1. UNCHANGED <<data, sent, received, stale>> /\ port' = port
    BY <1>0, Zenon DEF ipcVars
  <1>2. CASE \E to \in {"psend", "precv", "crecv", "close"} : Moves(t, to)
    <2>1. PICK to \in {"psend", "precv", "crecv", "close"} : Moves(t, to)
      BY <1>2, Zenon
    <2> QED  BY <1>1, <2>1, ChanFrame, Zenon
  <1>3. CASE Moves(t, "csend")
    <2>1. PICK len \in Lens : cochannel_send(t, len) /\ Usable("COCHANNEL")
      BY <1>3, ZenonT(60) DEF Calls, cosend, corecv, cosend_impl_copipe, corecv_impl_copipe, cosend_impl_cochannel,
         corecv_impl_cochannel, copipe_send, copipe_recv, cochannel_recv, coport_close, Call, TypeInv, Moves
    <2>2. /\ loc'[t].len = len /\ loc'[t].read = port.length /\ (len + port.length) % SIZE_MODULUS <= Size
      BY <2>1, CallMoves DEF cochannel_send, Size
    <2>3. ASSUME ~stale PROVE loc'[t].read \in 0 .. Size /\ loc'[t].len + loc'[t].read <= Size
      <3>1. port.length \in 0 .. Size /\ len \in 1 .. Size /\ Size \in Nat
        BY <2>1, <2>3, Sizes, ZenonT(60) DEF ChanInv, QueueInv, Sound, Usable, Lens, Size
      <3>2. len + port.length \in 0 .. 2 * Size
        BY <3>1
      <3>3. (len + port.length) % SIZE_MODULUS = len + port.length
        BY <3>2, NoWrap, Zenon
      <3> QED  BY <2>2, <3>1, <3>3, Zenon
    <2> QED  BY <1>1, <1>3, <2>3, ChanFrame, Zenon
  <1> QED  BY <1>2, <1>3, CallOnPort, Zenon DEF Calls

\* Taking the word: only of a port that is not closed.
LEMMA ChanAcquired ==
    ASSUME TypeInv, ChanInv, NEW t \in Threads, Acquires(t)
    PROVE  ChanInv'
  <1> USE DEF Steps, PipeSteps, ChanSteps
  <1>1. /\ loc' = loc /\ port \in Ports /\ port' \in Ports /\ port' = [port EXCEPT !.status = "BUSY"]
        /\ port.status # "CLOSING"
    BY AcquireCases, Zenon
  <1>2. UNCHANGED <<data, sent, received, stale>>
    BY Zenon DEF Acquires, PipeSendAcquire, PipeRecvAcquire, PipeWait, ChanSendAcquire, ChanRecvAcquire,
       CloseAcquire, acquire_coport_status
  <1>3. /\ port # NULL /\ port' # NULL /\ port'.type = port.type /\ port'.event = port.event
        /\ port'.length = port.length /\ port'.start = port.start /\ port'.end = port.end
        /\ "CLOSED" \notin port.event
    BY <1>1, NullIsNoPort, Zenon DEF Ports, ChanInv, ClosedInv
  <1>4. \/ \E to \in {"pcopy", "plend", "ptake", "cread", "closing"} : Moves(t, to)
        \/ pc[t] = "csend" /\ Moves(t, "cwrite")
    BY AcquireCases, Zenon
  <1>5. CASE \E to \in {"pcopy", "plend", "ptake", "cread", "closing"} : Moves(t, to)
    <2>1. PICK to \in {"pcopy", "plend", "ptake", "cread", "closing"} : Moves(t, to)
      BY <1>5, Zenon
    <2> QED  BY <1>2, <1>3, <2>1, ChanFrame, Zenon
  <1>6. CASE pc[t] = "csend" /\ Moves(t, "cwrite")
    BY <1>1, <1>2, <1>3, <1>6, ChanFrame, ZenonT(60)
  <1> QED  BY <1>4, <1>5, <1>6, Zenon

\* The operations of copipes are on a port of the other type.
LEMMA ChanPiped ==
    ASSUME TypeInv, PipeInv, ChanInv, NEW t \in Threads, PipeCopy(t) \/ PipeLend(t) \/ PipeTake(t)
    PROVE  ChanInv'
  <1> USE DEF Steps, PipeSteps, ChanSteps, Holding
  <1>1. port \in Ports /\ port' \in Ports /\ port # NULL /\ port' # NULL
    BY TypePipe, NullIsNoPort, Zenon
  <1>2. pc[t] \in PipeSteps \cap Holding
    BY Zenon DEF PipeCopy, PipeLend, PipeTake, Return, Step
  <1>3. port.type = "COPIPE" /\ port.status = "BUSY" /\ "CLOSED" \notin port.event
    BY <1>1, <1>2, Zenon DEF TypeInv, PortKnown, PipeInv, Exclusive, ChanInv, ClosedInv
  <1>4. port'.type = port.type /\ port'.event = port.event /\ UNCHANGED <<data, sent, received, stale>>
    BY <1>1, ZenonT(60) DEF PipeCopy, PipeLend, PipeTake, release_coport_status, Ports
  <1>5. Moves(t, "pwait") \/ Moves(t, "idle")
    BY ReleaseCases, Zenon DEF Releases
  <1> QED  BY <1>1, <1>3, <1>4, <1>5, ChanFrame, Zenon

\* The first open makes an empty channel; a later one changes nothing here.
LEMMA ChanOpened ==
    ASSUME TypeInv, ChanInv, NEW t \in Threads, Opened(t)
    PROVE  ChanInv'
  <1>1. /\ Moves(t, "idle") /\ "idle" \in Steps /\ UNCHANGED <<data, sent, received, stale>>
        /\ port' = port \/ (port = NULL /\ port' = init_coport(loc[t].type) /\ port' \in Ports)
    BY TypeOpened, Zenon DEF Opened, Steps
  <1>2. CASE port' = port
    BY <1>1, <1>2, ChanFrame, Zenon
  <1>3. CASE port = NULL /\ port' = init_coport(loc[t].type) /\ port' \in Ports
    <2>1. port' # NULL /\ sent = 0 /\ received = 0
      BY <1>3, NullIsNoPort, Zenon DEF ChanInv, ChanType
    <2>2. ChanType' /\ ReadInv'
      BY <1>1, <2>1, Zenon DEF ChanInv, ChanType, ReadInv, Moves
    <2>3. /\ port'.status = "OPEN" /\ "CLOSED" \notin port'.event
          /\ port'.type = "COCHANNEL" =>
                port'.length = 0 /\ port'.start = 0 /\ port'.end = 0 /\ port'.event = {"OUT"}
      BY <1>3, Zenon DEF init_coport
    <2>4. Pos(0) = 0 /\ Size \in Nat \ {0}
      <3>1. 0 = Size * 0 + 0 /\ 0 \in 0 .. Size - 1 /\ Size \in Nat \ {0}
        BY Sizes
      <3> QED  BY <3>1, ModUnique, Zenon DEF Pos
    <2>5. ClosedInv' /\ EventInv'
      BY <2>3, <2>4, Zenon DEF ClosedInv, EventInv, Sound
    <2>6. QueueInv'
      BY <1>1, <2>1, <2>3, <2>4 DEF QueueInv, Sound
    <2> QED  BY <2>2, <2>5, <2>6, Zenon DEF ChanInv
  <1> QED  BY <1>1, <1>2, <1>3, Zenon

\* coclose takes OUT from the mask and leaves the bytes.
LEMMA ChanClosed ==
    ASSUME TypeInv, ChanInv, NEW t \in Threads, CloseMark(t)
    PROVE  ChanInv'
  <1>1. /\ Moves(t, "idle") /\ port \in Ports /\ port' \in Ports /\ port # NULL /\ port' # NULL
        /\ UNCHANGED <<data, sent, received, stale>>
    BY ReturnMoves, TypeChan, NullIsNoPort, Zenon DEF CloseMark
  <1>2. /\ port'.type = port.type /\ port'.length = port.length /\ port'.start = port.start
        /\ port'.end = port.end /\ port'.status = "CLOSING"
        /\ port'.event = (port.event \ {"OUT"}) \cup {"CLOSED"}
    BY <1>1, Zenon DEF CloseMark, release_coport_status, Ports
  <1>3. ChanType' /\ ReadInv' /\ ClosedInv'
    BY <1>1, <1>2, Zenon DEF ChanInv, ChanType, ReadInv, ClosedInv, Moves
  <1>4. QueueInv' /\ EventInv'
    BY <1>1, <1>2, Zenon DEF ChanInv, QueueInv, EventInv, Sound
  <1> QED  BY <1>3, <1>4, Zenon DEF ChanInv

\* An operation of a channel that changes nothing but the status word.
LEMMA ChanRefused ==
    ASSUME TypeInv, PipeInv, ChanInv, NEW t \in Threads, ChanWrite(t) \/ ChanRead(t),
           port' = release_coport_status(port, "OPEN"), UNCHANGED <<data, sent, received, stale>>
    PROVE  ChanInv'
  <1>1. /\ Moves(t, "idle") /\ "idle" \in Steps /\ port \in Ports /\ port' \in Ports
        /\ port # NULL /\ port' # NULL /\ pc[t] \in {"cwrite", "cread"}
    BY ReturnMoves, TypeChan, NullIsNoPort, Zenon DEF ChanWrite, ChanRead, Steps
  <1>2. port.status = "BUSY"
    BY <1>1, Zenon DEF PipeInv, Exclusive, Holding
  <1>3. "CLOSED" \notin port.event
    BY <1>1, <1>2, Zenon DEF ChanInv, ClosedInv
  <1>4. /\ port'.type = port.type /\ port'.event = port.event
        /\ port'.length = port.length /\ port'.start = port.start /\ port'.end = port.end
    BY <1>1, Zenon DEF release_coport_status, Ports
  <1> QED  BY <1>1, <1>3, <1>4, ChanFrame, Zenon

\* Moving a position on by b bytes.
LEMMA AdvancePos == ASSUME NEW a \in Nat, NEW b \in Nat PROVE Advance(Pos(a), b) = Pos(a + b)
  BY Sizes, ModAdd, Zenon DEF Advance, Pos, Size

\* The buffer after a message of len bytes was copied in behind byte s.
Rewritten(s, len, d) == [i \in 0 .. Size - 1 |-> IF i \in Written(Pos(s), len)
                                                 THEN s + 1 + ((i - Pos(s)) % Size) ELSE d[i]]

\* A message of len bytes that fits is written behind the bytes that are there,
\* in order, and over none of them.
LEMMA BytesWritten ==
    ASSUME NEW s \in Nat, NEW r \in Nat, NEW len \in Lens, NEW d \in [0 .. Size - 1 -> Int],
           r <= s, s + len - r <= Size,
           \A n \in r .. s - 1 : d[Pos(n)] = n + 1
    PROVE  \A n \in r .. s + len - 1 : Rewritten(s, len, d)[Pos(n)] = n + 1
  <1> DEFINE e == Rewritten(s, len, d)
  <1>1. Size \in Nat \ {0} /\ len \in 1 .. Size
    BY Sizes, Zenon DEF Lens, Size
  <1>2. SUFFICES ASSUME NEW n \in r .. s + len - 1 PROVE e[Pos(n)] = n + 1
    BY Zenon
  <1>3. n \in Nat /\ Pos(n) \in 0 .. Size - 1
    <2>1. n \in Nat
      OBVIOUS
    <2> QED  BY <2>1, PosType, Zenon
  <1>4. CASE n >= s
    <2>1. PICK k \in 0 .. len - 1 : n = s + k
      <3>1. n - s \in 0 .. len - 1 /\ n = s + (n - s)
        BY <1>1, <1>3, <1>4
      <3> QED  BY <3>1, Zenon
    <2>2. k \in 0 .. Size - 1 /\ k \in Nat
      BY <1>1
    <2>3. Pos(n) = Advance(Pos(s), k)
      BY <2>1, <2>2, AdvancePos, Zenon
    <2>4. Pos(n) \in Written(Pos(s), len)
      BY <2>3, Zenon DEF Written
    <2>5. (Pos(n) - Pos(s)) % Size = k
      BY <1>1, <2>1, <2>2, ModDistance, ZenonT(60) DEF Pos
    <2>6. e[Pos(n)] = s + 1 + ((Pos(n) - Pos(s)) % Size)
      BY <1>3, <2>4, Zenon DEF Rewritten
    <2> QED  BY <2>1, <2>2, <2>5, <2>6
  <1>5. CASE n < s
    <2>1. Pos(n) \notin Written(Pos(s), len)
      <3>1. SUFFICES ASSUME NEW k \in 0 .. len - 1, Pos(n) = Advance(Pos(s), k) PROVE FALSE
        BY Zenon DEF Written
      <3>2. k \in Nat /\ s + k \in Nat /\ n < s + k /\ s + k < n + Size
        BY <1>1, <1>3, <1>5
      <3>3. Advance(Pos(s), k) = Pos(s + k)
        BY <3>2, AdvancePos, Zenon
      <3>4. Pos(n) # Pos(s + k)
        BY <1>1, <1>3, <3>2, ModInjective, ZenonT(60) DEF Pos
      <3> QED  BY <3>1, <3>3, <3>4, Zenon
    <2>2. e[Pos(n)] = d[Pos(n)] /\ n \in r .. s - 1
      BY <1>3, <1>5, <2>1 DEF Rewritten
    <2> QED  BY <2>2, Zenon
  <1> QED  BY <1>3, <1>4, <1>5

\* A send that goes through.
LEMMA ChanWritten ==
    ASSUME TypeInv, PipeInv, ChanInv, NEW t \in Threads, ChanWrite(t), "OUT" \in port.event
    PROVE  ChanInv'
  <1>1. /\ Moves(t, "idle") /\ port \in Ports /\ port' \in Ports /\ port # NULL /\ port' # NULL
        /\ pc[t] = "cwrite"
    BY ReturnMoves, TypeChan, NullIsNoPort, ZenonT(60) DEF ChanWrite
  <1>0. PICK len \in Lens, new_len \in Int :
            len = loc[t].len /\ new_len = (len + loc[t].read) % SIZE_MODULUS
    BY <1>1, Sizes DEF TypeInv, LocalsOK, ChanSteps, Lens, Size
  <1>2. /\ loc[t].read \in Int /\ port.type = "COCHANNEL" /\ port.status = "BUSY"
        /\ Size \in Nat \ {0} /\ len \in 1 .. Size /\ port.end \in Int
    BY <1>1, Sizes, Zenon DEF TypeInv, LocalsOK, PortKnown, ChanSteps, PipeInv, Exclusive, Holding,
       Lens, Size, Ports
  <1>3. "CLOSED" \notin port.event
    BY <1>1, <1>2, Zenon DEF ChanInv, ClosedInv
  <1>4. /\ data' = [i \in 0 .. Size - 1 |-> IF i \in Written(port.end, len)
                                            THEN sent + 1 + ((i - port.end) % Size) ELSE data[i]]
        /\ sent' = sent + len /\ received' = received
    <2>1. DOMAIN data = 0 .. Size - 1
      BY Zenon DEF ChanInv, ChanType
    <2> QED  BY <1>0, <2>1, Zenon DEF ChanWrite, Size
  <1>5. stale' = (stale \/ loc[t].read # port.length)
    BY Zenon DEF ChanWrite
  <1>6. /\ port'.type = port.type /\ port'.start = port.start /\ port'.status = "OPEN"
        /\ port'.end = Advance(port.end, len) /\ port'.length = new_len
        /\ port'.event = SendEvent(port.event, new_len)
    BY <1>0, <1>1, ZenonT(60) DEF ChanWrite, release_coport_status, Ports
  <1>7. ChanType'
    <2>1. \A i \in 0 .. Size - 1 : (i - port.end) % Size \in Int
      BY <1>2
    <2>2. sent \in Nat /\ received \in Nat /\ data \in [0 .. Size - 1 -> Int] /\ len \in Nat
      BY <1>2 DEF ChanInv, ChanType
    <2>4. data' \in [0 .. Size - 1 -> Int]
      BY <1>4, <2>1, <2>2
    <2>5. sent' \in Nat /\ received' \in Nat
      BY <1>4, <2>2
    <2>3. stale' \in BOOLEAN
      BY Zenon, <1>5
    <2> QED  BY <1>1, <2>3, <2>4, <2>5, Zenon DEF ChanType
  <1>8. stale => stale'
    BY Zenon, <1>5
  <1>9. ReadInv'
    BY <1>1, <1>8, Zenon DEF ChanInv, ReadInv, Moves
  <1>10. ClosedInv'
    BY <1>3, <1>6, Zenon DEF ClosedInv, SendEvent
  <1>11. ASSUME ~stale' PROVE QueueInv' /\ EventInv'
    <2>1. ~stale /\ loc[t].read = port.length
      BY Zenon, <1>5, <1>11
    <2>2. /\ port.length = sent - received /\ port.length \in 0 .. Size
          /\ port.start = Pos(received) /\ port.end = Pos(sent)
          /\ \A n \in received .. sent - 1 : data[Pos(n)] = n + 1
          /\ len + port.length <= Size
      BY <1>0, <1>1, <1>2, <2>1, ZenonT(60) DEF ChanInv, QueueInv, Sound, ReadInv
    <2>3. sent \in Nat /\ received \in Nat /\ data \in [0 .. Size - 1 -> Int]
      BY Zenon DEF ChanInv, ChanType
    <2>4. new_len = len + port.length
      <3>1. len + port.length \in 0 .. 2 * Size
        BY <1>2, <2>2
      <3> QED  BY <1>0, <2>1, <3>1, NoWrap, ZenonT(60)
    <2>5. \A n \in received .. sent + len - 1 : data'[Pos(n)] = n + 1
      <3>1. received <= sent /\ sent + len - received <= Size
        BY <1>2, <2>2, <2>3
      <3>2. data' = Rewritten(sent, len, data)
        BY <1>4, <2>2, Zenon DEF Rewritten
      <3>3. \A n \in received .. sent - 1 : data[Pos(n)] = n + 1
        BY <2>2, Zenon
      <3> QED  BY <2>3, <3>1, <3>2, <3>3, BytesWritten, ZenonT(60)
    <2>6. port'.end = Pos(sent')
      <3>1. len \in Nat
        BY ONLY <1>2
      <3>2. Advance(Pos(sent), len) = Pos(sent + len)
        BY <2>3, <3>1, AdvancePos, Zenon
      <3> QED  BY <1>4, <1>6, <2>2, <3>2, ZenonT(60)
    <2>7. port'.length = sent' - received' /\ port'.length \in 0 .. Size /\ port'.length # 0
      <3>1. port'.length = len + port.length /\ sent' = sent + len /\ received' = received
        BY <1>4, <1>6, <2>4, Zenon
      <3> QED  BY ONLY <1>2, <2>2, <2>3, <3>1
    <2>8. QueueInv'
      <3>1. port'.start = Pos(received')
        BY <1>4, <1>6, <2>2, Zenon
      <3>2. sent' = sent + len /\ received' = received
        BY <1>4, Zenon
      <3>3. \A n \in received' .. sent' - 1 : data'[Pos(n)] = n + 1
        <4>1. sent \in Nat /\ received \in Nat /\ len \in Nat
          BY <1>2, <2>3
        <4>2. received' .. sent' - 1 = received .. sent + len - 1
          BY ONLY <3>2, <4>1
        <4> QED  BY ONLY <4>2, <2>5, Zenon
      <3> QED  BY <2>6, <2>7, <3>1, <3>3, ZenonT(60) DEF QueueInv, Pos, Size
    <2>9. EventInv'
      BY <1>6, <2>7, Zenon DEF EventInv, SendEvent, Size
    <2> QED  BY <2>8, <2>9, Zenon
  <1>12. QueueInv' /\ EventInv'
    BY <1>11, Zenon DEF QueueInv, EventInv, Sound
  <1> QED  BY <1>7, <1>9, <1>10, <1>12, Zenon DEF ChanInv

\* A receive that goes through.
LEMMA ChanTaken ==
    ASSUME TypeInv, PipeInv, ChanInv, NEW t \in Threads, ChanRead(t), "IN" \in port.event
    PROVE  ChanInv'
  <1>1. /\ Moves(t, "idle") /\ port \in Ports /\ port' \in Ports /\ port # NULL /\ port' # NULL
        /\ pc[t] = "cread"
    BY ReturnMoves, TypeChan, NullIsNoPort, ZenonT(60) DEF ChanRead
  <1>0. PICK len \in Lens, new_len \in Int :
            len = loc[t].len /\ new_len = (loc[t].read - len) % SIZE_MODULUS
    BY <1>1, Sizes DEF TypeInv, LocalsOK, ChanSteps, Lens, Size
  <1>2. /\ loc[t].read \in Int /\ port.type = "COCHANNEL" /\ port.status = "BUSY"
        /\ Size \in Nat \ {0} /\ len \in 1 .. Size
    BY <1>1, Sizes, Zenon DEF TypeInv, LocalsOK, PortKnown, ChanSteps, PipeInv, Exclusive, Holding, Lens, Size
  <1>3. "CLOSED" \notin port.event
    BY <1>1, <1>2, Zenon DEF ChanInv, ClosedInv
  <1>4. data' = data /\ sent' = sent /\ received' = received + len
    BY <1>0, Zenon DEF ChanRead
  <1>5. stale' = (stale \/ loc[t].read # port.length \/ loc[t].read < len)
    BY <1>0, Zenon DEF ChanRead
  <1>6. /\ port'.type = port.type /\ port'.end = port.end /\ port'.status = "OPEN"
        /\ port'.start = Advance(port.start, len) /\ port'.length = new_len
        /\ port'.event = RecvEvent(port.event, new_len)
    BY <1>0, <1>1, ZenonT(60) DEF ChanRead, release_coport_status, Ports
  <1>7. ChanType'
    <2>1. sent \in Nat /\ received \in Nat /\ data \in [0 .. Size - 1 -> Int] /\ len \in Nat
      BY <1>2 DEF ChanInv, ChanType
    <2>2. sent' \in Nat /\ received' \in Nat /\ data' \in [0 .. Size - 1 -> Int]
      BY <1>4, <2>1
    <2>3. stale' \in BOOLEAN
      BY Zenon, <1>5
    <2> QED  BY <1>1, <2>2, <2>3, Zenon DEF ChanType
  <1>8. stale => stale'
    BY Zenon, <1>5
  <1>9. ReadInv'
    BY <1>1, <1>8, Zenon DEF ChanInv, ReadInv, Moves
  <1>10. ClosedInv'
    BY <1>3, <1>6, Zenon DEF ClosedInv, RecvEvent
  <1>11. ASSUME ~stale' PROVE QueueInv' /\ EventInv'
    <2>1. ~stale /\ loc[t].read = port.length /\ ~(loc[t].read < len)
      BY Zenon, <1>5, <1>11
    <2>2. /\ port.length = sent - received /\ port.length \in 0 .. Size
          /\ port.start = Pos(received) /\ port.end = Pos(sent)
          /\ \A n \in received .. sent - 1 : data[Pos(n)] = n + 1
      BY <1>1, <1>2, <2>1, Zenon DEF ChanInv, QueueInv, Sound
    <2>3. sent \in Nat /\ received \in Nat
      BY Zenon DEF ChanInv, ChanType
    <2>4. new_len = port.length - len
      <3>1. port.length - len \in 0 .. 2 * Size
        BY <1>2, <2>1, <2>2
      <3> QED  BY <1>0, <2>1, <3>1, NoWrap, ZenonT(60)
    <2>5. \A n \in received + len .. sent - 1 : data[Pos(n)] = n + 1
      BY <1>2, <2>2, <2>3
    <2>6. port'.start = Pos(received')
      <3>1. len \in Nat
        BY ONLY <1>2
      <3>2. Advance(Pos(received), len) = Pos(received + len)
        BY <2>3, <3>1, AdvancePos, ZenonT(60)
      <3> QED  BY <1>4, <1>6, <2>2, <3>2, ZenonT(60)
    <2>7. port'.length = sent' - received' /\ port'.length \in 0 .. Size /\ port'.length # Size
      <3>1. port'.length = port.length - len /\ len \in 1 .. Size /\ Size \in Nat \ {0}
        BY <1>2, <1>6, <2>4, Zenon
      <3> QED  BY ONLY <1>4, <2>1, <2>2, <2>3, <3>1
    <2>8. QueueInv'
      <3>1. port'.end = Pos(sent')
        BY <1>4, <1>6, <2>2, Zenon
      <3>2. \A n \in received' .. sent' - 1 : data'[Pos(n)] = n + 1
        BY ONLY <1>4, <2>5, Zenon
      <3> QED  BY <2>6, <2>7, <3>1, <3>2, ZenonT(60) DEF QueueInv, Pos, Size
    <2>9. EventInv'
      BY <1>6, <2>7, Zenon DEF EventInv, RecvEvent
    <2> QED  BY <2>8, <2>9, Zenon
  <1>12. QueueInv' /\ EventInv'
    BY <1>11, Zenon DEF QueueInv, EventInv, Sound
  <1> QED  BY <1>7, <1>9, <1>10, <1>12, Zenon DEF ChanInv

\* Every step keeps the channel's invariant.
LEMMA ChanStep == TypeInv /\ PipeInv /\ ChanInv /\ [Next]_vars => ChanInv'
  <1> SUFFICES ASSUME TypeInv, PipeInv, ChanInv, [Next]_vars PROVE ChanInv'
    BY Zenon
  <1>1. ASSUME NEW t \in Threads, OpenSteps(t), UNCHANGED ipcVars PROVE ChanInv'
    <2>1. PICK to \in Opening \cup {"idle"} : Moves(t, to)
      <3> USE DEF Opening, Steps
      <3>1. CASE coport_open(t)  BY <3>1, CallMoves, Zenon DEF coport_open
      <3>2. CASE OpenRefused(t)  BY <3>2, ReturnMoves, Zenon DEF OpenRefused
      <3>3. CASE OpenAdmitted(t)  BY <3>3, Zenon DEF OpenAdmitted, TypeInv, Moves
      <3>4. CASE allocate_coport(t)  BY <3>4, Zenon DEF allocate_coport, TypeInv, Moves
      <3> QED  BY <1>1, <3>1, <3>2, <3>3, <3>4, ZenonT(60) DEF OpenSteps
    <2> QED  BY <1>1, <2>1, ChanFrame, Zenon DEF ipcVars, Opening, Steps
  <1>2. ASSUME NEW t \in Threads, Releases(t) PROVE ChanInv'
    <2>1. CASE ChanWrite(t)
      <3>1. CASE "OUT" \in port.event
        BY <2>1, <3>1, ChanWritten, Zenon
      <3>2. CASE "OUT" \notin port.event
        BY <2>1, <3>2, ChanRefused, Zenon DEF ChanWrite
      <3> QED  BY <3>1, <3>2, Zenon
    <2>2. CASE ChanRead(t)
      <3>1. CASE "IN" \in port.event
        BY <2>2, <3>1, ChanTaken, Zenon
      <3>2. CASE "IN" \notin port.event
        BY <2>2, <3>2, ChanRefused, Zenon DEF ChanRead
      <3> QED  BY <3>1, <3>2, Zenon
    <2> QED  BY <1>2, <2>1, <2>2, ChanPiped, ChanClosed, Zenon DEF Releases
  <1>3. ASSUME NEW t \in Threads, Abandons(t) PROVE ChanInv'
    <2>1. Moves(t, "idle") /\ "idle" \in Steps /\ UNCHANGED ipcVars
      BY <1>3, NoneGivesUpWaiting, Zenon DEF Steps
    <2> QED  BY <2>1, ChanFrame, Zenon DEF ipcVars
  <1>4. CASE UNCHANGED vars
    BY <1>4, Zenon DEF vars, ipcVars, ChanInv, ChanType, QueueInv, EventInv, ClosedInv, ReadInv, Sound
  <1> QED  BY <1>1, <1>2, <1>3, <1>4, ChanOpened, ChanCalled, ChanAcquired, NextCases, ZenonT(60)

\* The channel's invariant holds, with the lock it rests on.
LEMMA ChanInductive == Spec => [](TypeInv /\ PipeInv /\ ChanInv)
  BY TypeInit, TypeStep, PipeInit, PipeStep, ChanInit, ChanStep, PTL DEF Spec

\* For any buffer size and any number of threads, a cochannel on which no stale
\* length was stored is a queue of bytes (cochannel_send, cochannel_recv).
THEOREM CochannelIsQueue == Spec => []ChannelIsQueue
  <1>1. TypeInv /\ ChanInv => ChannelIsQueue
    <2> SUFFICES ASSUME TypeInv, ChanInv, Sound PROVE ChannelIsQueue
      BY Zenon DEF ChannelIsQueue, Sound
    <2>1. /\ port.length = sent - received /\ port.length \in 0 .. Size /\ port.start = Pos(received)
          /\ \A n \in received .. sent - 1 : data[Pos(n)] = n + 1
          /\ sent \in Nat /\ received \in Nat
      BY Zenon DEF ChanInv, QueueInv, ChanType
    <2>2. ASSUME NEW k \in 0 .. port.length - 1
          PROVE  data[Advance(port.start, k)] = received + k + 1
      <3>1. k \in Nat /\ received + k \in received .. sent - 1
        BY <2>1
      <3>2. Advance(port.start, k) = Pos(received + k)
        BY <2>1, <3>1, AdvancePos, ZenonT(60)
      <3> QED  BY <2>1, <3>1, <3>2, Zenon
    <2> QED  BY <2>1, <2>2 DEF ChannelIsQueue, Size
  <1> QED  BY <1>1, ChanInductive, PTL

\* Under the same condition the event mask of an open cochannel, which the
\* operations test, agrees with its length (cochannel_send, cochannel_recv).
THEOREM EventsTellLength == Spec => []EventsMatchLength
  <1>1. TypeInv /\ ChanInv => EventsMatchLength
    BY NullIsNoPort, Zenon DEF ChanInv, EventInv, ClosedInv, EventsMatchLength, Sound, Size
  <1> QED  BY <1>1, ChanInductive, PTL
=============================================================================
