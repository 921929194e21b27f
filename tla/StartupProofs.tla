---------------------------- MODULE StartupProofs ---------------------------
(* Proof about the start-up of the daemons: what coprocd hands to a user, for *)
(* any number of deaths of daemons and any moment at which they happen.       *)
EXTENDS Startup, TLAPS

StartSpec == StartupInit /\ [][StartupNext]_startVars

Places == {"off", "start", "reserved", "setup", "lookup", "provide", "insert", "done", "main", "dead"}
Active == {"CONTINUING", "RUNNING"}
Over == {"RUNNING", "DIED"}
Ended == {"main", "dead"}

\* The types.
StartTypes ==
    /\ cpc \in {"begin", "spawn", "wait", "worker", "loop"} /\ i \in 1 .. 4 /\ up \subseteq Daemons
    /\ status \in [Daemons -> {"PENDING", "STARTING", "CONTINUING", "RUNNING", "DIED"}]
    /\ dpc \in [Daemons -> Places] /\ inserted \in [Daemons -> Nat]
    /\ capv = [d \in Daemons |-> capv[d]]

\* SIGCHLD is blocked in the workers from the first daemon on, and in the main
\* thread while it starts one.
MaskInv ==
    /\ cpc \in {"spawn", "wait", "worker"} => "main" \in blocked
    /\ up # {} \/ (\E d \in Daemons : dpc[d] # "off") => "workers" \in blocked

\* A daemon whose turn has not come is off.
OffInv ==
    /\ \A d \in up : dpc[d] # "off"
    /\ i = 1 /\ cpc \in {"begin", "spawn"} => dpc["nsd"] = "off"
    /\ i = 1 \/ (i = 2 /\ cpc \in {"begin", "spawn"}) => dpc["coserviced"] = "off"
    /\ i < 3 \/ (i = 3 /\ cpc \in {"begin", "spawn"}) => dpc["coeventd"] = "off"
    /\ i < 4 \/ (i = 4 /\ cpc \in {"begin", "spawn"}) => dpc["ipcd"] = "off"

\* How far a daemon is tells how many of its services are in the namespace.
ServiceInv == \A d \in Daemons :
    /\ dpc[d] = "off" => inserted[d] = 0
    /\ dpc[d] \notin {"off", "done", "main", "dead"} => inserted[d] < services[d]
    /\ dpc[d] \in {"done", "main"} => inserted[d] = services[d]

\* nsd waits for coserviced before it provides; coproc_init is served after both.
NsdInv ==
    /\ got => codiscover_scb /\ root_ns /\ dpc["nsd"] \notin {"off", "start", "reserved"}
    /\ dpc["nsd"] \in {"setup", "lookup"} => root_ns
    /\ dpc["nsd"] \in {"provide", "done", "main"} => got /\ inserted["coserviced"] = 4
    /\ coproc_inited => /\ got /\ dpc["nsd"] \in Ended
                        /\ inserted["nsd"] = 6 /\ inserted["coserviced"] = 4
                        /\ status["nsd"] \in Over /\ status["coserviced"] \in Over

\* What a daemon's status lets coprocd rely on.
StatusInv ==
    /\ status["nsd"] \in Active => root_ns
    /\ status["coserviced"] \in Active => coproc_inited
    /\ status["coeventd"] \in Active => /\ status["coeventd"] = "RUNNING"
                                        /\ inserted["coeventd"] = 3 /\ dpc["coeventd"] \in Ended

\* Starting the next daemon means that the one before got as far as it had to.
StageInv ==
    /\ i > 1 => root_ns
    /\ i > 2 => coproc_inited
    /\ i > 3 => status["coeventd"] \in Over /\ inserted["coeventd"] = 3 /\ dpc["coeventd"] \in Ended
    /\ ukern_inited => /\ i = 4 /\ dpc["ipcd"] \in Ended /\ status["ipcd"] \in Over
                       /\ inserted["ipcd"] = 7
    /\ user = "ok" => ukern_inited

\* No assertion fails, and a daemon's vector of capabilities is the expected one.
ResultInv == exited \notin {"assert", "not main"} /\ \A d \in Daemons : capv[d] \in {<<>>, process_capvec[d]}

\* The inductive invariant.
StartInv == /\ StartTypes /\ MaskInv /\ OffInv /\ ServiceInv /\ NsdInv
            /\ StatusInv /\ StageInv /\ ResultInv

\* The daemons and their services.
LEMMA DaemonNames ==
    /\ Daemons = {"nsd", "coserviced", "coeventd", "ipcd"} /\ Len(Order) = 4
    /\ Order[1] = "nsd" /\ Order[2] = "coserviced" /\ Order[3] = "coeventd" /\ Order[4] = "ipcd"
    /\ services["nsd"] = 6 /\ services["coserviced"] = 4 /\ services["coeventd"] = 3 /\ services["ipcd"] = 7
<1>1. /\ Len(Order) = 4
      /\ Order[1] = "nsd" /\ Order[2] = "coserviced" /\ Order[3] = "coeventd" /\ Order[4] = "ipcd"
  BY Zenon DEF Order
<1>2. 1 .. 4 = {1, 2, 3, 4}
  OBVIOUS
<1>3. Daemons = {"nsd", "coserviced", "coeventd", "ipcd"}
  BY <1>1, <1>2, Zenon DEF Daemons
<1>4. /\ services["nsd"] = 6 /\ services["coserviced"] = 4 /\ services["coeventd"] = 3 /\ services["ipcd"] = 7
  BY DEF services
<1> QED  BY <1>1, <1>3, <1>4, Zenon

\* The fields of a changed vector.
LEMMA VectorIs ==
    ASSUME NEW l, NEW s, NEW y, NEW c, NEW b, NEW v, v = [length |-> l, capv |-> s, ok |-> y],
           NEW w, w = [v EXCEPT !.capv = c, !.ok = b]
    PROVE  w = [length |-> l, capv |-> c, ok |-> b]
  BY Zenon

\* A vector of length l with the capabilities s.
IsVector(v, l, s) == v = [length |-> l, capv |-> s, ok |-> TRUE]

\* A vector's fields after an append, and what the assertion amounts to.
LEMMA Appended ==
    ASSUME NEW S, NEW l \in Nat, NEW s \in Seq(S), NEW A \in Seq(S), Len(s) + Len(A) < l,
           NEW v, IsVector(v, l, s)
    PROVE  IsVector(capvec_append(v, A), l, s \o A)
<1>1. v.length = l /\ v.capv = s /\ v.ok = TRUE
  BY Zenon DEF IsVector
<1>2. PICK b, c, w : c = v.capv \o A /\ b = (v.ok /\ Len(v.capv) + Len(A) < v.length) /\ w = capvec_append(v, A)
  BY Zenon
<1>3. b = TRUE /\ c = s \o A
  BY <1>1, <1>2, Zenon
<1>5. w = [v EXCEPT !.capv = c, !.ok = b]
  BY <1>2, Zenon DEF capvec_append
<1>6. w = [length |-> l, capv |-> c, ok |-> b]
  BY <1>5, VectorIs, Zenon DEF IsVector
<1> QED  BY <1>2, <1>3, <1>6, Zenon DEF IsVector

HasLists(d, S, A, B, C, n) ==
    /\ A \in Seq(S) /\ B \in Seq(S) /\ C \in Seq(S) /\ n \in Nat
    /\ setup_info[d] = [setup |-> A, done |-> B, capv |-> C, n_caps |-> n]
    /\ Len(A) + Len(B) + Len(C) <= n + 2

IsBuilt(d, s) == build_daemon_capvec(d).ok = TRUE /\ build_daemon_capvec(d).capv = s

\* What build_daemon_capvec makes of three lists of capabilities.
LEMMA CapvecIs ==
    ASSUME NEW S, NEW d, NEW A, NEW B, NEW C, NEW n, HasLists(d, S, A, B, C, n)
    PROVE  IsBuilt(d, (A \o B) \o C)
<1>0. /\ A \in Seq(S) /\ B \in Seq(S) /\ C \in Seq(S) /\ n \in Nat /\ Len(A) + Len(B) + Len(C) <= n + 2
  BY Zenon DEF HasLists
<1>1. /\ setup_info[d].setup = A /\ setup_info[d].done = B /\ setup_info[d].capv = C
      /\ setup_info[d].n_caps = n
  BY DEF HasLists
<1>2. PICK v0, v1, v2, v3 : /\ v0 = capvec_allocate(n + 2) /\ v1 = capvec_append(v0, A)
                            /\ v2 = capvec_append(v1, B) /\ v3 = capvec_append(v2, C)
  BY Zenon
<1>3. PICK l, s2, s3 : l = n + 2 + 1 /\ s2 = A \o B /\ s3 = s2 \o C
  BY Zenon
<1>4. /\ l \in Nat /\ << >> \in Seq(S) /\ s2 \in Seq(S)
      /\ Len(<< >>) + Len(A) < l /\ Len(A) + Len(B) < l /\ Len(s2) + Len(C) < l
      /\ Len(s3) + 1 <= l /\ << >> \o A = A
  BY <1>0, <1>3
<1>5. IsVector(v0, l, << >>)
  BY <1>2, <1>3, Zenon DEF capvec_allocate, IsVector
<1>6. IsVector(v1, l, A)
  BY <1>0, <1>2, <1>4, <1>5, Appended, Zenon
<1>7. IsVector(v2, l, s2)
  BY <1>0, <1>2, <1>3, <1>4, <1>6, Appended, Zenon
<1>8. IsVector(v3, l, s3)
  BY <1>0, <1>2, <1>3, <1>4, <1>7, Appended, Zenon
<1>9. capvec_finalize(v3).ok = TRUE /\ capvec_finalize(v3).capv = (A \o B) \o C
  BY <1>3, <1>4, <1>8, Zenon DEF capvec_finalize, IsVector
<1>12. build_daemon_capvec(d) = capvec_finalize(v3)
  BY <1>1, <1>2, Zenon DEF build_daemon_capvec
<1> QED  BY <1>9, <1>12, Zenon DEF IsBuilt

IsBehind(z, x, y, S) == /\ z \in Seq(S) /\ Len(z) = Len(y) + 1 /\ z[1] = x[1]
                        /\ \A k \in 1 .. Len(y) : z[k + 1] = y[k]

IsConcat(S, x, y, z) == /\ z \in Seq(S) /\ Len(z) = Len(x) + Len(y)
                        /\ \A k \in 1 .. Len(x) : z[k] = x[k]
                        /\ \A k \in 1 .. Len(y) : z[Len(x) + k] = y[k]

\* Length and entries of a concatenation.
LEMMA Concat ==
    ASSUME NEW S, NEW x \in Seq(S), NEW y \in Seq(S)
    PROVE  IsConcat(S, x, y, x \o y)
<1>1. x \o y \in Seq(S)
  OBVIOUS
<1>2. Len(x \o y) = Len(x) + Len(y)
  OBVIOUS
<1>3. ASSUME NEW k \in 1 .. Len(x) PROVE (x \o y)[k] = x[k]
  OBVIOUS
<1>4. ASSUME NEW k \in 1 .. Len(y) PROVE (x \o y)[Len(x) + k] = y[k]
  OBVIOUS
<1> QED  BY <1>1, <1>2, <1>3, <1>4, Zenon DEF IsConcat

\* A list behind a single entry.
LEMMA Behind ==
    ASSUME NEW S, NEW x \in Seq(S), Len(x) = 1, NEW y \in Seq(S)
    PROVE  IsBehind(x \o y, x, y, S)
<1>1. Len(y) \in Nat
  OBVIOUS
<1>5. PICK z : z = x \o y
  BY Zenon
<1>6. IsConcat(S, x, y, x \o y)
  BY Concat, Zenon
<1>a. /\ z \in Seq(S) /\ Len(z) = Len(x) + Len(y)
      /\ \A k \in 1 .. Len(x) : z[k] = x[k]
      /\ \A k \in 1 .. Len(y) : z[Len(x) + k] = y[k]
  BY <1>5, <1>6, Zenon DEF IsConcat
<1>b. Len(z) = 1 + Len(y) /\ z[1] = x[1] /\ \A k \in 1 .. Len(y) : z[1 + k] = y[k]
  BY <1>a
<1>8. IsBehind(z, x, y, S)
  BY <1>1, <1>a, <1>b DEF IsBehind
<1> QED  BY <1>5, <1>8, Zenon

\* The three shapes the vectors take.
LEMMA ShortTwo ==
    ASSUME NEW S, NEW a \in S, NEW b \in S
    PROVE  /\ <<a>> \in Seq(S) /\ <<b>> \in Seq(S) /\ << >> \in Seq(S) /\ (<<a>> \o <<b>>) \o << >> = <<a, b>>
           /\ Len(<<a>>) = 1 /\ Len(<<b>>) = 1 /\ Len(<< >>) = 0
<1>0. PICK o, x, y1 : o = << >> /\ x = <<a>> /\ y1 = <<b>>
  BY Zenon
<1>1. o \in Seq(S) /\ Len(o) = 0
  BY <1>0
<1>2. x \in Seq(S) /\ Len(x) = 1 /\ x[1] = a
  BY <1>0
<1>b. y1 \in Seq(S) /\ Len(y1) = 1 /\ y1[1] = b
  BY <1>0
<1>5. (x \o y1) \o o = <<a, b>>
  <2>1. PICK z : z = x \o y1
    BY Zenon
  <2>0. IsBehind(x \o y1, x, y1, S)
    BY <1>2, <1>b, Behind, Zenon
  <2>a. /\ z \in Seq(S) /\ Len(z) = Len(y1) + 1 /\ z[1] = x[1]
        /\ \A k \in 1 .. Len(y1) : z[k + 1] = y1[k]
    BY <2>0, <2>1, Zenon DEF IsBehind
  <2>b. \A k \in 1 .. 1 : z[k + 1] = y1[k]
    BY <2>a, <1>b, Zenon
  <2>c. z[1 + 1] = y1[1]
    BY <2>b
  <2>2. z \in Seq(S) /\ Len(z) = 2 /\ z[1] = a /\ z[2] = b
    BY <1>2, <1>b, <2>a, <2>c
  <2>d. z = <<a, b>>
    BY <2>2
  <2>3. z \o o = z
    BY <1>0, <2>2
  <2> QED  BY <2>1, <2>d, <2>3, Zenon
<1> QED  BY <1>0, <1>1, <1>2, <1>b, <1>5, Zenon

\* See ShortTwo.
LEMMA ShortFour ==
    ASSUME NEW S, NEW a \in S, NEW b \in S, NEW c \in S, NEW e \in S
    PROVE  /\ <<a>> \in Seq(S) /\ << >> \in Seq(S) /\ <<b, c, e>> \in Seq(S)
           /\ (<<a>> \o << >>) \o <<b, c, e>> = <<a, b, c, e>>
           /\ Len(<<a>>) = 1 /\ Len(<< >>) = 0 /\ Len(<<b, c, e>>) = 3
<1>0. PICK o, x, y3 : o = << >> /\ x = <<a>> /\ y3 = <<b, c, e>>
  BY Zenon
<1>1. o \in Seq(S) /\ Len(o) = 0
  BY <1>0
<1>2. x \in Seq(S) /\ Len(x) = 1 /\ x[1] = a
  BY <1>0
<1>3. y3 \in Seq(S) /\ Len(y3) = 3 /\ y3[1] = b /\ y3[2] = c /\ y3[3] = e
  BY <1>0
<1>7. x \o o = x
  BY <1>0, <1>2
<1>8. x \o y3 = <<a, b, c, e>>
  <2>1. PICK z : z = x \o y3
    BY Zenon
  <2>0. IsBehind(x \o y3, x, y3, S)
    BY <1>2, <1>3, Behind, Zenon
  <2>a. /\ z \in Seq(S) /\ Len(z) = Len(y3) + 1 /\ z[1] = x[1]
        /\ \A k \in 1 .. Len(y3) : z[k + 1] = y3[k]
    BY <2>0, <2>1, Zenon DEF IsBehind
  <2>b. \A k \in 1 .. 3 : z[k + 1] = y3[k]
    BY <2>a, <1>3, Zenon
  <2>c. z[1 + 1] = y3[1] /\ z[2 + 1] = y3[2] /\ z[3 + 1] = y3[3]
    BY <2>b
  <2>2. z \in Seq(S) /\ Len(z) = 4 /\ z[1] = a /\ z[2] = b /\ z[3] = c /\ z[4] = e
    BY <1>2, <1>3, <2>a, <2>c
  <2>d. z = <<a, b, c, e>>
    BY <2>2
  <2> QED  BY <2>1, <2>d, Zenon
<1> QED  BY <1>0, <1>1, <1>2, <1>3, <1>7, <1>8, Zenon

IsFive(S, a, b, c, e, f) ==
    /\ << >> \in Seq(S) /\ <<a>> \in Seq(S) /\ <<b, c, e, f>> \in Seq(S)
    /\ (<< >> \o <<a>>) \o <<b, c, e, f>> = <<a, b, c, e, f>>
    /\ Len(<<a>>) = 1 /\ Len(<< >>) = 0 /\ Len(<<b, c, e, f>>) = 4

\* See ShortTwo.
LEMMA ShortFive ==
    ASSUME NEW S, NEW a \in S, NEW b \in S, NEW c \in S, NEW e \in S, NEW f \in S
    PROVE  IsFive(S, a, b, c, e, f)
<1>0. PICK o, x, y4 : o = << >> /\ x = <<a>> /\ y4 = <<b, c, e, f>>
  BY Zenon
<1>1. o \in Seq(S) /\ Len(o) = 0
  BY <1>0
<1>2. x \in Seq(S) /\ Len(x) = 1 /\ x[1] = a
  BY <1>0
<1>4. y4 \in Seq(S) /\ Len(y4) = 4 /\ y4[1] = b /\ y4[2] = c /\ y4[3] = e /\ y4[4] = f
  BY <1>0
<1>7. o \o x = x
  BY <1>0, <1>2
<1>9. x \o y4 = <<a, b, c, e, f>>
  <2>1. PICK z : z = x \o y4
    BY Zenon
  <2>0. IsBehind(x \o y4, x, y4, S)
    BY <1>2, <1>4, Behind, Zenon
  <2>a. /\ z \in Seq(S) /\ Len(z) = Len(y4) + 1 /\ z[1] = x[1]
        /\ \A k \in 1 .. Len(y4) : z[k + 1] = y4[k]
    BY <2>0, <2>1, Zenon DEF IsBehind
  <2>b. \A k \in 1 .. 4 : z[k + 1] = y4[k]
    BY <2>a, <1>4, Zenon
  <2>c. z[1 + 1] = y4[1] /\ z[2 + 1] = y4[2] /\ z[3 + 1] = y4[3] /\ z[4 + 1] = y4[4]
    BY <2>b
  <2>2. z \in Seq(S) /\ Len(z) = 5 /\ z[1] = a /\ z[2] = b /\ z[3] = c /\ z[4] = e /\ z[5] = f
    BY <1>2, <1>4, <2>a, <2>c
  <2>d. z = <<a, b, c, e, f>>
    BY <2>2
  <2> QED  BY <2>1, <2>d, Zenon
<1> QED  BY <1>0, <1>1, <1>2, <1>4, <1>7, <1>9, Zenon DEF IsFive

\* Each daemon's vector has room, and holds what the daemon looks for.
LEMMA Vectors ==
    ASSUME NEW d \in Daemons
    PROVE  build_daemon_capvec(d).ok = TRUE /\ build_daemon_capvec(d).capv = process_capvec[d]
<1>z. PICK i1, i2, r, v, n, t : /\ i1 = "coproc_init" /\ i2 = "coproc_init_done" /\ r = "root_ns"
                                /\ v = "codiscover" /\ n = "coinsert" /\ t = "coselect"
  BY Zenon
<1>0. PICK S : S = {i1, i2, r, v, n, t}
  BY Zenon
<1>a. i1 \in S /\ i2 \in S /\ r \in S /\ v \in S /\ n \in S /\ t \in S
  BY <1>0, Zenon
<1>1. CASE d = "nsd"
  <2>1. setup_info[d] = [setup |-> <<i1>>, done |-> <<i2>>, capv |-> << >>, n_caps |-> 0]
    BY <1>z, <1>1, Zenon DEF setup_info
  <2>2. <<i1, i2>> = process_capvec[d]
    BY <1>z, <1>1, Zenon DEF process_capvec, nsd_process_capvec
  <2>3. /\ <<i1>> \in Seq(S) /\ <<i2>> \in Seq(S) /\ << >> \in Seq(S)
        /\ (<<i1>> \o <<i2>>) \o << >> = <<i1, i2>>
        /\ Len(<<i1>>) = 1 /\ Len(<<i2>>) = 1 /\ Len(<< >>) = 0
    BY <1>a, ShortTwo, Zenon
  <2>4. 0 \in Nat /\ Len(<<i1>>) + Len(<<i2>>) + Len(<< >>) <= 0 + 2
    BY <2>3
  <2>5. HasLists(d, S, <<i1>>, <<i2>>, << >>, 0)
    BY <2>1, <2>3, <2>4, Zenon DEF HasLists
  <2>6. IsBuilt(d, (<<i1>> \o <<i2>>) \o << >>)
    BY <2>5, CapvecIs, Zenon
  <2> QED  BY <2>2, <2>3, <2>6, Zenon DEF IsBuilt
<1>2. CASE d = "coserviced"
  <2>1. setup_info[d] = [setup |-> <<i1>>, done |-> << >>, capv |-> <<r, n, t>>, n_caps |-> 3]
    BY <1>z, <1>2, Zenon DEF setup_info
  <2>2. <<i1, r, n, t>> = process_capvec[d]
    BY <1>z, <1>2, Zenon DEF process_capvec, coserviced_process_capvec
  <2>3. /\ <<i1>> \in Seq(S) /\ << >> \in Seq(S) /\ <<r, n, t>> \in Seq(S)
        /\ (<<i1>> \o << >>) \o <<r, n, t>> = <<i1, r, n, t>>
        /\ Len(<<i1>>) = 1 /\ Len(<< >>) = 0 /\ Len(<<r, n, t>>) = 3
    BY <1>a, ShortFour, ZenonT(60)
  <2>4. 3 \in Nat /\ Len(<<i1>>) + Len(<< >>) + Len(<<r, n, t>>) <= 3 + 2
    BY <2>3
  <2>5. HasLists(d, S, <<i1>>, << >>, <<r, n, t>>, 3)
    BY <2>1, <2>3, <2>4, Zenon DEF HasLists
  <2>6. IsBuilt(d, (<<i1>> \o << >>) \o <<r, n, t>>)
    BY <2>5, CapvecIs, Zenon
  <2> QED  BY <2>2, <2>3, <2>6, Zenon DEF IsBuilt
<1>3. CASE d \in {"coeventd", "ipcd"}
  <2>1. setup_info[d] = [setup |-> << >>, done |-> <<i2>>, capv |-> <<r, v, n, t>>, n_caps |-> 4]
    BY <1>z, <1>3 DEF setup_info
  <2>2. <<i2, r, v, n, t>> = process_capvec[d]
    BY <1>z, <1>3 DEF process_capvec, coeventd_process_capvec, ipcd_process_capvec
  <2>a. IsFive(S, i2, r, v, n, t)
    BY <1>a, ShortFive, Zenon
  <2>3. /\ << >> \in Seq(S) /\ <<i2>> \in Seq(S) /\ <<r, v, n, t>> \in Seq(S)
        /\ (<< >> \o <<i2>>) \o <<r, v, n, t>> = <<i2, r, v, n, t>>
        /\ Len(<<i2>>) = 1 /\ Len(<< >>) = 0 /\ Len(<<r, v, n, t>>) = 4
    BY <2>a, Zenon DEF IsFive
  <2>4. 4 \in Nat /\ Len(<< >>) + Len(<<i2>>) + Len(<<r, v, n, t>>) <= 4 + 2
    BY <2>3
  <2>5. HasLists(d, S, << >>, <<i2>>, <<r, v, n, t>>, 4)
    BY <2>1, <2>3, <2>4, Zenon DEF HasLists
  <2>6. IsBuilt(d, (<< >> \o <<i2>>) \o <<r, v, n, t>>)
    BY <2>5, CapvecIs, Zenon
  <2> QED  BY <2>2, <2>3, <2>6, Zenon DEF IsBuilt
<1> QED  BY <1>1, <1>2, <1>3, DaemonNames, Zenon

\* coprocd records the death of a daemon, and nothing else changes.
Recorded(d) ==
    /\ dpc[d] = "dead" /\ status' = [e \in Daemons |-> IF e = d THEN "DIED" ELSE status[e]]
    /\ UNCHANGED <<cpc, i, up, exited, blocked, dpc, capv, root_ns, codiscover_scb, coproc_inited,
                   ukern_inited, wait, got, inserted, user, deaths>>

\* init_microkernel keeps the invariant.
LEMMA Init_microkernelKeeps ==
    ASSUME StartInv, init_microkernel
    PROVE  StartInv'
<1> USE DaemonNames DEF StartInv, StartTypes, Places, Active, Over, Ended, init_microkernel,
        set_sigchld_handler, is_main_thread, set_sigmask
<1>1. StartTypes'
  BY Zenon
<1>2. MaskInv'
  BY Zenon DEF MaskInv
<1>3. OffInv'
  BY Zenon DEF OffInv
<1>4. ServiceInv'
  BY ZenonT(60) DEF ServiceInv
<1>5. NsdInv'
  BY Zenon DEF NsdInv, ServiceInv, StatusInv, OffInv
<1>6. StatusInv'
  BY Zenon DEF StatusInv, NsdInv, ServiceInv
<1>7. StageInv'
  BY Zenon DEF StageInv, NsdInv, StatusInv, ServiceInv, OffInv
<1>8. ResultInv'
  BY Zenon DEF ResultInv, StageInv
<1> QED  BY <1>1, <1>2, <1>3, <1>4, <1>5, <1>6, <1>7, <1>8, Zenon

\* FinishMicrokernel keeps the invariant.
LEMMA FinishMicrokernelKeeps ==
    ASSUME StartInv, FinishMicrokernel
    PROVE  StartInv'
<1> USE DaemonNames DEF StartInv, StartTypes, Places, Active, Over, Ended, FinishMicrokernel,
        clear_sigmask
<1>1. StartTypes'
  BY Zenon
<1>2. MaskInv'
  BY Zenon DEF MaskInv
<1>3. OffInv'
  BY Zenon DEF OffInv
<1>4. ServiceInv'
  BY ZenonT(60) DEF ServiceInv
<1>5. NsdInv'
  BY Zenon DEF NsdInv, ServiceInv, StatusInv, OffInv
<1>6. StatusInv'
  BY Zenon DEF StatusInv, NsdInv, ServiceInv
<1>7. StageInv'
  BY ZenonT(60) DEF StageInv, NsdInv, StatusInv, ServiceInv, OffInv
<1>8. ResultInv'
  BY Zenon DEF ResultInv, StageInv
<1> QED  BY <1>1, <1>2, <1>3, <1>4, <1>5, <1>6, <1>7, <1>8, Zenon

\* just_reap keeps the invariant.
LEMMA Just_reapKeeps ==
    ASSUME StartInv, just_reap
    PROVE  StartInv'
<1> USE DaemonNames DEF StartInv, StartTypes, Places, Active, Over, Ended, just_reap
<1>1. StartTypes'
  OBVIOUS
<1>2. MaskInv'
  BY DEF MaskInv
<1>3. OffInv'
  BY DEF OffInv
<1>4. ServiceInv'
  BY DEF ServiceInv
<1>5. NsdInv'
  BY DEF NsdInv, ServiceInv, StatusInv, OffInv
<1>6. StatusInv'
  BY DEF StatusInv, NsdInv, ServiceInv
<1>7. StageInv'
  BY DEF StageInv, NsdInv, StatusInv, ServiceInv, OffInv
<1>8. ResultInv'
  BY Zenon DEF ResultInv, StageInv
<1> QED  BY <1>1, <1>2, <1>3, <1>4, <1>5, <1>6, <1>7, <1>8, Zenon

\* coproc_user_init keeps the invariant.
LEMMA Coproc_user_initKeeps ==
    ASSUME StartInv, coproc_user_init
    PROVE  StartInv'
<1> USE DaemonNames DEF StartInv, StartTypes, Places, Active, Over, Ended, coproc_user_init
<1>1. StartTypes'
  BY Zenon
<1>2. MaskInv'
  BY Zenon DEF MaskInv
<1>3. OffInv'
  BY Zenon DEF OffInv
<1>4. ServiceInv'
  BY ZenonT(60) DEF ServiceInv
<1>5. NsdInv'
  BY Zenon DEF NsdInv, ServiceInv, StatusInv, OffInv
<1>6. StatusInv'
  BY Zenon DEF StatusInv, NsdInv, ServiceInv
<1>7. StageInv'
  BY ZenonT(60) DEF StageInv, NsdInv, StatusInv, ServiceInv, OffInv
<1>8. ResultInv'
  BY Zenon DEF ResultInv, StageInv
<1> QED  BY <1>1, <1>2, <1>3, <1>4, <1>5, <1>6, <1>7, <1>8, Zenon

\* init_service keeps the invariant.
LEMMA Init_serviceKeeps ==
    ASSUME StartInv, init_service
    PROVE  StartInv'
<1> USE DaemonNames DEF StartInv, StartTypes, Places, Active, Over, Ended, init_service, Step,
        Coprocd
<1>1. StartTypes'
  BY Zenon
<1>2. MaskInv'
  BY Zenon DEF MaskInv
<1>3. OffInv'
  BY Zenon DEF OffInv
<1>4. ServiceInv'
  BY DEF ServiceInv
<1>5. NsdInv'
  BY Zenon DEF NsdInv, ServiceInv, StatusInv, OffInv
<1>6. StatusInv'
  BY Zenon DEF StatusInv, NsdInv, ServiceInv
<1>7. StageInv'
  BY Zenon DEF StageInv, NsdInv, StatusInv, ServiceInv, OffInv
<1>8. ResultInv'
  BY Zenon DEF ResultInv, StageInv
<1> QED  BY <1>1, <1>2, <1>3, <1>4, <1>5, <1>6, <1>7, <1>8, Zenon

\* nsd_setup keeps the invariant.
LEMMA Nsd_setupKeeps ==
    ASSUME StartInv, nsd_setup
    PROVE  StartInv'
<1> USE DaemonNames DEF StartInv, StartTypes, Places, Active, Over, Ended, nsd_setup, Step, Coprocd
<1>1. StartTypes'
  BY Zenon
<1>2. MaskInv'
  BY Zenon DEF MaskInv
<1>3. OffInv'
  BY Zenon DEF OffInv
<1>4. ServiceInv'
  BY DEF ServiceInv
<1>5. NsdInv'
  BY Zenon DEF NsdInv, ServiceInv, StatusInv, OffInv
<1>6. StatusInv'
  BY Zenon DEF StatusInv, NsdInv, ServiceInv
<1>7. StageInv'
  BY Zenon DEF StageInv, NsdInv, StatusInv, ServiceInv, OffInv
<1>8. ResultInv'
  BY Zenon DEF ResultInv, StageInv
<1> QED  BY <1>1, <1>2, <1>3, <1>4, <1>5, <1>6, <1>7, <1>8, Zenon

\* SpuriousWakeup keeps the invariant.
LEMMA SpuriousWakeupKeeps ==
    ASSUME StartInv, SpuriousWakeup
    PROVE  StartInv'
<1> USE DaemonNames DEF StartInv, StartTypes, Places, Active, Over, Ended, SpuriousWakeup, Coprocd
<1>1. StartTypes'
  BY Zenon
<1>2. MaskInv'
  BY Zenon DEF MaskInv
<1>3. OffInv'
  BY Zenon DEF OffInv
<1>4. ServiceInv'
  BY ZenonT(60) DEF ServiceInv
<1>5. NsdInv'
  BY Zenon DEF NsdInv, ServiceInv, StatusInv, OffInv
<1>6. StatusInv'
  BY Zenon DEF StatusInv, NsdInv, ServiceInv
<1>7. StageInv'
  BY ZenonT(60) DEF StageInv, NsdInv, StatusInv, ServiceInv, OffInv
<1>8. ResultInv'
  BY Zenon DEF ResultInv, StageInv
<1> QED  BY <1>1, <1>2, <1>3, <1>4, <1>5, <1>6, <1>7, <1>8, Zenon

\* NsdWoken keeps the invariant.
LEMMA NsdWokenKeeps ==
    ASSUME StartInv, NsdWoken
    PROVE  StartInv'
<1> USE DaemonNames DEF StartInv, StartTypes, Places, Active, Over, Ended, NsdWoken, Step, Coprocd
<1>1. StartTypes'
  BY Zenon
<1>2. MaskInv'
  BY Zenon DEF MaskInv
<1>3. OffInv'
  BY Zenon DEF OffInv
<1>4. ServiceInv'
  BY DEF ServiceInv
<1>5. NsdInv'
  BY Zenon DEF NsdInv, ServiceInv, StatusInv, OffInv
<1>6. StatusInv'
  BY Zenon DEF StatusInv, NsdInv, ServiceInv
<1>7. StageInv'
  BY Zenon DEF StageInv, NsdInv, StatusInv, ServiceInv, OffInv
<1>8. ResultInv'
  BY Zenon DEF ResultInv, StageInv
<1> QED  BY <1>1, <1>2, <1>3, <1>4, <1>5, <1>6, <1>7, <1>8, Zenon

\* startup_dance keeps the invariant.
LEMMA Startup_danceKeeps ==
    ASSUME StartInv, startup_dance
    PROVE  StartInv'
<1> USE DaemonNames DEF StartInv, StartTypes, Places, Active, Over, Ended, startup_dance, Dies,
        Coprocd
<1>1. StartTypes'
  OBVIOUS
<1>2. MaskInv'
  BY Zenon DEF MaskInv
<1>3. OffInv'
  BY DEF OffInv
<1>4. ServiceInv'
  BY DEF ServiceInv
<1>5. NsdInv'
  BY DEF NsdInv, ServiceInv, StatusInv, OffInv
<1>6. StatusInv'
  BY DEF StatusInv, NsdInv, ServiceInv
<1>7. StageInv'
  BY DEF StageInv, NsdInv, StatusInv, ServiceInv, OffInv
<1>8. ResultInv'
  BY Zenon DEF ResultInv, StageInv
<1> QED  BY <1>1, <1>2, <1>3, <1>4, <1>5, <1>6, <1>7, <1>8, Zenon

\* start_fast_service keeps the invariant.
LEMMA Start_fast_serviceKeeps ==
    ASSUME StartInv, start_fast_service
    PROVE  StartInv'
<1> USE DaemonNames DEF StartInv, StartTypes, Places, Active, Over, Ended, start_fast_service, Dies,
        Provided, Coprocd
<1>1. StartTypes'
  OBVIOUS
<1>2. MaskInv'
  BY Zenon DEF MaskInv
<1>3. OffInv'
  BY DEF OffInv
<1>4. ServiceInv'
  BY DEF ServiceInv
<1>5. NsdInv'
  BY DEF NsdInv, ServiceInv, StatusInv, OffInv
<1>6. StatusInv'
  BY DEF StatusInv, NsdInv, ServiceInv
<1>7. StageInv'
  BY DEF StageInv, NsdInv, StatusInv, ServiceInv, OffInv
<1>8. ResultInv'
  BY Zenon DEF ResultInv, StageInv
<1> QED  BY <1>1, <1>2, <1>3, <1>4, <1>5, <1>6, <1>7, <1>8, Zenon

\* nsd_setup_complete keeps the invariant.
LEMMA Nsd_setup_completeKeeps ==
    ASSUME StartInv, nsd_setup_complete
    PROVE  StartInv'
<1> USE DaemonNames DEF StartInv, StartTypes, Places, Active, Over, Ended, nsd_setup_complete, Step,
        Coprocd
<1>1. StartTypes'
  BY Zenon
<1>2. MaskInv'
  BY Zenon DEF MaskInv
<1>3. OffInv'
  BY Zenon DEF OffInv
<1>4. ServiceInv'
  BY DEF ServiceInv
<1>5. NsdInv'
  BY ZenonT(60) DEF NsdInv, ServiceInv, StatusInv, OffInv
<1>6. StatusInv'
  BY Zenon DEF StatusInv, NsdInv, ServiceInv
<1>7. StageInv'
  BY Zenon DEF StageInv, NsdInv, StatusInv, ServiceInv, OffInv
<1>8. ResultInv'
  BY Zenon DEF ResultInv, StageInv
<1> QED  BY <1>1, <1>2, <1>3, <1>4, <1>5, <1>6, <1>7, <1>8, Zenon

\* init_own_service keeps the invariant.
LEMMA Init_own_serviceKeeps ==
    ASSUME StartInv, init_own_service
    PROVE  StartInv'
<1> USE DaemonNames DEF StartInv, StartTypes, Places, Active, Over, Ended, init_own_service, Dies,
        Provided, Coprocd
<1>1. StartTypes'
  OBVIOUS
<1>2. MaskInv'
  BY Zenon DEF MaskInv
<1>3. OffInv'
  BY DEF OffInv
<1>4. ServiceInv'
  BY DEF ServiceInv
<1>5. NsdInv'
  BY DEF NsdInv, ServiceInv, StatusInv, OffInv
<1>6. StatusInv'
  BY DEF StatusInv, NsdInv, ServiceInv
<1>7. StageInv'
  BY DEF StageInv, NsdInv, StatusInv, ServiceInv, OffInv
<1>8. ResultInv'
  BY Zenon DEF ResultInv, StageInv
<1> QED  BY <1>1, <1>2, <1>3, <1>4, <1>5, <1>6, <1>7, <1>8, Zenon

\* coserviced_setup keeps the invariant.
LEMMA Coserviced_setupKeeps ==
    ASSUME StartInv, coserviced_setup
    PROVE  StartInv'
<1> USE DaemonNames DEF StartInv, StartTypes, Places, Active, Over, Ended, coserviced_setup, Step,
        Coprocd
<1>1. StartTypes'
  BY Zenon
<1>2. MaskInv'
  BY Zenon DEF MaskInv
<1>3. OffInv'
  BY ZenonT(60) DEF OffInv
<1>4. ServiceInv'
  BY DEF ServiceInv
<1>5. NsdInv'
  BY Zenon DEF NsdInv, ServiceInv, StatusInv, OffInv
<1>6. StatusInv'
  BY Zenon DEF StatusInv, NsdInv, ServiceInv
<1>7. StageInv'
  BY Zenon DEF StageInv, NsdInv, StatusInv, ServiceInv, OffInv
<1>8. ResultInv'
  BY Zenon DEF ResultInv, StageInv
<1> QED  BY <1>1, <1>2, <1>3, <1>4, <1>5, <1>6, <1>7, <1>8, Zenon

\* coeventd_startup keeps the invariant.
LEMMA Coeventd_startupKeeps ==
    ASSUME StartInv, coeventd_startup
    PROVE  StartInv'
<1> USE DaemonNames DEF StartInv, StartTypes, Places, Active, Over, Ended, coeventd_startup,
        Attempt, Dies, Coprocd
<1>1. StartTypes'
  OBVIOUS
<1>2. MaskInv'
  BY Zenon DEF MaskInv
<1>3. OffInv'
  BY DEF OffInv
<1>4. ServiceInv'
  BY DEF ServiceInv
<1>5. NsdInv'
  BY DEF NsdInv, ServiceInv, StatusInv, OffInv
<1>6. StatusInv'
  BY Zenon DEF StatusInv, NsdInv, ServiceInv
<1>7. StageInv'
  BY DEF StageInv, NsdInv, StatusInv, ServiceInv, OffInv
<1>8. ResultInv'
  BY Zenon DEF ResultInv, StageInv
<1> QED  BY <1>1, <1>2, <1>3, <1>4, <1>5, <1>6, <1>7, <1>8, Zenon

\* ipcd_startup keeps the invariant.
LEMMA Ipcd_startupKeeps ==
    ASSUME StartInv, ipcd_startup
    PROVE  StartInv'
<1> USE DaemonNames DEF StartInv, StartTypes, Places, Active, Over, Ended, ipcd_startup, Attempt,
        Dies, Coprocd
<1>1. StartTypes'
  OBVIOUS
<1>2. MaskInv'
  BY Zenon DEF MaskInv
<1>3. OffInv'
  BY DEF OffInv
<1>4. ServiceInv'
  BY DEF ServiceInv
<1>5. NsdInv'
  BY DEF NsdInv, ServiceInv, StatusInv, OffInv
<1>6. StatusInv'
  BY ZenonT(60) DEF StatusInv, NsdInv, ServiceInv
<1>7. StageInv'
  BY DEF StageInv, NsdInv, StatusInv, ServiceInv, OffInv
<1>8. ResultInv'
  BY Zenon DEF ResultInv, StageInv
<1> QED  BY <1>1, <1>2, <1>3, <1>4, <1>5, <1>6, <1>7, <1>8, Zenon

\* coeventd_setup_complete keeps the invariant.
LEMMA Coeventd_setup_completeKeeps ==
    ASSUME StartInv, coeventd_setup_complete
    PROVE  StartInv'
<1> USE DaemonNames DEF StartInv, StartTypes, Places, Active, Over, Ended, coeventd_setup_complete,
        Step, Coprocd
<1>1. StartTypes'
  BY Zenon
<1>2. MaskInv'
  BY Zenon DEF MaskInv
<1>3. OffInv'
  BY ZenonT(60) DEF OffInv
<1>4. ServiceInv'
  BY DEF ServiceInv
<1>5. NsdInv'
  BY Zenon DEF NsdInv, ServiceInv, StatusInv, OffInv
<1>6. StatusInv'
  BY ZenonT(60) DEF StatusInv, NsdInv, ServiceInv
<1>7. StageInv'
  BY Zenon DEF StageInv, NsdInv, StatusInv, ServiceInv, OffInv
<1>8. ResultInv'
  BY Zenon DEF ResultInv, StageInv
<1> QED  BY <1>1, <1>2, <1>3, <1>4, <1>5, <1>6, <1>7, <1>8, Zenon

\* ipcd_setup_complete keeps the invariant.
LEMMA Ipcd_setup_completeKeeps ==
    ASSUME StartInv, ipcd_setup_complete
    PROVE  StartInv'
<1> USE DaemonNames DEF StartInv, StartTypes, Places, Active, Over, Ended, ipcd_setup_complete,
        Step, Coprocd
<1>1. StartTypes'
  BY Zenon
<1>2. MaskInv'
  BY Zenon DEF MaskInv
<1>3. OffInv'
  BY ZenonT(60) DEF OffInv
<1>4. ServiceInv'
  BY DEF ServiceInv
<1>5. NsdInv'
  BY ZenonT(60) DEF NsdInv, ServiceInv, StatusInv, OffInv
<1>6. StatusInv'
  BY Zenon DEF StatusInv, NsdInv, ServiceInv
<1>7. StageInv'
  BY DEF StageInv, NsdInv, StatusInv, ServiceInv, OffInv
<1>8. ResultInv'
  BY Zenon DEF ResultInv, StageInv
<1> QED  BY <1>1, <1>2, <1>3, <1>4, <1>5, <1>6, <1>7, <1>8, Zenon


\* Attempt(d, f, g, S) keeps the invariant.
LEMMA AttemptKeeps ==
    ASSUME NEW d \in {"coeventd", "ipcd"}, NEW f \in {"start", "provide"}, NEW g \in {"provide", "insert"},
           NEW S, StartInv, Attempt(d, f, g, S)
    PROVE  StartInv'
<1> USE DaemonNames DEF StartInv, StartTypes, Places, Active, Over, Ended, Attempt, Dies, Coprocd
<1>1. StartTypes'
  OBVIOUS
<1>2. MaskInv'
  BY Zenon DEF MaskInv
<1>3. OffInv'
  BY DEF OffInv
<1>4. ServiceInv'
  BY DEF ServiceInv
<1>5. NsdInv'
  BY DEF NsdInv, ServiceInv, StatusInv, OffInv
<1>6. StatusInv'
  BY DEF StatusInv, NsdInv, ServiceInv
<1>7. StageInv'
  BY DEF StageInv, NsdInv, StatusInv, ServiceInv, OffInv
<1>8. ResultInv'
  BY ZenonT(60) DEF ResultInv, StageInv
<1> QED  BY <1>1, <1>2, <1>3, <1>4, <1>5, <1>6, <1>7, <1>8, Zenon

\* Insert(d) keeps the invariant.
LEMMA InsertKeeps ==
    ASSUME NEW d \in {"coeventd", "ipcd"}, StartInv, Insert(d)
    PROVE  StartInv'
<1> USE DaemonNames DEF StartInv, StartTypes, Places, Active, Over, Ended, Insert, Dies, Provided,
        Coprocd
<1>1. StartTypes'
  OBVIOUS
<1>2. MaskInv'
  BY Zenon DEF MaskInv
<1>3. OffInv'
  BY DEF OffInv
<1>4. ServiceInv'
  BY DEF ServiceInv
<1>5. NsdInv'
  BY DEF NsdInv, ServiceInv, StatusInv, OffInv
<1>6. StatusInv'
  BY DEF StatusInv, NsdInv, ServiceInv
<1>7. StageInv'
  BY DEF StageInv, NsdInv, StatusInv, ServiceInv, OffInv
<1>8. ResultInv'
  BY Zenon DEF ResultInv, StageInv
<1> QED  BY <1>1, <1>2, <1>3, <1>4, <1>5, <1>6, <1>7, <1>8, Zenon

\* Crash keeps the invariant.
LEMMA CrashKeeps ==
    ASSUME StartInv, Crash
    PROVE  StartInv'
<1> USE DaemonNames DEF StartInv, StartTypes, Places, Active, Over, Ended, Crash, Dies, Coprocd
<1>1. StartTypes'
  OBVIOUS
<1>2. MaskInv'
  BY Zenon DEF MaskInv
<1>3. OffInv'
  BY DEF OffInv
<1>4. ServiceInv'
  BY DEF ServiceInv
<1>5. NsdInv'
  BY DEF NsdInv, ServiceInv, StatusInv, OffInv
<1>6. StatusInv'
  BY DEF StatusInv, NsdInv, ServiceInv
<1>7. StageInv'
  BY DEF StageInv, NsdInv, StatusInv, ServiceInv, OffInv
<1>8. ResultInv'
  BY Zenon DEF ResultInv, StageInv
<1> QED  BY <1>1, <1>2, <1>3, <1>4, <1>5, <1>6, <1>7, <1>8, Zenon

\* init_core keeps the invariant.
LEMMA Init_coreKeeps ==
    ASSUME StartInv, init_core
    PROVE  StartInv'
<1> USE DaemonNames DEF StartInv, StartTypes, Places, Active, Over, Ended, init_core
<1>1. StartTypes'
  OBVIOUS
<1>2. MaskInv'
  BY Zenon DEF MaskInv
<1>3. OffInv'
  BY DEF OffInv
<1>4. ServiceInv'
  BY ZenonT(60) DEF ServiceInv
<1>5. NsdInv'
  BY Zenon DEF NsdInv, ServiceInv, StatusInv, OffInv
<1>6. StatusInv'
  BY Zenon DEF StatusInv, NsdInv, ServiceInv
<1>7. StageInv'
  BY DEF StageInv, NsdInv, StatusInv, ServiceInv, OffInv
<1>8. ResultInv'
  BY Zenon DEF ResultInv, StageInv
<1> QED  BY <1>1, <1>2, <1>3, <1>4, <1>5, <1>6, <1>7, <1>8, Zenon

\* The handler runs in the main thread, and only records the death.
LEMMA DiedEffect ==
    ASSUME StartInv, daemon_died
    PROVE  \E d \in Daemons : Recorded(d)
<1>1. PICK t \in Threads, d \in Dead \ reaped :
         /\ runloop(t) /\ halt_and_catch_fire(t, d)
         /\ UNCHANGED <<cpc, i, blocked, dpc, capv, root_ns, codiscover_scb, coproc_inited,
                        ukern_inited, wait, got, inserted, user, deaths>>
  BY Zenon DEF daemon_died
<1>2. d \in Daemons /\ dpc[d] = "dead"
  BY Zenon DEF Dead
<1>3. t \notin blocked
  BY <1>1, Zenon DEF runloop
<1>4. "workers" \in blocked
  BY <1>2, DaemonNames, Zenon DEF StartInv, MaskInv
<1>5. t = "main"
  BY <1>3, <1>4, Zenon DEF Threads
<1>6. handler' = "just_reap" /\ exited' = exited
  BY <1>1, <1>5, Zenon DEF halt_and_catch_fire, set_sigchld_handler, is_main_thread
<1>7. kill_module = {}
  BY Zenon DEF kill_module, module_status
<1>8. up' = up /\ status' = [e \in Daemons |-> IF e = d THEN "DIED" ELSE status[e]]
  BY <1>1, <1>7, Zenon DEF halt_and_catch_fire
<1> QED  BY <1>1, <1>2, <1>6, <1>8, Zenon DEF Recorded

\* Recorded(d) keeps the invariant.
LEMMA RecordedKeeps ==
    ASSUME NEW d \in Daemons, StartInv, Recorded(d)
    PROVE  StartInv'
<1> USE DaemonNames DEF StartInv, StartTypes, Places, Active, Over, Ended, Recorded
<1>1. StartTypes'
  BY Zenon
<1>2. MaskInv'
  BY Zenon DEF MaskInv
<1>3. OffInv'
  BY Zenon DEF OffInv
<1>4. ServiceInv'
  BY ZenonT(60) DEF ServiceInv
<1>5. NsdInv'
  BY Zenon DEF NsdInv, ServiceInv, StatusInv, OffInv
<1>6. StatusInv'
  BY Zenon DEF StatusInv, NsdInv, ServiceInv
<1>7. StageInv'
  BY Zenon DEF StageInv, NsdInv, StatusInv, ServiceInv, OffInv
<1>8. ResultInv'
  BY Zenon DEF ResultInv, StageInv
<1> QED  BY <1>1, <1>2, <1>3, <1>4, <1>5, <1>6, <1>7, <1>8, Zenon

\* The initial states satisfy the invariant.
LEMMA StartInvInit ==
    ASSUME StartupInit
    PROVE  StartInv
<1>1. StartTypes
  BY DaemonNames DEF StartupInit, StartTypes, Places, Active, Over, Ended
<1>2. MaskInv
  BY DaemonNames, Zenon DEF StartupInit, MaskInv, Places, Active, Over, Ended
<1>3. OffInv
  BY DaemonNames, Zenon DEF StartupInit, OffInv, Places, Active, Over, Ended
<1>4. ServiceInv
  BY DaemonNames, Zenon DEF StartupInit, ServiceInv, Places, Active, Over, Ended
<1>5. NsdInv
  BY DaemonNames, Zenon DEF StartupInit, NsdInv, Places, Active, Over, Ended
<1>6. StatusInv
  BY DaemonNames, Zenon DEF StartupInit, StatusInv, Places, Active, Over, Ended
<1>7. StageInv
  BY DaemonNames DEF StartupInit, StageInv, Places, Active, Over, Ended
<1>8. ResultInv
  BY DaemonNames, Zenon DEF StartupInit, ResultInv, Places, Active, Over, Ended
<1> QED  BY <1>1, <1>2, <1>3, <1>4, <1>5, <1>6, <1>7, <1>8, Zenon DEF StartInv

\* init_daemon gives up, or spawns daemon d with its vector of capabilities.
Launched(d) ==
    /\ cpc = "spawn" /\ d = Order[i]
    /\ status' \in {status, [status EXCEPT ![d] = "STARTING"]}
    /\ \/ /\ exited' \in {"died", "fault", "unavailable"} /\ cpc' = cpc /\ up' = up /\ dpc' = dpc
          /\ capv' = capv
       \/ /\ capv' = [capv EXCEPT ![d] = process_capvec[d]] /\ up' = up \cup {d}
          /\ dpc' = [dpc EXCEPT ![d] = "start"]
          /\ cpc' = "wait" /\ exited' = exited /\ status' = [status EXCEPT ![d] = "STARTING"]
    /\ blocked' = blocked \cup (IF "main" \in blocked THEN {"workers"} ELSE {})
    /\ UNCHANGED <<i, root_ns, codiscover_scb, coproc_inited, ukern_inited, wait, got, inserted, user>>

\* No assertion fails when a daemon is launched, and its vector is the one it reads.
LEMMA LaunchEffect ==
    ASSUME StartInv, init_daemon
    PROVE  \E d \in Daemons : Launched(d)
<1>0. PICK d \in Daemons : d = Order[i]
  BY DaemonNames DEF StartInv, StartTypes
<1>1. PICK v : build_daemon_capvec(d).ok = TRUE /\ v = build_daemon_capvec(d).capv /\ v = process_capvec[d]
  BY Vectors, Zenon
<1>2. get_capv_asserts(d)
  BY <1>0, DaemonNames DEF get_capv_asserts, StartInv, StartTypes, StageInv, NsdInv
<1>3. spawn_daemon_proc(d) = {"ok", "unavailable"}
  BY <1>1, <1>2, Zenon DEF spawn_daemon_proc
<1>4. spawn_daemon_initializer(d) \subseteq {"ok", "fault"}
  BY Zenon DEF spawn_daemon_initializer
<1>5. /\ cpc = "spawn"
      /\ blocked' = blocked \cup (IF "main" \in blocked THEN {"workers"} ELSE {})
      /\ UNCHANGED <<i, root_ns, codiscover_scb, coproc_inited, ukern_inited, wait, got, inserted, user>>
  BY Zenon DEF init_daemon
<1>6. CASE ~check_core(i - 1)
  <2>1. exited' = "died" /\ cpc' = cpc /\ up' = up /\ dpc' = dpc /\ capv' = capv /\ status' = status
    BY <1>6, Zenon DEF init_daemon
  <2> QED  BY <1>0, <1>5, <2>1, Zenon DEF Launched
<1>7. CASE check_core(i - 1)
  <2>1. /\ status' = [status EXCEPT ![d] = "STARTING"]
        /\ \E worker \in spawn_daemon_initializer(d), proc \in spawn_daemon_proc(d) :
               IF worker = "ok" /\ proc = "ok"
               THEN /\ capv' = [capv EXCEPT ![d] = build_daemon_capvec(d).capv]
                    /\ up' = up \cup {d} /\ dpc' = [dpc EXCEPT ![d] = "start"]
                    /\ cpc' = "wait" /\ UNCHANGED exited
               ELSE /\ exited' = IF worker = "ok" THEN proc ELSE worker
                    /\ UNCHANGED <<cpc, up, dpc, capv>>
    BY <1>0, <1>7, Zenon DEF init_daemon
  <2>2. PICK worker \in {"ok", "fault"}, proc \in {"ok", "unavailable"} :
               IF worker = "ok" /\ proc = "ok"
               THEN /\ capv' = [capv EXCEPT ![d] = v]
                    /\ up' = up \cup {d} /\ dpc' = [dpc EXCEPT ![d] = "start"]
                    /\ cpc' = "wait" /\ UNCHANGED exited
               ELSE /\ exited' = IF worker = "ok" THEN proc ELSE worker
                    /\ UNCHANGED <<cpc, up, dpc, capv>>
    BY <1>1, <1>3, <1>4, <2>1, Zenon
  <2>3. CASE worker = "ok" /\ proc = "ok"
    <3>1. /\ capv' = [capv EXCEPT ![d] = process_capvec[d]] /\ up' = up \cup {d}
          /\ dpc' = [dpc EXCEPT ![d] = "start"]
          /\ cpc' = "wait" /\ exited' = exited
      BY <1>1, <2>2, <2>3, Zenon
    <3> QED  BY <1>0, <1>5, <2>1, <3>1, Zenon DEF Launched
  <2>4. CASE ~(worker = "ok" /\ proc = "ok")
    <3>1. exited' \in {"died", "fault", "unavailable"} /\ cpc' = cpc /\ up' = up /\ dpc' = dpc /\ capv' = capv
      BY <2>2, <2>4, Zenon
    <3> QED  BY <1>0, <1>5, <2>1, <3>1, Zenon DEF Launched
  <2> QED  BY <2>3, <2>4, Zenon
<1> QED  BY <1>6, <1>7, Zenon

\* Launched(d) keeps the invariant.
LEMMA LaunchedKeeps ==
    ASSUME NEW d \in Daemons, StartInv, Launched(d)
    PROVE  StartInv'
<1>1. StartTypes'
  BY DaemonNames DEF StartInv, StartTypes, Places, Active, Over, Ended, Launched
<1>2. MaskInv'
  BY DaemonNames, Zenon DEF StartInv, MaskInv, StartTypes, Places, Active, Over, Ended, Launched
<1>3. OffInv'
  BY DaemonNames DEF StartInv, OffInv, StartTypes, Places, Active, Over, Ended, Launched
<1>4. ServiceInv'
  BY DaemonNames DEF StartInv, ServiceInv, StartTypes, OffInv, Places, Active, Over, Ended, Launched
<1>5. NsdInv'
  BY DaemonNames DEF StartInv, NsdInv, StartTypes, ServiceInv, StatusInv, OffInv, Places, Active,
     Over, Ended, Launched
<1>6. StatusInv'
  BY DaemonNames DEF StartInv, StatusInv, StartTypes, NsdInv, ServiceInv, OffInv, Places, Active,
     Over, Ended, Launched
<1>7. StageInv'
  BY DaemonNames DEF StartInv, StageInv, StartTypes, NsdInv, StatusInv, ServiceInv, OffInv, Places,
     Active, Over, Ended, Launched
<1>8. ResultInv'
  <2>1. exited' \notin {"assert", "not main"}
    BY Zenon DEF StartInv, ResultInv, Launched
  <2>2. ASSUME NEW x \in Daemons PROVE capv'[x] \in {capv[x], process_capvec[x]}
    BY ZenonT(60) DEF StartInv, StartTypes, Launched
  <2>3. \A x \in Daemons : capv[x] \in {<<>>, process_capvec[x]}
    BY Zenon DEF StartInv, ResultInv
  <2>4. ASSUME NEW x \in Daemons PROVE capv'[x] \in {<<>>, process_capvec[x]}
    BY <2>2, <2>3, Zenon
  <2> QED  BY <2>1, <2>4, Zenon DEF ResultInv
<1> QED  BY <1>1, <1>2, <1>3, <1>4, <1>5, <1>6, <1>7, <1>8, Zenon DEF StartInv


\* Every step of the start-up keeps the invariant.
LEMMA StartInvStep ==
    ASSUME StartInv, [StartupNext]_startVars
    PROVE  StartInv'
<1>1. CASE init_microkernel
  BY <1>1, Init_microkernelKeeps, Zenon
<1>2. CASE FinishMicrokernel
  BY <1>2, FinishMicrokernelKeeps, ZenonT(60)
<1>3. CASE just_reap
  BY <1>3, Just_reapKeeps, Zenon
<1>4. CASE coproc_user_init
  BY <1>4, Coproc_user_initKeeps, Zenon
<1>5. CASE init_service
  BY <1>5, Init_serviceKeeps, Zenon
<1>6. CASE nsd_setup
  BY <1>6, Nsd_setupKeeps, Zenon
<1>7. CASE SpuriousWakeup
  BY <1>7, SpuriousWakeupKeeps, Zenon
<1>8. CASE NsdWoken
  BY <1>8, NsdWokenKeeps, Zenon
<1>9. CASE startup_dance
  BY <1>9, Startup_danceKeeps, Zenon
<1>10. CASE start_fast_service
  BY <1>10, Start_fast_serviceKeeps, Zenon
<1>11. CASE nsd_setup_complete
  BY <1>11, Nsd_setup_completeKeeps, Zenon
<1>12. CASE init_own_service
  BY <1>12, Init_own_serviceKeeps, Zenon
<1>13. CASE coserviced_setup
  BY <1>13, Coserviced_setupKeeps, Zenon
<1>14. CASE coeventd_startup
  BY <1>14, Coeventd_startupKeeps, Zenon
<1>15. CASE ipcd_startup
  BY <1>15, Ipcd_startupKeeps, Zenon
<1>16. CASE coeventd_setup_complete
  BY <1>16, Coeventd_setup_completeKeeps, Zenon
<1>17. CASE ipcd_setup_complete
  BY <1>17, Ipcd_setup_completeKeeps, Zenon
<1>18. CASE init_core
  BY <1>18, Init_coreKeeps, Zenon
<1>19. CASE Crash
  BY <1>19, CrashKeeps, Zenon
<1>20. CASE init_daemon
  BY <1>20, LaunchEffect, LaunchedKeeps, Zenon
<1>21. CASE daemon_died
  BY <1>21, DiedEffect, RecordedKeeps, Zenon
<1>22. CASE init_event_service
  <2>1. Attempt("coeventd", "provide", "insert", {"coserviced"}) \/ Insert("coeventd")
    BY <1>22, Zenon DEF init_event_service
  <2>2. CASE Attempt("coeventd", "provide", "insert", {"coserviced"})
    BY <2>2, AttemptKeeps, Zenon
  <2>3. CASE Insert("coeventd")
    BY <2>3, InsertKeeps, Zenon
  <2> QED  BY <2>1, <2>2, <2>3, Zenon
<1>23. CASE init_fast_service
  <2>1. Attempt("ipcd", "provide", "insert", {"coserviced"}) \/ Insert("ipcd")
    BY <1>23, Zenon DEF init_fast_service
  <2>2. CASE Attempt("ipcd", "provide", "insert", {"coserviced"})
    BY <2>2, AttemptKeeps, Zenon
  <2>3. CASE Insert("ipcd")
    BY <2>3, InsertKeeps, Zenon
  <2> QED  BY <2>1, <2>2, <2>3, Zenon
<1>24. CASE init_slow_service
  <2>1. Attempt("ipcd", "provide", "insert", {"coserviced"}) \/ Insert("ipcd")
    BY <1>24, Zenon DEF init_slow_service
  <2>2. CASE Attempt("ipcd", "provide", "insert", {"coserviced"})
    BY <2>2, AttemptKeeps, Zenon
  <2>3. CASE Insert("ipcd")
    BY <2>3, InsertKeeps, Zenon
  <2> QED  BY <2>1, <2>2, <2>3, Zenon
<1>25. CASE UNCHANGED startVars
  <2>0. /\ cpc' = cpc /\ i' = i /\ status' = status /\ up' = up /\ blocked' = blocked /\ dpc' = dpc
        /\ capv' = capv
        /\ root_ns' = root_ns /\ codiscover_scb' = codiscover_scb /\ coproc_inited' = coproc_inited
        /\ ukern_inited' = ukern_inited
        /\ got' = got /\ inserted' = inserted /\ user' = user /\ exited' = exited
    BY <1>25, Zenon DEF startVars
  <2>1. StartTypes'
    BY <2>0, Zenon DEF StartInv, StartTypes
  <2>2. MaskInv'
    BY <2>0, Zenon DEF StartInv, MaskInv
  <2>3. OffInv'
    BY <2>0, Zenon DEF StartInv, OffInv
  <2>4. ServiceInv'
    BY <2>0, Zenon DEF StartInv, ServiceInv
  <2>5. NsdInv'
    BY <2>0, Zenon DEF StartInv, NsdInv
  <2>6. StatusInv'
    BY <2>0, Zenon DEF StartInv, StatusInv
  <2>7. StageInv'
    BY <2>0, Zenon DEF StartInv, StageInv
  <2>8. ResultInv'
    BY <2>0, Zenon DEF StartInv, ResultInv
  <2> QED  BY <2>1, <2>2, <2>3, <2>4, <2>5, <2>6, <2>7, <2>8, Zenon DEF StartInv
<1> QED  BY Zenon, <1>1, <1>2, <1>3, <1>4, <1>5, <1>6, <1>7, <1>8, <1>9, <1>10, <1>11, <1>12, <1>13,
   <1>14,
            <1>15, <1>16, <1>17, <1>18, <1>19, <1>20, <1>21, <1>22, <1>23, <1>24, <1>25
         DEF StartupNext, StartupProgress

\* What a user's success rests on.
LEMMA StartInvReady ==
    ASSUME StartInv
    PROVE  CapabilitiesReady
<1>1. /\ exited \notin {"assert", "not main"}
      /\ \A d \in Daemons : capv[d] # <<>> => capv[d] = process_capvec[d]
  BY Zenon DEF StartInv, ResultInv
<1>2. ASSUME user = "ok"
      PROVE  /\ root_ns /\ codiscover_scb
             /\ \A d \in Daemons : status[d] \in {"RUNNING", "DIED"} /\ inserted[d] = services[d]
  <2>1. ukern_inited /\ i = 4 /\ coproc_inited
    BY <1>2 DEF StartInv, StageInv
  <2>2. got /\ codiscover_scb /\ root_ns
    BY <2>1, Zenon DEF StartInv, StageInv, NsdInv
  <2>3. /\ status["nsd"] \in Over /\ inserted["nsd"] = 6 /\ status["coserviced"] \in Over
        /\ inserted["coserviced"] = 4
        /\ status["coeventd"] \in Over /\ inserted["coeventd"] = 3 /\ status["ipcd"] \in Over
        /\ inserted["ipcd"] = 7
    BY <2>1 DEF StartInv, StageInv, NsdInv
  <2> QED  BY <2>2, <2>3, DaemonNames, Zenon DEF Over
<1> QED  BY <1>1, <1>2, Zenon DEF CapabilitiesReady

\* coprocd's start-up, for any number of deaths: no assertion of it fails, only
\* the main thread takes SIGCHLD, every daemon finds its capabilities where its
\* structure has them, and a user whose coproc_init succeeds is given every
\* capability with all four daemons up or recorded dead after having put all
\* their services into the root namespace (core.c 217-272, monitor.c 131-148).
THEOREM UsersGetCapabilities == StartSpec => []CapabilitiesReady
<1>1. StartupInit => StartInv
  BY StartInvInit, Zenon
<1>2. StartInv /\ [StartupNext]_startVars => StartInv'
  BY StartInvStep, Zenon
<1>3. StartInv => CapabilitiesReady
  BY StartInvReady, Zenon
<1> QED  BY <1>1, <1>2, <1>3, PTL DEF StartSpec

=============================================================================
